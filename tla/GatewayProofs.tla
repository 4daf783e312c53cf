---------------------------- MODULE GatewayProofs ----------------------------
(***************************************************************************)
(* Proofs about the two gateways: in KEM mode (Gateway), and about their   *)
(* byte streams (GatewayWire).                                             *)
(*                                                                         *)
(* Every step of the composition in KEM mode is a step of the framing      *)
(* layer and a step of the key exchange, or leaves them alone, so the      *)
(* invariants proved of each hold here too.  On top of both stands what    *)
(* neither can say alone: which keys can still come out of an exchange,    *)
(* and which frames they open.                                             *)
(*                                                                         *)
(* A byte stream is proved correct by where the pieces written to it lie   *)
(* in what is not read yet (Laid): reads, writes and a connection that     *)
(* ends early only move, add or cut off pieces.                            *)
(***************************************************************************)
EXTENDS Gateway, GatewayWire, Integers, WellFoundedInduction, TLAPS

TunnelP == INSTANCE OtFrameProofs

KemP == INSTANCE KemExchangeProofs WITH
    ingressKey <- ingressKeys[Wildcard], egressKey <- egressKeys[Wildcard]

(* The inductive invariant *)

\* In KEM mode only the wildcard entry of a store ever holds a key.
WildcardOnly ==
    /\ keyMode = "kem"
    /\ \A d \in Devices : d # Wildcard => ingressKeys[d] = NoKey /\ egressKeys[d] = NoKey

\* A ciphertext the responder has yet to read carries a key that has sealed nothing,
\* and the initiator will not seal with it without an ACK.
PendingUnused ==
    \A c \in Conns : up[c] # NoKey =>
        /\ up[c] # ingressKeys[Wildcard]
        /\ \A blob \in wire : blob.key # up[c]

\* The ciphertext of the initiator's key is nowhere but on its connection, and gone
\* when the ACK is there.
KeySentOnce ==
    /\ initiator.pc = "recvAck" =>
         /\ \A c \in Conns : c # initiator.conn => up[c] # initiator.key
         /\ down[initiator.conn] = "ack" => up[initiator.conn] = NoKey
    /\ initiator.pc = "install" => \A c \in Conns : up[c] # initiator.key

\* A frame accepted in an earlier life of the egress is under a key that this life
\* neither has nor is about to install.
OldKeysGone ==
    \A a \in delivered :
        /\ a.blob \in wire /\ a.life \in Nat /\ a.life <= egressLife
        /\ a.life < egressLife => a.blob.key \notin {egressKeys[Wildcard], responder.key}

\* No task holds an opened frame that an earlier life has accepted.
OpeningIsNew ==
    \A e \in EgressTasks : egressTask[e] # NoFrame =>
        /\ opening[e] \in wire
        /\ \A a \in delivered : a.life < egressLife => a.blob # opening[e]

Own ==
    /\ opening \in [EgressTasks -> wire \cup {NoFrame}]
    /\ WildcardOnly
    /\ PendingUnused
    /\ KeySentOnce
    /\ OldKeysGone
    /\ OpeningIsNew
    /\ AcceptedOnceEver

Inv == TunnelP!IInv /\ KemP!Inv /\ Own

-----------------------------------------------------------------------------
(* The components' theorems, at this module's variables *)

LEMMA ComponentsAssumed == TunnelP!OtFrameAssumption /\ KemP!KemExchangeAssumption
  BY GatewayAssumption DEF TunnelP!OtFrameAssumption, KemP!KemExchangeAssumption,
     TunnelP!Frames, Tunnel!Frames, TunnelP!Channels, Tunnel!Channels

\* The framing layer seen through its own instance and through its proofs'.
LEMMA SameFraming == ASSUME [Tunnel!Next]_(Tunnel!vars) PROVE [TunnelP!Next]_(TunnelP!vars)
  BY DEF Tunnel!Next, Tunnel!IngressSeal, Tunnel!IngressNumber, Tunnel!EgressValidate,
     Tunnel!EgressOpen, Tunnel!IngressInstall, Tunnel!EgressInstall, Tunnel!IngressRestart,
     Tunnel!EgressRestart, Tunnel!Load, Tunnel!Opens, Tunnel!FreshStore, Tunnel!Channels,
     Tunnel!ingress, Tunnel!egress, Tunnel!lives, Tunnel!Garbage, Tunnel!vars,
     TunnelP!Next, TunnelP!IngressSeal, TunnelP!IngressNumber, TunnelP!EgressValidate,
     TunnelP!EgressOpen, TunnelP!IngressInstall, TunnelP!EgressInstall, TunnelP!IngressRestart,
     TunnelP!EgressRestart, TunnelP!Load, TunnelP!Opens, TunnelP!FreshStore, TunnelP!Channels,
     TunnelP!ingress, TunnelP!egress, TunnelP!lives, TunnelP!Garbage, TunnelP!vars

LEMMA FramingNext ==
    ASSUME TunnelP!IInv, [Tunnel!Next]_(Tunnel!vars)
    PROVE  TunnelP!IInv' /\ wire \subseteq wire'
<1>1. [TunnelP!Next]_(TunnelP!vars)
  BY SameFraming
<1>2. TunnelP!TypeOK'
  BY <1>1, ComponentsAssumed, TunnelP!TypeStep DEF TunnelP!IInv
<1>3. (TunnelP!NumberInv /\ TunnelP!SequenceNumbersUnique)'
  BY <1>1, ComponentsAssumed, TunnelP!NumberStep DEF TunnelP!IInv
<1>4. TunnelP!EgressInv'
  BY <1>1, ComponentsAssumed, TunnelP!EgressStep DEF TunnelP!IInv, TunnelP!EgressInv
<1>5. wire \subseteq wire'
  BY <1>1, ComponentsAssumed, TunnelP!WireGrows
<1> QED
  BY <1>2, <1>3, <1>4, <1>5 DEF TunnelP!IInv, TunnelP!EgressInv

LEMMA ExchangeNext ==
    ASSUME KemP!Inv, [Kem!Next]_(Kem!vars)
    PROVE  KemP!Inv'
<1>1. [KemP!Next]_(KemP!vars)
  BY DEF Kem!Next, Kem!InitiatorStep, Kem!ResponderStep, Kem!InitiatorConnect,
     Kem!InitiatorRefused, Kem!InitiatorEncapsulate, Kem!InitiatorAck, Kem!InitiatorFails,
     Kem!InitiatorInstall, Kem!InitiatorWake, Kem!ResponderBind, Kem!ResponderBindFails,
     Kem!ResponderAccept, Kem!ResponderDecapsulate, Kem!ResponderFails, Kem!ResponderInstall,
     Kem!Reset, Kem!InitiatorRestart, Kem!ResponderRestart, Kem!At, Kem!InUse, Kem!LiveKeys,
     Kem!Close, Kem!Delivers, Kem!WriteFails, Kem!ReadFails, Kem!Whole, Kem!channels, Kem!vars,
     KemP!Next, KemP!InitiatorStep, KemP!ResponderStep, KemP!InitiatorConnect,
     KemP!InitiatorRefused, KemP!InitiatorEncapsulate, KemP!InitiatorAck, KemP!InitiatorFails,
     KemP!InitiatorInstall, KemP!InitiatorWake, KemP!ResponderBind, KemP!ResponderBindFails,
     KemP!ResponderAccept, KemP!ResponderDecapsulate, KemP!ResponderFails, KemP!ResponderInstall,
     KemP!Reset, KemP!InitiatorRestart, KemP!ResponderRestart, KemP!At, KemP!InUse, KemP!LiveKeys,
     KemP!Close, KemP!Delivers, KemP!WriteFails, KemP!ReadFails, KemP!Whole, KemP!channels, KemP!vars
<1> QED
  BY <1>1, ComponentsAssumed, KemP!InvNext

-----------------------------------------------------------------------------
(* Every step of the composition is a step of each component *)

\* The facts about the components that the composition's steps need.
LEMMA Held ==
    ASSUME Inv
    PROVE  /\ initiator.pc = "install" => initiator.key \in Keys
           /\ responder.pc = "install" => responder.key \in Keys
           /\ \A blob \in wire : /\ blob.key \in Keys /\ blob.chan \in Tunnel!Channels
                                 /\ blob.seq \in 0..MaxSeq
<1>1. /\ initiator.pc = "install" => initiator.key \in Keys
      /\ responder.pc = "install" => responder.key \in Keys
  BY DEF Inv, KemP!Inv, KemP!TypeOK
<1>2. wire \subseteq TunnelP!Blobs /\ \A blob \in wire : blob.seq \in 1..MaxSeq
  BY DEF Inv, TunnelP!IInv, TunnelP!TypeOK, TunnelP!NumberInv
<1> QED
  BY <1>1, <1>2, GatewayAssumption DEF TunnelP!Blobs, TunnelP!Channels, Tunnel!Channels

LEMMA FramingStep == ASSUME Inv, [Next]_vars PROVE [Tunnel!Next]_(Tunnel!vars)
<1> USE Held DEF Tunnel!Next
<1>1. CASE Ingress
  BY <1>1 DEF Ingress
<1>2. ASSUME NEW e \in EgressTasks, EgressOpen(e) PROVE Tunnel!Next
  <2>1. PICK blob \in wire : Tunnel!EgressOpen(e, blob, blob.chan, blob.seq)
    BY <1>2 DEF EgressOpen
  <2> QED  BY <2>1
<1>3. ASSUME NEW e \in EgressTasks, EgressValidate(e) PROVE Tunnel!Next
  BY <1>3 DEF EgressValidate
<1>4. CASE Exchange
  BY <1>4 DEF Exchange, tunnel, Tunnel!vars, Tunnel!ingress, Tunnel!egress, Tunnel!lives
<1>5. CASE InitiatorInstall
  BY <1>5 DEF InitiatorInstall, Kem!InitiatorInstall
<1>6. CASE ResponderInstall
  BY <1>6 DEF ResponderInstall, Kem!ResponderInstall
<1>7. CASE IngressRestart
  BY <1>7 DEF IngressRestart
<1>8. CASE EgressRestart
  BY <1>8 DEF EgressRestart
<1>9. CASE UNCHANGED vars
  BY <1>9 DEF vars, tunnel, Tunnel!vars, Tunnel!ingress, Tunnel!egress, Tunnel!lives
<1> QED
  BY <1>1, <1>2, <1>3, <1>4, <1>5, <1>6, <1>7, <1>8, <1>9 DEF Next

LEMMA ExchangeStep == ASSUME [Next]_vars PROVE [Kem!Next]_(Kem!vars)
<1> USE DEF kem, Kem!Next, Kem!InitiatorStep, Kem!ResponderStep, Kem!vars, Kem!channels
<1>1. CASE Ingress
  BY <1>1 DEF Ingress, Tunnel!IngressSeal, Tunnel!IngressNumber, Tunnel!egress
<1>2. ASSUME NEW e \in EgressTasks, EgressOpen(e) PROVE UNCHANGED Kem!vars
  BY <1>2 DEF EgressOpen, Tunnel!EgressOpen, Tunnel!ingress
<1>3. ASSUME NEW e \in EgressTasks, EgressValidate(e) PROVE UNCHANGED Kem!vars
  BY <1>3 DEF EgressValidate, Tunnel!EgressValidate, Tunnel!ingress
<1>4. CASE Exchange
  BY <1>4 DEF Exchange
<1>5. CASE InitiatorInstall
  BY <1>5 DEF InitiatorInstall
<1>6. CASE ResponderInstall
  BY <1>6 DEF ResponderInstall
<1>7. CASE IngressRestart
  BY <1>7 DEF IngressRestart
<1>8. CASE EgressRestart
  BY <1>8 DEF EgressRestart
<1>9. CASE UNCHANGED vars
  BY <1>9 DEF vars, tunnel
<1> QED
  BY <1>1, <1>2, <1>3, <1>4, <1>5, <1>6, <1>7, <1>8, <1>9 DEF Next

-----------------------------------------------------------------------------
(* What the composition adds *)

\* A device's key is the wildcard's.
LEMMA LoadIsWildcard ==
    ASSUME WildcardOnly, NEW d \in Devices
    PROVE  /\ Tunnel!Load(ingressKeys, d) = ingressKeys[Wildcard]
           /\ Tunnel!Load(egressKeys, d) = egressKeys[Wildcard]
  BY DEF WildcardOnly, Tunnel!Load

\* The types that the steps below need.
LEMMA Typed ==
    ASSUME Inv
    PROVE  /\ ingressKeys \in [Devices \cup {Wildcard} -> Keys \cup {NoKey}]
           /\ egressKeys \in [Devices \cup {Wildcard} -> Keys \cup {NoKey}]
           /\ egressLife \in Nat
           /\ up \in [Conns -> Keys \cup {NoKey}]
           /\ down \in [Conns -> {"none", "pk", "ack"}]
           /\ initiator.pc \in {"recvPk", "recvAck"} => initiator.conn \in Conns
           /\ responder.pc = "recvCt" => responder.conn \in Conns
           /\ initiator.pc = "recvAck" => initiator.key \in Keys
           /\ opening \in [EgressTasks -> wire \cup {NoFrame}]
           /\ DOMAIN egressTask = EgressTasks
  BY DEF Inv, TunnelP!IInv, TunnelP!TypeOK, TunnelP!Store, KemP!Inv, KemP!TypeOK, KemP!KeyChosen, Own

LEMMA IngressOwn == ASSUME Inv, Ingress PROVE Own'
<1>1. PICK i \in IngressTasks :
         \/ Tunnel!IngressSeal(i)
         \/ \E c \in Tunnel!Channels, p \in Pdus : Tunnel!IngressNumber(i, c, p)
  BY DEF Ingress
<1>2. /\ UNCHANGED <<keyMode, ingressKeys, egressKeys, egressTask, egressLife, opening, delivered>>
      /\ UNCHANGED <<initiator, responder, up, down>>
  BY <1>1 DEF Ingress, Tunnel!IngressSeal, Tunnel!IngressNumber, Tunnel!egress, Tunnel!lives, kem, history
<1>3. wire \subseteq wire' /\ \A blob \in wire' : blob \in wire \/ blob.key = ingressKeys[Wildcard]
  <2>1. CASE wire' = wire
    BY <2>1
  <2>2. CASE wire' # wire
    <3> DEFINE f == ingressTask[i]
    <3>1. Tunnel!IngressSeal(i) /\ f # NoFrame
      BY <1>1, <2>2 DEF Tunnel!IngressNumber, Tunnel!IngressSeal
    <3>2. f \in TunnelP!Frames
      BY <3>1 DEF Inv, TunnelP!IInv, TunnelP!TypeOK
    <3>3. f.chan[2] \in Devices
      BY <3>2 DEF TunnelP!Frames, TunnelP!Channels
    <3>4. Tunnel!Load(ingressKeys, f.chan[2]) = ingressKeys[Wildcard]
      BY <3>3, LoadIsWildcard DEF Inv, Own
    <3>5. \E blob : wire' = wire \cup {blob} /\ blob.key = ingressKeys[Wildcard]
      BY <2>2, <3>1, <3>4 DEF Tunnel!IngressSeal
    <3> QED  BY <3>5
  <2> QED  BY <2>1, <2>2
<1>4. PendingUnused'
  BY <1>2, <1>3 DEF Inv, Own, PendingUnused
<1>5. OldKeysGone'
  BY <1>2, <1>3 DEF Inv, Own, OldKeysGone
<1>6. OpeningIsNew'
  BY <1>2, <1>3 DEF Inv, Own, OpeningIsNew
<1> QED
  BY <1>2, <1>3, <1>4, <1>5, <1>6 DEF Inv, Own, WildcardOnly, KeySentOnce, AcceptedOnceEver

LEMMA EgressOpenOwn == ASSUME Inv, NEW e \in EgressTasks, EgressOpen(e) PROVE Own'
<1>1. PICK blob \in wire :
         /\ Tunnel!EgressOpen(e, blob, blob.chan, blob.seq)
         /\ opening' = [opening EXCEPT ![e] = IF egressTask'[e] = NoFrame THEN @ ELSE blob]
  BY DEF EgressOpen
<1>2. /\ UNCHANGED <<keyMode, ingressKeys, egressKeys, wire, egressLife, delivered>>
      /\ UNCHANGED <<initiator, responder, up, down>>
  BY <1>1 DEF EgressOpen, Tunnel!EgressOpen, Tunnel!ingress, Tunnel!lives, kem
<1>3. opening' \in [EgressTasks -> wire \cup {NoFrame}]
  BY <1>1, Typed
<1>4. OpeningIsNew'
  <2>1. CASE egressTask' = egressTask
    <3>1. egressTask[e] = NoFrame
      BY <1>1 DEF Tunnel!EgressOpen
    <3>2. opening' = opening
      BY <1>1, <2>1, <3>1, Typed
    <3> QED  BY <1>2, <2>1, <3>2 DEF Inv, Own, OpeningIsNew
  <2>2. CASE egressTask' # egressTask
    <3>1. blob.chan[2] \in Devices
      BY Held DEF Tunnel!Channels
    <3>2. blob.key = egressKeys[Wildcard]
      BY <1>1, <2>2, <3>1, LoadIsWildcard DEF Inv, Own, Tunnel!EgressOpen, Tunnel!Opens
    <3>3. \A a \in delivered : a.life < egressLife => a.blob # blob
      BY <3>2 DEF Inv, Own, OldKeysGone
    <3>4. \A x \in EgressTasks : x # e => egressTask'[x] = egressTask[x] /\ opening'[x] = opening[x]
      BY <1>1, Typed DEF Tunnel!EgressOpen
    <3>5. egressTask'[e] # NoFrame => opening'[e] = blob
      BY <1>1, Typed
    <3> QED  BY <1>2, <3>3, <3>4, <3>5 DEF Inv, Own, OpeningIsNew
  <2> QED  BY <2>1, <2>2
<1> QED
  BY <1>2, <1>3, <1>4 DEF Inv, Own, WildcardOnly, PendingUnused, KeySentOnce, OldKeysGone, AcceptedOnceEver

LEMMA EgressValidateOwn == ASSUME Inv, NEW e \in EgressTasks, EgressValidate(e) PROVE Own'
<1>1. /\ UNCHANGED <<keyMode, ingressKeys, egressKeys, wire, egressLife>>
      /\ UNCHANGED <<initiator, responder, up, down>>
      /\ egressTask[e] # NoFrame
      /\ egressTask' = [egressTask EXCEPT ![e] = NoFrame]
      /\ opening' = [opening EXCEPT ![e] = NoFrame]
  BY DEF EgressValidate, Tunnel!EgressValidate, Tunnel!ingress, Tunnel!lives, kem
<1> DEFINE new == [blob |-> opening[e], life |-> egressLife]
<1>2. delivered' = delivered \/ delivered' = delivered \cup {new}
  BY DEF EgressValidate
<1>3. new.blob = opening[e] /\ new.life = egressLife
  OBVIOUS
<1> HIDE DEF new
<1>4. /\ opening[e] \in wire
      /\ \A a \in delivered : a.life < egressLife => a.blob # opening[e]
  BY <1>1 DEF Inv, Own, OpeningIsNew
<1>5. /\ opening' \in [EgressTasks -> wire \cup {NoFrame}]
      /\ \A x \in EgressTasks : egressTask'[x] # NoFrame =>
           egressTask'[x] = egressTask[x] /\ opening'[x] = opening[x]
  BY <1>1, Typed
<1>6. OldKeysGone'
  BY <1>1, <1>2, <1>3, <1>4, Typed DEF Inv, Own, OldKeysGone
<1>7. OpeningIsNew'
  BY <1>1, <1>2, <1>3, <1>5, Typed DEF Inv, Own, OpeningIsNew
<1>8. \A a \in delivered : a.blob = opening[e] => a.life = egressLife
  BY <1>4, Typed DEF Inv, Own, OldKeysGone
<1>9. AcceptedOnceEver'
  BY <1>2, <1>3, <1>8 DEF Inv, Own, AcceptedOnceEver
<1> QED
  BY <1>1, <1>5, <1>6, <1>7, <1>9 DEF Inv, Own, WildcardOnly, PendingUnused, KeySentOnce

\* A step of a key exchange loop that installs nothing.
LEMMA ExchangeOwn == ASSUME Inv, Exchange PROVE Own'
<1>1. UNCHANGED <<keyMode, ingressKeys, egressKeys, egressTask, wire, egressLife, opening, delivered>>
  BY DEF Exchange, tunnel, history
<1> SUFFICES PendingUnused' /\ KeySentOnce' /\ OldKeysGone'
  BY <1>1 DEF Inv, Own, WildcardOnly, OpeningIsNew, AcceptedOnceEver
<1> USE Typed, Held, GatewayAssumption DEF PendingUnused, KeySentOnce
<1>2. PendingUnused /\ KeySentOnce /\ OldKeysGone
  BY DEF Inv, Own
<1>3. ASSUME responder' = responder PROVE OldKeysGone'
  BY <1>1, <1>2, <1>3 DEF OldKeysGone
<1>4. ASSUME \E point : responder' = Kem!At(point) PROVE OldKeysGone'
  BY <1>1, <1>2, <1>4 DEF OldKeysGone, Kem!At
<1>5. ASSUME NEW c \in Conns, Kem!InitiatorConnect(c) PROVE PendingUnused' /\ KeySentOnce' /\ OldKeysGone'
  BY <1>1, <1>2, <1>3, <1>5 DEF Kem!InitiatorConnect
<1>6. ASSUME NEW k \in Keys, \A blob \in wire : blob.key # k, Kem!InitiatorEncapsulate(k)
      PROVE  PendingUnused' /\ KeySentOnce' /\ OldKeysGone'
  <2>1. /\ initiator.pc = "recvPk" /\ initiator.conn \in Conns
        /\ k # ingressKeys[Wildcard] /\ \A c \in Conns : up[c] # k
        /\ down' = [down EXCEPT ![initiator.conn] = "none"]
        /\ initiator' = [pc |-> "recvAck", conn |-> initiator.conn, key |-> k]
        /\ responder' = responder
        /\ up' \in {[up EXCEPT ![initiator.conn] = k], up}
    BY <1>6 DEF Kem!InitiatorEncapsulate, Kem!LiveKeys
  <2> QED  BY <1>1, <1>2, <1>3, <1>6, <2>1
<1>7. CASE Kem!InitiatorAck
  <2>1. /\ initiator.pc = "recvAck" /\ initiator.conn \in Conns /\ down[initiator.conn] = "ack"
        /\ initiator' = [pc |-> "install", conn |-> NoConn, key |-> initiator.key]
        /\ responder' = responder /\ up' = up
    BY <1>7 DEF Kem!InitiatorAck
  <2> QED  BY <1>1, <1>2, <1>3, <2>1
<1>8. CASE Kem!InitiatorFails \/ Kem!InitiatorWake
  BY <1>1, <1>2, <1>3, <1>8 DEF Kem!InitiatorFails, Kem!InitiatorWake, Kem!At, Kem!channels
<1>9. CASE Kem!InitiatorRefused \/ \E c \in Conns : Kem!Reset(c)
  BY <1>1, <1>2, <1>3, <1>9 DEF Kem!InitiatorRefused, Kem!Reset, Kem!vars, Kem!channels
<1>10. CASE Kem!ResponderBind \/ Kem!ResponderBindFails
  BY <1>1, <1>2, <1>4, <1>10 DEF Kem!ResponderBind, Kem!ResponderBindFails, Kem!channels
<1>11. CASE Kem!ResponderAccept
  <2>1. /\ initiator' = initiator /\ up' = up
        /\ responder' = responder \/ responder'.key = NoKey
        /\ \A c \in Conns : down'[c] = "ack" => down[c] = "ack"
    BY <1>11 DEF Kem!ResponderAccept
  <2> QED  BY <1>1, <1>2, <2>1 DEF OldKeysGone
<1>12. CASE Kem!ResponderDecapsulate
  <2> DEFINE c == responder.conn
  <2>1. /\ c \in Conns /\ up[c] # NoKey /\ initiator' = initiator
        /\ up' = [up EXCEPT ![c] = NoKey]
        /\ responder'.key \in {up[c], NoKey}
        /\ \A x \in Conns : x # c => down'[x] = down[x]
    BY <1>12 DEF Kem!ResponderDecapsulate, Kem!At
  <2>2. OldKeysGone'
    BY <1>1, <1>2, <2>1 DEF OldKeysGone
  <2> QED  BY <1>1, <1>2, <2>1, <2>2
<1>13. CASE Kem!ResponderFails
  BY <1>1, <1>2, <1>4, <1>13 DEF Kem!ResponderFails
<1> QED
  BY <1>5, <1>6, <1>7, <1>8, <1>9, <1>10, <1>11, <1>12, <1>13 DEF Exchange

LEMMA InitiatorInstallOwn == ASSUME Inv, InitiatorInstall PROVE Own'
<1>1. /\ initiator.pc = "install"
      /\ ingressKeys' = [ingressKeys EXCEPT ![Wildcard] = initiator.key]
      /\ initiator' = Kem!At("sleep")
      /\ UNCHANGED <<keyMode, egressKeys, egressTask, wire, egressLife, opening, delivered>>
      /\ UNCHANGED <<responder, up, down>>
  BY DEF InitiatorInstall, Tunnel!IngressInstall, Kem!InitiatorInstall, Kem!channels,
     Tunnel!egress, Tunnel!lives, history
<1>2. PendingUnused'
  BY <1>1, Typed DEF Inv, Own, KeySentOnce, PendingUnused
<1>3. KeySentOnce' /\ WildcardOnly'
  BY <1>1, Typed DEF Inv, Own, KeySentOnce, WildcardOnly, Kem!At
<1> QED
  BY <1>1, <1>2, <1>3 DEF Inv, Own, OldKeysGone, OpeningIsNew, AcceptedOnceEver

LEMMA ResponderInstallOwn == ASSUME Inv, ResponderInstall PROVE Own'
<1>1. /\ egressKeys' = [egressKeys EXCEPT ![Wildcard] = responder.key]
      /\ responder' = Kem!At("accept")
      /\ UNCHANGED <<keyMode, ingressKeys, egressTask, wire, egressLife, opening, delivered>>
      /\ UNCHANGED <<initiator, up, down>>
  BY DEF ResponderInstall, Tunnel!EgressInstall, Kem!ResponderInstall, Kem!channels,
     Tunnel!ingress, Tunnel!lives, history
<1>2. OldKeysGone'
  BY <1>1, Typed, Held, GatewayAssumption DEF Inv, Own, OldKeysGone, Kem!At
<1>3. WildcardOnly'
  BY <1>1, Typed DEF Inv, Own, WildcardOnly
<1> QED
  BY <1>1, <1>2, <1>3 DEF Inv, Own, PendingUnused, KeySentOnce, OpeningIsNew, AcceptedOnceEver

\* A restarted gateway has no key.
LEMMA FreshIsEmpty ==
    ASSUME WildcardOnly
    PROVE  Tunnel!FreshStore(keyMode) = [d \in Devices \cup {Wildcard} |-> NoKey]
  BY DEF WildcardOnly, Tunnel!FreshStore

LEMMA RestartOwn == ASSUME Inv, IngressRestart \/ EgressRestart PROVE Own'
<1>1. WildcardOnly /\ Tunnel!FreshStore(keyMode) = [d \in Devices \cup {Wildcard} |-> NoKey]
  BY FreshIsEmpty DEF Inv, Own
<1>2. CASE IngressRestart
  <2>1. /\ ingressKeys' = [d \in Devices \cup {Wildcard} |-> NoKey]
        /\ initiator' = Kem!At("connect")
        /\ UNCHANGED <<keyMode, egressKeys, egressTask, wire, egressLife, opening, delivered>>
        /\ UNCHANGED <<responder, up, down>>
    BY <1>1, <1>2 DEF IngressRestart, Tunnel!IngressRestart, Kem!InitiatorRestart, Tunnel!egress, history
  <2>2. PendingUnused' /\ KeySentOnce' /\ WildcardOnly'
    BY <1>1, <2>1 DEF Inv, Own, PendingUnused, KeySentOnce, WildcardOnly, Kem!At
  <2> QED
    BY <2>1, <2>2 DEF Inv, Own, OldKeysGone, OpeningIsNew, AcceptedOnceEver
<1>3. CASE EgressRestart
  <2>1. /\ egressKeys' = [d \in Devices \cup {Wildcard} |-> NoKey]
        /\ responder' = Kem!At("bind")
        /\ egressLife' = egressLife + 1
        /\ egressTask' = [e \in EgressTasks |-> NoFrame]
        /\ opening' = [e \in EgressTasks |-> NoFrame]
        /\ UNCHANGED <<keyMode, ingressKeys, wire, delivered>>
        /\ UNCHANGED <<initiator, up, down>>
    BY <1>1, <1>3 DEF EgressRestart, Tunnel!EgressRestart, Kem!ResponderRestart, Tunnel!ingress
  <2>2. OldKeysGone'
    BY <2>1, Typed, Held, GatewayAssumption DEF Inv, Own, OldKeysGone, Kem!At
  <2>3. WildcardOnly' /\ OpeningIsNew'
    BY <1>1, <2>1 DEF WildcardOnly, OpeningIsNew
  <2> QED
    BY <2>1, <2>2, <2>3 DEF Inv, Own, PendingUnused, KeySentOnce, AcceptedOnceEver
<1> QED
  BY <1>2, <1>3

-----------------------------------------------------------------------------
(* The theorems *)

LEMMA InvInit == ASSUME Init PROVE Inv
<1>1. TunnelP!Init /\ KemP!Init
  BY DEF Init, Tunnel!Init, TunnelP!Init, Tunnel!Channels, TunnelP!Channels, Tunnel!FreshStore,
     TunnelP!FreshStore, Kem!Init, KemP!Init, Kem!At, KemP!At
<1>2. TunnelP!IInv
  BY <1>1, ComponentsAssumed, TunnelP!InvBase
<1>3. KemP!Inv
  BY <1>1, ComponentsAssumed, KemP!InvInit
<1>4. /\ keyMode = "kem" /\ wire = {} /\ delivered = {}
      /\ ingressKeys = Tunnel!FreshStore(keyMode) /\ egressKeys = Tunnel!FreshStore(keyMode)
      /\ egressTask = [e \in EgressTasks |-> NoFrame]
      /\ opening = [e \in EgressTasks |-> NoFrame]
      /\ initiator = Kem!At("connect") /\ up = [c \in Conns |-> NoKey]
  BY DEF Init, Tunnel!Init, Kem!Init
<1>5. Own
  BY <1>4 DEF Own, WildcardOnly, PendingUnused, KeySentOnce, OldKeysGone, OpeningIsNew,
     AcceptedOnceEver, Tunnel!FreshStore, Kem!At
<1> QED
  BY <1>2, <1>3, <1>5 DEF Inv

LEMMA InvNext == ASSUME Inv, [Next]_vars PROVE Inv'
<1>1. TunnelP!IInv'
  BY FramingStep, FramingNext DEF Inv
<1>2. KemP!Inv'
  BY ExchangeStep, ExchangeNext DEF Inv
<1>3. Own'
  <2>1. CASE UNCHANGED vars
    BY <2>1 DEF Inv, Own, vars, tunnel, kem, history, WildcardOnly, PendingUnused, KeySentOnce,
       OldKeysGone, OpeningIsNew, AcceptedOnceEver
  <2>2. CASE Next
    BY <2>2, IngressOwn, EgressOpenOwn, EgressValidateOwn, ExchangeOwn, InitiatorInstallOwn,
       ResponderInstallOwn, RestartOwn DEF Next
  <2> QED  BY <2>1, <2>2
<1> QED
  BY <1>1, <1>2, <1>3 DEF Inv

\* Both components keep their invariants when they share the key stores, and no key
\* of an earlier life of the egress comes back.
THEOREM GatewayInvariant == Spec => []Inv
  BY InvInit, InvNext, PTL DEF Spec

\* The two gateways of main, with the loops of kem_exchange.rs writing the stores,
\* implement the framing layer on its own: its theorems hold of them.
THEOREM ImplementsFraming == Spec => TunnelSpec
<1>1. Init => Tunnel!Init
  BY DEF Init
<1>2. Inv /\ [Next]_vars => [Tunnel!Next]_(Tunnel!vars)
  BY FramingStep
<1> QED
  BY <1>1, <1>2, GatewayInvariant, PTL DEF Spec, TunnelSpec, Tunnel!Spec

\* In KEM mode too the two gateways are the abstract channel of OtChannel.
THEOREM ImplementsChannel == Spec => TunnelP!ChannelSpec
<1>1. Tunnel!Init => TunnelP!Init
  BY DEF Tunnel!Init, TunnelP!Init, Tunnel!Channels, TunnelP!Channels, Tunnel!FreshStore, TunnelP!FreshStore
<1>2. [Tunnel!Next]_(Tunnel!vars) => [TunnelP!Next]_(TunnelP!vars)
  BY SameFraming
<1>3. TunnelP!Spec => TunnelP!ChannelSpec
  BY ComponentsAssumed, TunnelP!Refinement
<1> QED
  BY <1>1, <1>2, <1>3, ImplementsFraming, PTL DEF TunnelSpec, Tunnel!Spec, TunnelP!Spec

\* They implement the key exchange on its own as well, with the wildcard entries for
\* its keys, so AgreementAfterAck holds of what the connection tasks load.
THEOREM ImplementsExchange == Spec => Kem!Spec
<1>1. Init => Kem!Init
  BY DEF Init
<1>2. [Next]_vars => [Kem!Next]_(Kem!vars)
  BY ExchangeStep
<1> QED
  BY <1>1, <1>2, PTL DEF Spec, Kem!Spec

\* While the ingress sleeps between exchanges and the egress has a key and is not
\* about to replace it, unwrap_pdu opens every frame that wrap_pdu seals.
THEOREM SettledFramesAreOpened == Spec => []SettledFramesOpen
<1>1. ASSUME Inv PROVE SettledFramesOpen
  <2> SUFFICES ASSUME initiator.pc = "sleep", responder.pc # "install", egressKeys[Wildcard] # NoKey,
                      NEW blob \in wire, blob.key = Tunnel!Load(ingressKeys, blob.chan[2])
               PROVE  Openable(blob)
    BY DEF SettledFramesOpen
  <2>1. blob.chan[2] \in Devices
    BY <1>1, Held DEF Tunnel!Channels
  <2>2. /\ Tunnel!Load(ingressKeys, blob.chan[2]) = ingressKeys[Wildcard]
        /\ Tunnel!Load(egressKeys, blob.chan[2]) = egressKeys[Wildcard]
    BY <1>1, <2>1, LoadIsWildcard DEF Inv, Own
  <2>3. egressKeys[Wildcard] = ingressKeys[Wildcard]
    BY <1>1 DEF Inv, KemP!Inv, KemP!SettledAfterAck, KemP!Settled
  <2> QED
    BY <2>2, <2>3 DEF Openable, Tunnel!Opens
<1> QED
  BY <1>1, GatewayInvariant, PTL

\* No frame is accepted in two lives of the egress: SequenceState forgets its window
\* in a restart, but the SessionKeyStore forgets the keys, and a half-finished
\* exchange can only bring one that has not sealed anything.
THEOREM NeverAcceptedTwice == Spec => []AcceptedOnceEver
<1>1. Inv => AcceptedOnceEver
  BY DEF Inv, Own
<1> QED
  BY <1>1, GatewayInvariant, PTL

-----------------------------------------------------------------------------
(* Byte streams *)

\* Byte strings laid end to end: s is what is left of pieces 1 to Len(P), piece k
\* between cut[k - 1] and cut[k], where what was read lies at or below zero.
Laid(s, cut, P) ==
    /\ cut \in [0..Len(P) -> Int]
    /\ cut[0] <= 0
    /\ \A k \in 1..Len(P) : cut[k] = cut[k - 1] + Len(P[k])
    /\ \A j, k \in 0..Len(P) : j < k => cut[j] < cut[k]
    /\ Len(s) <= cut[Len(P)]
    /\ \A k \in 1..Len(P) : \A i \in 1..Len(P[k]) :
          cut[k - 1] + i \in 1..Len(s) => s[cut[k - 1] + i] = P[k][i]

\* A byte of either connection.
Byte == 0..255

\* Byte strings, none of them empty.
Pieces(P) == P \in Seq(Seq(Byte)) /\ \A k \in DOMAIN P : P[k] # <<>>

\* The ends after n bytes were read, and after a piece of n bytes was added.
Shifted(cut, m, n) == [k \in 0..m |-> cut[k] - n]
Extended(cut, m, n) == [k \in 0..(m + 1) |-> IF k <= m THEN cut[k] ELSE cut[m] + n]

\* A set of numbers that is not empty has a least one.
LEMMA NatLeast ==
    ASSUME NEW T \in SUBSET Nat, T # {}
    PROVE  \E x \in T : \A y \in T : x <= y
<1> DEFINE R == OpToRel(<, Nat)
<1>1. IsWellFoundedOn(R, Nat)
  BY NatLessThanWellFounded, Zenon
<1>2. \A y, x \in Nat : y < x => <<y, x>> \in R
  BY DEF OpToRel
<1> HIDE DEF R
<1>3. PICK x \in T : \A y \in T : ~ (<<y, x>> \in R)
  BY <1>1, WFMin
<1>4. ASSUME NEW y \in T PROVE x <= y
  <2>1. x \in Nat /\ y \in Nat
    OBVIOUS
  <2>2. ~ (y < x)
    BY <1>2, <1>3, <2>1
  <2> QED  BY <2>1, <2>2
<1> QED  BY <1>4

\* Nothing is laid in an empty connection.
LEMMA LaidNothing == Laid(<<>>, [k \in 0..0 |-> 0], <<>>)
  BY DEF Laid

\* t is p followed by r.
Join(t, p, r) ==
    /\ t \in Seq(Byte) /\ Len(t) = Len(p) + Len(r)
    /\ \A i \in 1..Len(p) : t[i] = p[i]
    /\ \A i \in 1..Len(r) : t[Len(p) + i] = r[i]

\* What concatenation makes, element by element.
LEMMA Joined == ASSUME NEW p \in Seq(Byte), NEW r \in Seq(Byte) PROVE Join(p \o r, p, r)
  BY DEF Join

\* Piece k and its two ends.
PieceAt(P, cut, k) ==
    /\ Len(P) \in Nat /\ k \in 0..Len(P) /\ k - 1 \in 0..Len(P)
    /\ Len(P[k]) \in Nat /\ Len(P[k]) > 0
    /\ cut[k - 1] \in Int /\ cut[k] \in Int /\ cut[k] = cut[k - 1] + Len(P[k])
    /\ cut[Len(P)] \in Int /\ cut[k] <= cut[Len(P)]

\* A piece that is laid has its two ends where its length puts them.
LEMMA LaidAt ==
    ASSUME NEW s, NEW P, Pieces(P), NEW cut, Laid(s, cut, P), NEW k \in 1..Len(P)
    PROVE  PieceAt(P, cut, k)
<1>1. Len(P) \in Nat /\ P[k] \in Seq(Byte) /\ P[k] # <<>>
  BY DEF Pieces
<1>2. Len(P[k]) \in Nat /\ Len(P[k]) > 0
  BY <1>1
<1>3. k \in 0..Len(P) /\ k - 1 \in 0..Len(P) /\ Len(P) \in 0..Len(P)
  BY <1>1
<1>4. cut[k - 1] \in Int /\ cut[k] \in Int /\ cut[Len(P)] \in Int
  BY <1>3 DEF Laid
<1>5. cut[k] = cut[k - 1] + Len(P[k])
  BY DEF Laid
<1>6. cut[k] <= cut[Len(P)]
  <2>1. CASE k = Len(P)
    BY <1>4, <2>1
  <2>2. CASE k < Len(P)
    <3>1. cut[k] < cut[Len(P)]
      BY <1>3, <2>2 DEF Laid
    <3> QED BY <1>4, <3>1
  <2> QED BY <1>1, <2>1, <2>2
<1> QED BY <1>1, <1>2, <1>3, <1>4, <1>5, <1>6 DEF PieceAt

\* Reading n bytes moves every end by n.
LEMMA LaidDrop ==
    ASSUME NEW s \in Seq(Byte), NEW P, Pieces(P), NEW cut, Laid(s, cut, P),
           NEW n \in 0..Len(s)
    PROVE  Laid(SubSeq(s, n + 1, Len(s)), Shifted(cut, Len(P), n), P)
<1> DEFINE t == SubSeq(s, n + 1, Len(s))
<1> DEFINE new == Shifted(cut, Len(P), n)
<1>1. Len(t) = Len(s) - n /\ \A i \in 1..Len(t) : t[i] = s[n + i]
  OBVIOUS
<1>2. Len(P) \in Nat /\ \A k \in 1..Len(P) : Len(P[k]) \in Nat
  BY DEF Pieces
<1>3. new \in [0..Len(P) -> Int] /\ \A k \in 0..Len(P) : new[k] = cut[k] - n
  BY DEF Laid, Shifted
<1> HIDE DEF t, new
<1>4. /\ \A k \in 0..Len(P) : cut[k] \in Int
      /\ \A k \in 1..Len(P) : k - 1 \in 0..Len(P) /\ k \in 0..Len(P)
      /\ cut[0] <= 0 /\ Len(s) <= cut[Len(P)] /\ Len(s) \in Nat
  <2>1. \A k \in 0..Len(P) : cut[k] \in Int
    BY <1>2 DEF Laid
  <2>2. \A k \in 1..Len(P) : k - 1 \in 0..Len(P) /\ k \in 0..Len(P)
    BY <1>2
  <2>3. cut[0] <= 0 /\ Len(s) <= cut[Len(P)] /\ Len(s) \in Nat
    BY DEF Laid
  <2> QED BY <2>1, <2>2, <2>3
<1>5. new[0] <= 0 /\ Len(t) <= new[Len(P)]
  <2>1. 0 \in 0..Len(P) /\ Len(P) \in 0..Len(P) /\ n \in Nat
    BY <1>2, <1>4
  <2>2. /\ cut[0] \in Int /\ cut[Len(P)] \in Int
        /\ new[0] = cut[0] - n /\ new[Len(P)] = cut[Len(P)] - n
    BY <1>3, <1>4, <2>1
  <2> QED BY <1>1, <1>4, <2>1, <2>2
<1>6. ASSUME NEW k \in 1..Len(P) PROVE new[k] = new[k - 1] + Len(P[k])
  <2>1. /\ cut[k] = cut[k - 1] + Len(P[k]) /\ k \in 0..Len(P) /\ k - 1 \in 0..Len(P)
        /\ cut[k - 1] \in Int /\ cut[k] \in Int /\ Len(P[k]) \in Nat
    BY LaidAt DEF PieceAt
  <2>2. new[k] = cut[k] - n /\ new[k - 1] = cut[k - 1] - n
    BY <1>3, <2>1
  <2> QED BY <2>1, <2>2
<1>7. ASSUME NEW j \in 0..Len(P), NEW k \in 0..Len(P), j < k PROVE new[j] < new[k]
  <2>1. cut[j] < cut[k]
    BY <1>7 DEF Laid
  <2> QED BY <1>3, <1>4, <2>1
<1>8. ASSUME NEW k \in 1..Len(P), NEW i \in 1..Len(P[k]), new[k - 1] + i \in 1..Len(t)
      PROVE  t[new[k - 1] + i] = P[k][i]
  <2>1. new[k - 1] = cut[k - 1] - n /\ cut[k - 1] \in Int /\ i \in Int
    BY <1>2, <1>3, <1>4
  <2>2. n + (new[k - 1] + i) = cut[k - 1] + i
    BY <2>1
  <2>3. 1 <= new[k - 1] + i /\ new[k - 1] + i <= Len(s) - n
    BY <1>1, <1>4, <1>8
  <2>4. cut[k - 1] + i \in 1..Len(s)
    <3>1. n \in Nat /\ Len(s) \in Nat
      BY <1>4
    <3> QED BY <2>1, <2>3, <3>1
  <2>5. s[cut[k - 1] + i] = P[k][i]
    BY <2>4 DEF Laid
  <2> QED BY <1>1, <1>8, <2>2, <2>5
<1>9. Laid(t, new, P)
  BY <1>3, <1>5, <1>6, <1>7, <1>8 DEF Laid
<1> QED BY <1>9 DEF t, new

\* A connection that ends early still holds the same pieces, as far as it goes.
LEMMA LaidPrefix ==
    ASSUME NEW s \in Seq(Byte), NEW P, Pieces(P), NEW cut, Laid(s, cut, P),
           NEW n \in 0..Len(s)
    PROVE  Laid(SubSeq(s, 1, n), cut, P)
<1> DEFINE t == SubSeq(s, 1, n)
<1>1. Len(t) = n /\ \A i \in 1..n : t[i] = s[i]
  OBVIOUS
<1> HIDE DEF t
<1>2. Len(P) \in Nat /\ cut[Len(P)] \in Int
  BY DEF Pieces, Laid
<1>3. ASSUME NEW k \in 1..Len(P), NEW i \in 1..Len(P[k]), cut[k - 1] + i \in 1..Len(t)
      PROVE  t[cut[k - 1] + i] = P[k][i]
  <2>1. cut[k - 1] + i \in 1..Len(s)
    BY <1>1, <1>3
  <2> QED BY <1>1, <1>3, <2>1 DEF Laid
<1>4. Len(t) <= cut[Len(P)]
  BY <1>1, <1>2 DEF Laid
<1>5. Laid(t, cut, P)
  BY <1>3, <1>4 DEF Laid
<1> QED BY <1>5 DEF t

\* A write puts a piece behind the last one.
LEMMA LaidExtend ==
    ASSUME NEW s \in Seq(Byte), NEW P, Pieces(P), NEW cut, Laid(s, cut, P),
           Len(s) = cut[Len(P)], NEW p \in Seq(Byte), p # <<>>
    PROVE  /\ Laid(s \o p, Extended(cut, Len(P), Len(p)), Append(P, p))
           /\ Len(s \o p) = Extended(cut, Len(P), Len(p))[Len(Append(P, p))]
           /\ Pieces(Append(P, p))
<1> DEFINE new == Extended(cut, Len(P), Len(p))
<1> DEFINE Q == Append(P, p)
<1> DEFINE t == s \o p
<1> DEFINE m == Len(P)
<1>1. m \in Nat /\ \A k \in 1..m : Len(P[k]) \in Nat
  BY DEF Pieces
<1>2. Len(Q) = m + 1 /\ Q[m + 1] = p /\ \A k \in 1..m : Q[k] = P[k]
  BY DEF Pieces
<1>3. /\ Len(t) = Len(s) + Len(p) /\ \A i \in 1..Len(s) : t[i] = s[i]
      /\ \A i \in 1..Len(p) : t[Len(s) + i] = p[i]
  BY Joined DEF Join
<1>4. Len(p) \in Nat /\ Len(p) > 0 /\ Len(s) \in Nat
  OBVIOUS
<1>5. Pieces(Q)
  <2>1. Q \in Seq(Seq(Byte))
    BY DEF Pieces
  <2>2. \A k \in 1..(m + 1) : Q[k] # <<>>
    BY <1>1, <1>2 DEF Pieces
  <2> QED BY <1>2, <2>1, <2>2 DEF Pieces
<1>6. /\ new \in [0..(m + 1) -> Int]
      /\ new[m + 1] = cut[m] + Len(p)
      /\ \A k \in 0..m : new[k] = cut[k]
  BY <1>1, <1>4 DEF Extended, Laid
<1> HIDE DEF new, Q, t, m
<1>7. cut \in [0..m -> Int] /\ Len(s) = cut[m] /\ cut[0] <= 0
  BY DEF Laid, m
<1>8. new[0] <= 0 /\ Len(t) = new[Len(Q)]
  BY <1>1, <1>2, <1>3, <1>6, <1>7
<1>9. ASSUME NEW k \in 1..(m + 1) PROVE new[k] = new[k - 1] + Len(Q[k])
  <2>1. CASE k = m + 1
    BY <1>1, <1>2, <1>6, <2>1
  <2>2. CASE k \in 1..m
    <3>1. k - 1 \in 0..m /\ k \in 0..m
      BY <1>1, <2>2
    <3>2. cut[k] = cut[k - 1] + Len(P[k])
      BY <2>2 DEF Laid, m
    <3> QED BY <1>2, <1>6, <2>2, <3>1, <3>2
  <2> QED BY <1>1, <2>1, <2>2
<1>10. ASSUME NEW j \in 0..(m + 1), NEW k \in 0..(m + 1), j < k PROVE new[j] < new[k]
  <2>1. j \in 0..m
    BY <1>1, <1>10
  <2>2. CASE k = m + 1
    <3>1. cut[j] <= cut[m] /\ cut[j] \in Int /\ cut[m] \in Int
      <4>1. j = m \/ j < m
        BY <1>1, <2>1
      <4>2. j < m => cut[j] < cut[m]
        BY <1>1, <2>1 DEF Laid, m
      <4> QED BY <1>1, <1>7, <2>1, <4>1, <4>2
    <3> QED BY <1>4, <1>6, <2>1, <2>2, <3>1
  <2>3. CASE k \in 0..m
    BY <1>6, <1>10, <2>1, <2>3 DEF Laid, m
  <2> QED BY <1>1, <2>2, <2>3
<1>11. ASSUME NEW k \in 1..(m + 1), NEW i \in 1..Len(Q[k]), new[k - 1] + i \in 1..Len(t)
       PROVE  t[new[k - 1] + i] = Q[k][i]
  <2>1. CASE k = m + 1
    <3>1. new[k - 1] = Len(s) /\ Q[k] = p
      BY <1>1, <1>2, <1>6, <1>7, <2>1
    <3> QED BY <1>3, <1>11, <3>1
  <2>2. CASE k \in 1..m
    <3>1. k - 1 \in 0..m /\ k \in 0..m /\ new[k - 1] = cut[k - 1] /\ Q[k] = P[k]
      BY <1>1, <1>2, <1>6, <2>2
    <3>2. cut[k] = cut[k - 1] + Len(P[k]) /\ cut[k] <= cut[m] /\ cut[k] \in Int /\ cut[k - 1] \in Int
      <4>1. k \in 1..Len(P)
        BY <2>2 DEF m
      <4>2. PieceAt(P, cut, k)
        BY <4>1, LaidAt, Zenon
      <4> QED BY <4>2 DEF m, PieceAt
    <3>3. cut[k - 1] + i \in 1..Len(s)
      <4>1. i \in Int /\ i <= Len(P[k]) /\ Len(P[k]) \in Nat /\ 1 <= cut[k - 1] + i
        BY <1>1, <1>11, <2>2, <3>1
      <4> QED BY <1>4, <1>7, <3>2, <4>1
    <3>4. s[cut[k - 1] + i] = P[k][i]
      BY <2>2, <3>1, <3>3 DEF Laid, m
    <3> QED BY <1>3, <3>1, <3>3, <3>4
  <2> QED BY <1>1, <2>1, <2>2
<1>12. Laid(t, new, Q)
  <2>1. Len(t) <= new[Len(Q)] /\ new \in [0..Len(Q) -> Int]
    BY <1>2, <1>3, <1>4, <1>6, <1>8
  <2> QED BY <1>2, <1>8, <1>9, <1>10, <1>11, <2>1 DEF Laid
<1> QED BY <1>5, <1>8, <1>12 DEF t, new, Q, m

LEMMA ElementOf == ASSUME NEW T, NEW p \in Seq(T), NEW i \in 1..Len(p) PROVE p[i] \in T
  OBVIOUS

LEMMA SameSeq ==
    ASSUME NEW T, NEW p \in Seq(T), NEW q \in Seq(T), Len(p) = Len(q),
           \A i \in 1..Len(p) : p[i] = q[i]
    PROVE  p = q
  OBVIOUS

\* t is the elements of s from a to b.
CutOut(t, s, a, b) ==
    /\ t \in Seq(Byte)
    /\ Len(t) = b - a + 1
    /\ \A i \in 1..(b - a + 1) : t[i] = s[a - 1 + i]

\* What SubSeq returns, element by element.
LEMMA SubSeqCuts ==
    ASSUME NEW s \in Seq(Byte), NEW a \in Nat, NEW b \in Nat, 1 <= a, a <= b + 1, b <= Len(s)
    PROVE  CutOut(SubSeq(s, a, b), s, a, b)
<1> DEFINE t == SubSeq(s, a, b)
<1>1. Len(s) \in Nat /\ b - a + 1 \in Nat
  OBVIOUS
<1>2. t = [i \in 1..(b - a + 1) |-> s[a - 1 + i]]
  BY <1>1
<1>3. ASSUME NEW i \in 1..(b - a + 1) PROVE s[a - 1 + i] \in Byte
  <2>1. a - 1 + i \in 1..Len(s)
    BY <1>1
  <2>2. \A j \in 1..Len(s) : s[j] \in Byte
    OBVIOUS
  <2> QED BY <2>1, <2>2
<1>4. t \in [1..(b - a + 1) -> Byte]
  BY <1>2, <1>3
<1>5. t \in Seq(Byte) /\ Len(t) = b - a + 1
  <2> HIDE DEF t
  <2> DEFINE c == b - a + 1
  <2>1. c \in Nat /\ t \in [1..c -> Byte]
    BY <1>1, <1>4
  <2> HIDE DEF c
  <2>2. t \in Seq(Byte) /\ Len(t) = c
    BY <2>1
  <2> QED BY <2>2 DEF c
<1>6. \A i \in 1..(b - a + 1) : t[i] = s[a - 1 + i]
  BY <1>2
<1> QED BY <1>5, <1>6 DEF CutOut

\* What lies at the head of s when piece h + 1 starts there.
LEMMA LaidHead ==
    ASSUME NEW s \in Seq(Byte), NEW P, Pieces(P), NEW cut, Laid(s, cut, P),
           NEW h \in 0..Len(P), cut[h] = 0, s # <<>>
    PROVE  /\ h + 1 \in 1..Len(P)
           /\ P[h + 1] \in Seq(Byte) /\ P[h + 1] # <<>>
           /\ cut[h + 1] = Len(P[h + 1])
           /\ \A i \in 1..Len(s) : i <= Len(P[h + 1]) => s[i] = P[h + 1][i]
           /\ Len(s) >= Len(P[h + 1]) => SubSeq(s, 1, Len(P[h + 1])) = P[h + 1]
<1>1. Len(P) \in Nat /\ Len(s) \in Nat /\ Len(s) > 0
  BY DEF Pieces
<1>2. h # Len(P)
  BY <1>1 DEF Laid
<1>3. h + 1 \in 1..Len(P) /\ (h + 1) - 1 = h
  BY <1>1, <1>2
<1> DEFINE p == P[h + 1]
<1>4. p \in Seq(Byte) /\ p # <<>> /\ Len(p) \in Nat
  BY <1>3 DEF Pieces
<1>5. cut[h + 1] = cut[h] + Len(p)
  BY <1>3 DEF Laid
<1>6. cut[h + 1] = Len(p)
  BY <1>4, <1>5
<1>7. \A i \in 1..Len(p) : cut[h] + i \in 1..Len(s) => s[cut[h] + i] = p[i]
  <2>1. \A k \in 1..Len(P) : \A i \in 1..Len(P[k]) :
          cut[k - 1] + i \in 1..Len(s) => s[cut[k - 1] + i] = P[k][i]
    BY DEF Laid
  <2>2. \A i \in 1..Len(p) : cut[(h + 1) - 1] + i \in 1..Len(s) => s[cut[(h + 1) - 1] + i] = p[i]
    BY <1>3, <2>1
  <2> QED BY <1>3, <2>2
<1> HIDE DEF p
<1>8. ASSUME NEW i \in 1..Len(s), i <= Len(p) PROVE s[i] = p[i]
  <2>1. i \in 1..Len(p) /\ cut[h] + i = i
    BY <1>1, <1>4, <1>8
  <2> QED BY <1>7, <2>1
<1>9. ASSUME Len(s) >= Len(p) PROVE SubSeq(s, 1, Len(p)) = p
  <2>1. CutOut(SubSeq(s, 1, Len(p)), s, 1, Len(p))
    BY <1>1, <1>4, <1>9, SubSeqCuts
  <2>2. ASSUME NEW i \in 1..Len(p) PROVE SubSeq(s, 1, Len(p))[i] = p[i]
    BY <1>1, <1>4, <1>8, <1>9, <2>1 DEF CutOut
  <2> QED BY <1>4, <2>1, <2>2, SameSeq DEF CutOut
<1> QED BY <1>3, <1>4, <1>6, <1>8, <1>9 DEF p

\* The piece in which s begins, and how much of it was read.
LEMMA LaidFind ==
    ASSUME NEW s \in Seq(Byte), NEW P, Pieces(P), NEW cut, Laid(s, cut, P), s # <<>>
    PROVE  \E h \in 0..Len(P) : h + 1 \in 1..Len(P) /\ cut[h] <= 0 /\ 0 < cut[h + 1]
<1> DEFINE S == {k \in 0..Len(P) : 0 < cut[k]}
<1>1. Len(P) \in Nat /\ Len(s) \in Nat /\ Len(s) > 0
  BY DEF Pieces
<1>2. cut \in [0..Len(P) -> Int] /\ Len(s) <= cut[Len(P)] /\ cut[0] <= 0
  BY DEF Laid
<1>3. Len(P) \in S /\ S \in SUBSET Nat /\ S # {}
  BY <1>1, <1>2
<1>4. PICK k \in S : \A j \in S : k <= j
  BY <1>3, NatLeast
<1>5. k # 0 /\ k \in 1..Len(P)
  BY <1>1, <1>2
<1>6. k - 1 \notin S
  BY <1>3, <1>4, <1>5
<1>7. k - 1 \in 0..Len(P) /\ (k - 1) + 1 = k
  BY <1>1, <1>5
<1>8. cut[k - 1] <= 0 /\ 0 < cut[k]
  BY <1>2, <1>6, <1>7
<1> QED BY <1>5, <1>7, <1>8

\* Reading as far as piece h when the ends are that far apart.
LEMMA LaidOrder ==
    ASSUME NEW s, NEW P, Pieces(P), NEW cut, Laid(s, cut, P),
           NEW j \in 0..Len(P), NEW k \in 0..Len(P), cut[j] = cut[k]
    PROVE  j = k
<1>1. Len(P) \in Nat /\ cut[j] \in Int /\ cut[k] \in Int
  BY DEF Pieces, Laid
<1>2. j < k => cut[j] < cut[k]
  BY DEF Laid
<1>3. k < j => cut[k] < cut[j]
  BY DEF Laid
<1> QED BY <1>1, <1>2, <1>3

(* Numbers in bytes *)

\* A number of at most three bytes.
Small(n) == n \in Nat /\ n <= MAX_SEQ

LEMMA DivMod ==
    ASSUME NEW n \in Nat
    PROVE  n \div 256 \in Nat /\ (n % 256) \in 0..255 /\ n = 256 * (n \div 256) + (n % 256)
  BY SMT

LEMMA DivTwice ==
    ASSUME NEW n \in Nat
    PROVE  n \div 65536 = (n \div 256) \div 256
<1> DEFINE a == n \div 256
<1> DEFINE c == a \div 256
<1>1. a \in Nat /\ (n % 256) \in 0..255 /\ n = 256 * a + (n % 256)
  BY DivMod
<1>2. c \in Nat /\ (a % 256) \in 0..255 /\ a = 256 * c + (a % 256)
  BY <1>1, DivMod
<1> HIDE DEF a, c
<1>3. PICK r \in Int : r = 256 * (a % 256) + (n % 256)
  BY <1>1, <1>2
<1>4. 0 <= r /\ r < 65536 /\ n = 65536 * c + r
  BY <1>1, <1>2, <1>3, SMT
<1>5. n \div 65536 = c
  BY <1>2, <1>4, SMT
<1> QED BY <1>5 DEF a, c

\* The three bytes of a small number give it back.
LEMMA ThreeBytes ==
    ASSUME NEW n, Small(n)
    PROVE  /\ n \div 65536 \in 0..255 /\ (n \div 256) % 256 \in 0..255 /\ (n % 256) \in 0..255
           /\ ((n \div 65536) * 256 + ((n \div 256) % 256)) * 256 + (n % 256) = n
<1> DEFINE a == n \div 256
<1>1. n \in Nat /\ n <= 16777215
  BY SMT DEF Small, MAX_SEQ
<1>2. a \in Nat /\ (n % 256) \in 0..255 /\ n = 256 * a + (n % 256) /\ n \div 65536 = a \div 256
  BY <1>1, DivMod, DivTwice, SMT
<1> HIDE DEF a
<1>3. a \div 256 \in Nat /\ (a % 256) \in 0..255 /\ a = 256 * (a \div 256) + (a % 256)
  BY <1>2, DivMod, SMT
<1>4. a \div 256 <= 255
  BY <1>1, <1>2, <1>3, SMT
<1>5. ((a \div 256) * 256 + (a % 256)) * 256 + (n % 256) = n
  BY <1>2, <1>3, SMT
<1>6. a \div 256 \in 0..255
  BY <1>3, <1>4, SMT
<1>7. n \div 65536 \in 0..255 /\ (n \div 256) % 256 \in 0..255 /\ (n % 256) \in 0..255
  BY <1>2, <1>3, <1>6 DEF a
<1>8. ((n \div 65536) * 256 + ((n \div 256) % 256)) * 256 + (n % 256) = n
  BY <1>2, <1>5 DEF a
<1> QED BY <1>7, <1>8

\* t holds n in its last three bytes, after zeros.
Holds(t, w, n) ==
    /\ t \in Seq(Byte) /\ Len(t) = w
    /\ \A i \in 1..(w - 3) : t[i] = 0
    /\ (t[w - 2] * 256 + t[w - 1]) * 256 + t[w] = n

\* to_be_bytes writes zeros and then the number.
LEMMA BigEndianHolds ==
    ASSUME NEW w \in {4, 8}, NEW n, Small(n)
    PROVE  Holds(BigEndian(n, w), w, n)
<1> DEFINE zeros == [i \in 1..(w - 3) |-> 0]
<1> DEFINE low == <<n \div 65536, (n \div 256) % 256, n % 256>>
<1>1. zeros \in Seq(Byte) /\ Len(zeros) = w - 3 /\ \A i \in 1..(w - 3) : zeros[i] = 0
  BY DEF Byte
<1>2. low \in Seq(Byte) /\ Len(low) = 3
  BY ThreeBytes DEF Byte
<1>3. (low[1] * 256 + low[2]) * 256 + low[3] = n
  <2>1. low[1] = n \div 65536 /\ low[2] = (n \div 256) % 256 /\ low[3] = n % 256
    OBVIOUS
  <2> HIDE DEF low
  <2> QED BY <2>1, ThreeBytes
<1> HIDE DEF zeros, low
<1> DEFINE t == zeros \o low
<1>4. /\ t \in Seq(Byte) /\ Len(t) = w
      /\ \A i \in 1..(w - 3) : t[i] = zeros[i]
      /\ t[w - 2] = low[1] /\ t[w - 1] = low[2] /\ t[w] = low[3]
  <2>1. /\ t \in Seq(Byte) /\ Len(t) = (w - 3) + 3
        /\ \A i \in 1..(w - 3) : t[i] = zeros[i]
        /\ \A i \in 1..3 : t[(w - 3) + i] = low[i]
    <3>1. Join(t, zeros, low)
      BY <1>1, <1>2, Joined
    <3> HIDE DEF t
    <3> QED BY <1>1, <1>2, <3>1 DEF Join
  <2> HIDE DEF t
  <2>2. t[(w - 3) + 1] = low[1] /\ t[(w - 3) + 2] = low[2] /\ t[(w - 3) + 3] = low[3]
    BY <2>1
  <2>3. (w - 3) + 1 = w - 2 /\ (w - 3) + 2 = w - 1 /\ (w - 3) + 3 = w
    OBVIOUS
  <2> QED BY <2>1, <2>2, <2>3
<1>5. BigEndian(n, w) = t
  BY DEF BigEndian, zeros, low
<1> HIDE DEF t
<1> QED BY <1>1, <1>3, <1>4, <1>5 DEF Holds

(* Envelopes *)

\* The fields of an envelope wrap_pdu makes.
EnvOK(e) ==
    /\ e = [protocol |-> e.protocol, device |-> e.device, seq |-> e.seq, blob |-> e.blob]
    /\ e.protocol \in {1, 2}
    /\ Small(e.device)
    /\ Small(e.seq)
    /\ e.blob \in Seq(Byte) /\ Len(e.blob) <= MAX_BLOB

\* Where the fields of e lie in b.
EnvLaid(b, e) ==
    /\ b \in Seq(Byte) /\ Len(b) = 23 + Len(e.blob)
    /\ b[1] = 78 /\ b[2] = 81 /\ b[3] = e.protocol
    /\ b[8] = 0 /\ (b[9] * 256 + b[10]) * 256 + b[11] = e.device
    /\ b[16] = 0 /\ (b[17] * 256 + b[18]) * 256 + b[19] = e.seq
    /\ b[20] = 0 /\ (b[21] * 256 + b[22]) * 256 + b[23] = Len(e.blob)
    /\ \A i \in 1..Len(e.blob) : b[23 + i] = e.blob[i]

LEMMA SmallBlob == ASSUME NEW e, EnvOK(e) PROVE Small(Len(e.blob))
<1>1. Len(e.blob) \in Nat /\ Len(e.blob) <= MAX_BLOB
  BY DEF EnvOK
<1>2. MAX_BLOB <= MAX_SEQ /\ MAX_BLOB \in Nat /\ MAX_SEQ \in Nat
  BY SMT DEF MAX_BLOB, MAX_SEQ
<1> QED BY <1>1, <1>2 DEF Small

\* EnvelopeBytes puts every field where parse_envelope_header looks for it.
LEMMA EnvelopeLaid == ASSUME NEW e, EnvOK(e) PROVE EnvLaid(EnvelopeBytes(e), e)
<1> DEFINE a == ENVELOPE_MAGIC \o <<e.protocol>>
<1> DEFINE d == BigEndian(e.device, 8)
<1> DEFINE q == BigEndian(e.seq, 8)
<1> DEFINE l == BigEndian(Len(e.blob), 4)
<1>1. Holds(d, 8, e.device) /\ Holds(q, 8, e.seq) /\ Holds(l, 4, Len(e.blob))
  BY SmallBlob, BigEndianHolds DEF EnvOK
<1>2. EnvelopeBytes(e) = a \o d \o q \o l \o e.blob
  BY DEF EnvelopeBytes
<1>3. a \in Seq(Byte) /\ Len(a) = 3 /\ a[1] = 78 /\ a[2] = 81 /\ a[3] = e.protocol
  <2> DEFINE m == ENVELOPE_MAGIC
  <2> DEFINE p == <<e.protocol>>
  <2>1. m \in Seq(Byte) /\ Len(m) = 2 /\ m[1] = 78 /\ m[2] = 81
    BY DEF Byte, ENVELOPE_MAGIC
  <2>2. p \in Seq(Byte) /\ Len(p) = 1 /\ p[1] = e.protocol
    BY DEF EnvOK, Byte
  <2>3. Join(a, m, p)
    BY <2>1, <2>2, Joined
  <2> HIDE DEF a, m, p
  <2>4. a \in Seq(Byte) /\ Len(a) = 3 /\ \A i \in 1..2 : a[i] = m[i]
    BY <2>1, <2>2, <2>3 DEF Join
  <2>5. a[2 + 1] = p[1]
    BY <2>1, <2>2, <2>3 DEF Join
  <2> QED BY <2>1, <2>2, <2>4, <2>5
<1>4. e.blob \in Seq(Byte) /\ Len(e.blob) \in Nat
  BY DEF EnvOK
<1> HIDE DEF a, d, q, l
<1> DEFINE x == a \o d
<1> DEFINE y == x \o q
<1> DEFINE z == y \o l
<1> DEFINE b == z \o e.blob
<1>5. Join(x, a, d)
  BY <1>1, <1>3, Joined DEF Holds
<1> HIDE DEF x
<1>6. Join(y, x, q)
  BY <1>1, <1>5, Joined DEF Holds, Join
<1> HIDE DEF y
<1>7. Join(z, y, l)
  BY <1>1, <1>6, Joined DEF Holds, Join
<1> HIDE DEF z
<1>8. Join(b, z, e.blob)
  BY <1>4, <1>7, Joined DEF Join
<1> HIDE DEF b
<1>9. /\ Len(x) = 11 /\ \A i \in 1..3 : x[i] = a[i]
      /\ \A i \in 1..8 : x[3 + i] = d[i]
  BY <1>1, <1>3, <1>5 DEF Join, Holds
<1>10. /\ Len(y) = 19 /\ \A i \in 1..11 : y[i] = x[i]
       /\ \A i \in 1..8 : y[11 + i] = q[i]
  BY <1>1, <1>6, <1>9 DEF Join, Holds
<1>11. /\ Len(z) = 23 /\ \A i \in 1..19 : z[i] = y[i]
       /\ \A i \in 1..4 : z[19 + i] = l[i]
  BY <1>1, <1>7, <1>10 DEF Join, Holds
<1>12. /\ b \in Seq(Byte) /\ Len(b) = 23 + Len(e.blob) /\ \A i \in 1..23 : b[i] = z[i]
       /\ \A i \in 1..Len(e.blob) : b[23 + i] = e.blob[i]
  BY <1>4, <1>8, <1>11 DEF Join
<1>13. b[1] = 78 /\ b[2] = 81 /\ b[3] = e.protocol
  <2>1. \A i \in 1..3 : b[i] = a[i]
    <3> SUFFICES ASSUME NEW i \in 1..3 PROVE b[i] = a[i]
      OBVIOUS
    <3>1. i \in 1..23 /\ i \in 1..19 /\ i \in 1..11
      OBVIOUS
    <3>2. b[i] = z[i] /\ z[i] = y[i]
      BY <1>11, <1>12, <3>1
    <3>3. y[i] = x[i] /\ x[i] = a[i]
      BY <1>9, <1>10, <3>1
    <3> QED BY <3>2, <3>3
  <2> QED BY <1>3, <2>1
<1>14. b[8] = d[5] /\ b[9] = d[6] /\ b[10] = d[7] /\ b[11] = d[8]
  <2>1. b[8] = x[8] /\ b[9] = x[9] /\ b[10] = x[10] /\ b[11] = x[11]
    <3>1. \A i \in 8..11 : i \in 1..23 /\ i \in 1..19 /\ i \in 1..11
      OBVIOUS
    <3>2. \A i \in 8..11 : b[i] = x[i]
      BY <1>10, <1>11, <1>12, <3>1
    <3> QED BY <3>2
  <2>2. x[3 + 5] = d[5] /\ x[3 + 6] = d[6] /\ x[3 + 7] = d[7] /\ x[3 + 8] = d[8]
    BY <1>9
  <2> QED BY <2>1, <2>2
<1>15. b[16] = q[5] /\ b[17] = q[6] /\ b[18] = q[7] /\ b[19] = q[8]
  <2>1. b[16] = y[16] /\ b[17] = y[17] /\ b[18] = y[18] /\ b[19] = y[19]
    <3>1. \A i \in 16..19 : i \in 1..23 /\ i \in 1..19
      OBVIOUS
    <3>2. \A i \in 16..19 : b[i] = y[i]
      BY <1>11, <1>12, <3>1
    <3> QED BY <3>2
  <2>2. y[11 + 5] = q[5] /\ y[11 + 6] = q[6] /\ y[11 + 7] = q[7] /\ y[11 + 8] = q[8]
    BY <1>10
  <2> QED BY <2>1, <2>2
<1>16. b[20] = l[1] /\ b[21] = l[2] /\ b[22] = l[3] /\ b[23] = l[4]
  <2>1. b[20] = z[20] /\ b[21] = z[21] /\ b[22] = z[22] /\ b[23] = z[23]
    BY <1>12
  <2>2. z[19 + 1] = l[1] /\ z[19 + 2] = l[2] /\ z[19 + 3] = l[3] /\ z[19 + 4] = l[4]
    BY <1>11
  <2> QED BY <2>1, <2>2
<1>17. d[5] = 0 /\ (d[6] * 256 + d[7]) * 256 + d[8] = e.device
  BY <1>1 DEF Holds
<1>18. q[5] = 0 /\ (q[6] * 256 + q[7]) * 256 + q[8] = e.seq
  BY <1>1 DEF Holds
<1>19. l[1] = 0 /\ (l[2] * 256 + l[3]) * 256 + l[4] = Len(e.blob)
  BY <1>1 DEF Holds
<1>20. EnvLaid(b, e)
  BY <1>12, <1>13, <1>14, <1>15, <1>16, <1>17, <1>18, <1>19 DEF EnvLaid
<1> QED BY <1>2, <1>20 DEF b, z, y, x

\* from_be_bytes of four and of eight bytes inside t.
LEMMA U32Is ==
    ASSUME NEW t \in Seq(Byte), NEW a \in Nat, 1 <= a, a + 3 <= Len(t), t[a] = 0
    PROVE  U32(SubSeq(t, a, a + 3)) = (t[a + 1] * 256 + t[a + 2]) * 256 + t[a + 3]
<1> DEFINE b == SubSeq(t, a, a + 3)
<1>1. CutOut(b, t, a, a + 3)
  BY SubSeqCuts
<1>2. (a + 3) - a + 1 = 4 /\ a - 1 + 1 = a /\ a - 1 + 2 = a + 1 /\ a - 1 + 3 = a + 2 /\ a - 1 + 4 = a + 3
  OBVIOUS
<1> HIDE DEF b
<1>3. \A i \in 1..4 : b[i] = t[a - 1 + i]
  BY <1>1, <1>2 DEF CutOut
<1>4. b[1] = t[a - 1 + 1] /\ b[2] = t[a - 1 + 2] /\ b[3] = t[a - 1 + 3] /\ b[4] = t[a - 1 + 4]
  BY <1>3
<1>5. b[1] = 0 /\ b[2] = t[a + 1] /\ b[3] = t[a + 2] /\ b[4] = t[a + 3]
  BY <1>2, <1>4
<1>6. U32(b) = (b[2] * 256 + b[3]) * 256 + b[4]
  BY <1>5 DEF U32
<1> QED BY <1>5, <1>6 DEF b

LEMMA U64Is ==
    ASSUME NEW t \in Seq(Byte), NEW a \in Nat, 1 <= a, a + 7 <= Len(t), t[a + 4] = 0
    PROVE  U64(SubSeq(t, a, a + 7)) = (t[a + 5] * 256 + t[a + 6]) * 256 + t[a + 7]
<1> DEFINE b == SubSeq(t, a, a + 7)
<1>1. CutOut(b, t, a, a + 7)
  BY SubSeqCuts
<1>2. /\ (a + 7) - a + 1 = 8 /\ a - 1 + 5 = a + 4 /\ a - 1 + 6 = a + 5 /\ a - 1 + 7 = a + 6
      /\ a - 1 + 8 = a + 7
  OBVIOUS
<1> HIDE DEF b
<1>3. b \in Seq(Byte) /\ Len(b) = 8 /\ \A i \in 1..8 : b[i] = t[a - 1 + i]
  BY <1>1, <1>2 DEF CutOut
<1>4. b[5] = t[a - 1 + 5] /\ b[6] = t[a - 1 + 6] /\ b[7] = t[a - 1 + 7] /\ b[8] = t[a - 1 + 8]
  BY <1>3
<1>5. b[5] = 0 /\ b[6] = t[a + 5] /\ b[7] = t[a + 6] /\ b[8] = t[a + 7]
  BY <1>2, <1>4
<1>6. U32(SubSeq(b, 5, 5 + 3)) = (b[5 + 1] * 256 + b[5 + 2]) * 256 + b[5 + 3]
  <2>1. 5 \in Nat /\ 5 + 3 <= Len(b) /\ b[5] = 0 /\ 1 <= 5
    BY <1>3, <1>5
  <2> QED BY <1>3, <2>1, U32Is
<1>7. U64(b) = (b[6] * 256 + b[7]) * 256 + b[8]
  BY <1>6 DEF U64
<1> QED BY <1>5, <1>7 DEF b

\* ParseEnvelope takes an envelope apart again.
LEMMA ParseInverts ==
    ASSUME NEW e, EnvOK(e), NEW b, EnvLaid(b, e)
    PROVE  ParseEnvelope(b) = e
<1>1. b \in Seq(Byte) /\ Len(b) = 23 + Len(e.blob) /\ Len(e.blob) \in Nat /\ e.blob \in Seq(Byte)
  BY DEF EnvOK, EnvLaid
<1>2. U64(SubSeq(b, 4, 4 + 7)) = (b[4 + 5] * 256 + b[4 + 6]) * 256 + b[4 + 7]
  <2>1. b[4 + 4] = 0 /\ 4 + 7 <= Len(b)
    BY <1>1 DEF EnvLaid
  <2> QED BY <1>1, <2>1, U64Is
<1>3. U64(SubSeq(b, 4, 11)) = e.device
  BY <1>2 DEF EnvLaid
<1>4. U64(SubSeq(b, 12, 12 + 7)) = (b[12 + 5] * 256 + b[12 + 6]) * 256 + b[12 + 7]
  <2>1. b[12 + 4] = 0 /\ 12 + 7 <= Len(b)
    BY <1>1 DEF EnvLaid
  <2> QED BY <1>1, <2>1, U64Is
<1>5. U64(SubSeq(b, 12, 19)) = e.seq
  BY <1>4 DEF EnvLaid
<1>6. SubSeq(b, 24, Len(b)) = e.blob
  <2> DEFINE t == SubSeq(b, 24, Len(b))
  <2>1. CutOut(t, b, 24, Len(b))
    BY <1>1, SubSeqCuts
  <2> HIDE DEF t
  <2>2. t \in Seq(Byte) /\ Len(t) = Len(e.blob) /\ \A i \in 1..Len(e.blob) : t[i] = b[23 + i]
    BY <1>1, <2>1 DEF CutOut
  <2>3. \A i \in 1..Len(t) : t[i] = e.blob[i]
    BY <2>2 DEF EnvLaid
  <2>4. t = e.blob
    BY <1>1, <2>2, <2>3, SameSeq
  <2> QED BY <2>4 DEF t
<1>7. SubSeq(b, ENVELOPE_HEADER_SIZE + 1, Len(b)) = e.blob
  BY <1>6 DEF ENVELOPE_HEADER_SIZE
<1>8. b[3] = e.protocol
  BY DEF EnvLaid
<1>9. ParseEnvelope(b) = [protocol |-> e.protocol, device |-> e.device, seq |-> e.seq, blob |-> e.blob]
  BY <1>3, <1>5, <1>7, <1>8 DEF ParseEnvelope
<1> QED BY <1>9 DEF EnvOK

(* Frames *)

LEMMA Pair ==
    ASSUME NEW b \in Seq(Byte), NEW a \in Nat, 1 <= a, a + 1 <= Len(b)
    PROVE  SubSeq(b, a, a + 1) = <<b[a], b[a + 1]>>
<1> DEFINE t == SubSeq(b, a, a + 1)
<1>1. CutOut(t, b, a, a + 1)
  BY SubSeqCuts
<1>2. (a + 1) - a + 1 = 2 /\ a - 1 + 1 = a /\ a - 1 + 2 = a + 1
  OBVIOUS
<1> HIDE DEF t
<1>3. t \in Seq(Byte) /\ Len(t) = 2 /\ \A i \in 1..2 : t[i] = b[a - 1 + i]
  BY <1>1, <1>2 DEF CutOut
<1>4. t[1] = b[a - 1 + 1] /\ t[2] = b[a - 1 + 2]
  BY <1>3
<1>5. t[1] = b[a] /\ t[2] = b[a + 1]
  BY <1>2, <1>4
<1>6. t = <<t[1], t[2]>>
  BY <1>3
<1> QED BY <1>5, <1>6 DEF t

\* The MBAP length, and the headers extract_pdu accepts.
Declared(b) == b[5] * 256 + b[6]
ModbusOk(b) == Len(b) >= 7 /\ b[3] = 0 /\ b[4] = 0 /\ Len(b) >= 6 + Declared(b)

\* What extract_pdu returns.
PduOf(b, r) ==
    /\ ~ModbusOk(b) => r.outcome = "err"
    /\ ModbusOk(b) => r.outcome = "ok" /\ r.device = b[7] /\ r.pdu = SubSeq(b, 7, 6 + Declared(b))

LEMMA ByteRange == ASSUME NEW b \in Seq(Byte), NEW i \in 1..Len(b) PROVE b[i] \in Nat /\ b[i] <= 255
<1>1. b[i] \in Byte
  OBVIOUS
<1>2. ASSUME NEW x \in Byte PROVE x \in Nat /\ x <= 255
  BY DEF Byte
<1> QED BY <1>1, <1>2

LEMMA DeclaredIs ==
    ASSUME NEW b \in Seq(Byte), Len(b) >= 7
    PROVE  Declared(b) \in Nat
<1>1. 5 \in 1..Len(b) /\ 6 \in 1..Len(b)
  OBVIOUS
<1>2. b[5] \in Nat /\ b[6] \in Nat
  BY <1>1, ByteRange
<1> QED BY <1>2 DEF Declared

\* extract_pdu as one of two outcomes.
LEMMA ExtractPdu == ASSUME NEW b \in Seq(Byte) PROVE PduOf(b, extract_pdu(b))
<1>1. ASSUME Len(b) >= 7 PROVE SubSeq(b, 3, 4) = <<0, 0>> <=> b[3] = 0 /\ b[4] = 0
  <2>1. SubSeq(b, 3, 3 + 1) = <<b[3], b[3 + 1]>>
    BY <1>1, Pair
  <2>2. SubSeq(b, 3, 4) = <<b[3], b[4]>>
    BY <2>1
  <2>3. ASSUME NEW x, NEW y PROVE <<x, y>> = <<0, 0>> <=> x = 0 /\ y = 0
    OBVIOUS
  <2> QED BY <2>2, <2>3
<1>2. Len(b) \in Nat
  OBVIOUS
<1>3. ASSUME ~ModbusOk(b) PROVE extract_pdu(b) = Err
  <2>1. CASE Len(b) < 7
    BY <2>1 DEF extract_pdu, MBAP_HEADER_SIZE
  <2>2. CASE Len(b) >= 7
    <3>1. SubSeq(b, 3, 4) # <<0, 0>> \/ Len(b) < 6 + Declared(b)
      BY <1>1, <1>2, <1>3, <2>2, DeclaredIs DEF ModbusOk
    <3>2. Len(b) < 6 + Declared(b) => Len(b) - 6 < Declared(b)
      BY <1>2, <2>2, DeclaredIs
    <3> QED BY <3>1, <3>2 DEF extract_pdu, Declared
  <2> QED BY <1>2, <2>1, <2>2
<1>4. ASSUME ModbusOk(b)
      PROVE  extract_pdu(b) =
                [outcome |-> "ok", device |-> b[7],
                 header |-> [transaction_id |-> b[1] * 256 + b[2], unit_id |-> b[7]],
                 pdu |-> SubSeq(b, 7, 6 + Declared(b))]
  <2>1. ~(Len(b) < 7) /\ SubSeq(b, 3, 4) = <<0, 0>>
    BY <1>1, <1>2, <1>4 DEF ModbusOk
  <2>2. ~(Len(b) - 6 < Declared(b))
    BY <1>2, <1>4, DeclaredIs DEF ModbusOk
  <2> QED BY <2>1, <2>2 DEF extract_pdu, Declared, MBAP_HEADER_SIZE
<1>5. Err.outcome = "err"
  BY DEF Err
<1> QED BY <1>3, <1>4, <1>5 DEF PduOf

\* What extract_payload returns.
LinkHeader(b) == Len(b) >= 10 /\ Dnp3HeaderAt(b, 0)
PayloadOf(b, r) ==
    /\ ~LinkHeader(b) \/ Len(b) < b[3] + 5 => r.outcome = "err"
    /\ LinkHeader(b) /\ b[3] + 5 <= Len(b) /\ b[3] < 5 => r.outcome = "panic"
    /\ LinkHeader(b) /\ b[3] + 5 <= Len(b) /\ 5 <= b[3] =>
         r.outcome = "ok" /\ r.device = b[8] * 256 + b[7] /\ r.pdu = SubSeq(b, 11, b[3] + 5)

\* extract_payload as one of three outcomes.
LEMMA ExtractPayload == ASSUME NEW b \in Seq(Byte) PROVE PayloadOf(b, extract_payload(b))
<1>1. Len(b) \in Nat
  OBVIOUS
<1>2. CASE Len(b) < 10
  <2>1. extract_payload(b) = Err /\ ~LinkHeader(b)
    BY <1>1, <1>2 DEF extract_payload, DLL_HEADER_SIZE, LinkHeader
  <2>2. extract_payload(b).outcome = "err"
    BY <2>1 DEF Err
  <2> QED BY <2>1, <2>2 DEF PayloadOf
<1>3. CASE Len(b) >= 10
  <2> DEFINE crc == crc16_dnp(SubSeq(b, 3, 8))
  <2> DEFINE field2 == b[10] * 256 + b[9]
  <2>1. SubSeq(b, 1, 2) = DNP3_START_BYTES <=> b[1] = 5 /\ b[2] = 100
    <3>1. SubSeq(b, 1, 1 + 1) = <<b[1], b[1 + 1]>>
      BY <1>3, Pair
    <3>2. SubSeq(b, 1, 2) = <<b[1], b[2]>>
      BY <3>1
    <3>3. ASSUME NEW x, NEW y PROVE <<x, y>> = <<5, 100>> <=> x = 5 /\ y = 100
      OBVIOUS
    <3> QED BY <3>2, <3>3 DEF DNP3_START_BYTES
  <2>2. LinkHeader(b) <=> b[1] = 5 /\ b[2] = 100 /\ crc = field2
    BY <1>3 DEF LinkHeader, Dnp3HeaderAt
  <2>3. b[3] \in Nat
    BY <1>3, ByteRange
  <2>4. ~(Len(b) < DLL_HEADER_SIZE) /\ total_frame_len(b[3]) = b[3] + 5
    BY <1>3 DEF DLL_HEADER_SIZE, total_frame_len
  <2> DEFINE bad == \/ SubSeq(b, 1, 2) # DNP3_START_BYTES
                    \/ crc # field2
                    \/ Len(b) < b[3] + 5
  <2>5. extract_payload(b) = IF bad THEN Err ELSE Dnp3Parsed(b)
    BY <2>4 DEF extract_payload
  <2>6. bad <=> ~LinkHeader(b) \/ Len(b) < b[3] + 5
    BY <2>1, <2>2
  <2> HIDE DEF bad, crc, field2
  <2>7. bad => extract_payload(b).outcome = "err"
    BY <2>5 DEF Err
  <2>8. b[3] < 5 => Dnp3Parsed(b) = [outcome |-> "panic"]
    BY <2>3, <2>4 DEF Dnp3Parsed, DLL_HEADER_SIZE
  <2>9. 5 <= b[3] => Dnp3Parsed(b) =
          [outcome |-> "ok", device |-> b[8] * 256 + b[7],
           header |-> [control |-> b[4], destination |-> b[6] * 256 + b[5], source |-> b[8] * 256 + b[7]],
           pdu |-> SubSeq(b, 11, b[3] + 5)]
    BY <2>3, <2>4 DEF Dnp3Parsed, DLL_HEADER_SIZE
  <2>10. LinkHeader(b) /\ b[3] + 5 <= Len(b) => ~bad
    BY <1>1, <2>3, <2>6
  <2> QED BY <2>5, <2>6, <2>7, <2>8, <2>9, <2>10 DEF PayloadOf
<1> QED BY <1>1, <1>2, <1>3

LEMMA WindowSize == ASSUME NEW o \in Nat PROVE (o + 8) - (o + 3) + 1 = 6 /\ (o + 3) - 1 = o + 2
  OBVIOUS

\* The same ten bytes are the same header.
LEMMA HeaderMoves ==
    ASSUME NEW t \in Seq(Byte), Len(t) >= 10, NEW u \in Seq(Byte), NEW o \in Nat, o + 10 <= Len(u),
           \A i \in 1..10 : t[i] = u[o + i]
    PROVE  Dnp3HeaderAt(t, 0) <=> Dnp3HeaderAt(u, o)
<1>1. SubSeq(t, 3, 8) = SubSeq(u, o + 3, o + 8)
  <2> DEFINE x == SubSeq(t, 3, 8)
  <2> DEFINE y == SubSeq(u, o + 3, o + 8)
  <2>1. CutOut(x, t, 3, 8)
    <3>1. 3 \in Nat /\ 8 \in Nat /\ 1 <= 3 /\ 3 <= 8 + 1 /\ 8 <= Len(t)
      OBVIOUS
    <3> QED BY <3>1, SubSeqCuts
  <2>2. CutOut(y, u, o + 3, o + 8)
    BY SubSeqCuts
  <2> HIDE DEF x, y
  <2>3. x \in Seq(Byte) /\ Len(x) = 6 /\ \A i \in 1..6 : x[i] = t[2 + i]
    BY <2>1 DEF CutOut
  <2>4. (o + 8) - (o + 3) + 1 = 6 /\ (o + 3) - 1 = o + 2
    BY WindowSize
  <2>5. y \in Seq(Byte) /\ Len(y) = 6 /\ \A i \in 1..6 : y[i] = u[(o + 2) + i]
    BY <2>2, <2>4 DEF CutOut
  <2>6. ASSUME NEW i \in 1..6 PROVE x[i] = y[i]
    <3>1. 2 + i \in 1..10 /\ o + (2 + i) = (o + 2) + i
      OBVIOUS
    <3>2. t[2 + i] = u[o + (2 + i)]
      BY <3>1
    <3> QED BY <2>3, <2>5, <3>1, <3>2
  <2>7. x = y
    BY <2>3, <2>5, <2>6, SameSeq
  <2> QED BY <2>7 DEF x, y
<1>2. t[1] = u[o + 1] /\ t[2] = u[o + 2] /\ t[9] = u[o + 9] /\ t[10] = u[o + 10]
  OBVIOUS
<1>3. Dnp3HeaderAt(t, 0) <=>
        t[1] = 5 /\ t[2] = 100 /\ crc16_dnp(SubSeq(t, 3, 8)) = t[10] * 256 + t[9]
  BY DEF Dnp3HeaderAt
<1>4. Dnp3HeaderAt(u, o) <=>
        /\ u[o + 1] = 5 /\ u[o + 2] = 100
        /\ crc16_dnp(SubSeq(u, o + 3, o + 8)) = u[o + 10] * 256 + u[o + 9]
  BY DEF Dnp3HeaderAt
<1> QED BY <1>1, <1>2, <1>3, <1>4

\* A frame's fields have their types.
FrameOk(f) ==
    /\ f.bytes \in Seq(Byte) /\ f.bytes # <<>> /\ f.body \in Seq(Byte)
    /\ f.kind \in {"frame", "malformed", "short"}

LEMMA FrameTyped ==
    ASSUME NEW p \in {1, 2}, NEW f \in Frames[p]
    PROVE  FrameOk(f) /\ (p = 1 => ModbusWritten(f)) /\ (p = 2 => Dnp3Written(f))
  BY GatewayWireAssumption DEF FrameOk, Byte, ProtocolIds, MODBUS, DNP3

\* What a parser makes of exactly one frame.
Parsed(f, r) ==
    /\ f.kind = "frame" => r.outcome = "ok" /\ r.pdu = f.body
    /\ f.kind = "malformed" => r.outcome = "err"
    /\ f.kind = "short" => r.outcome = "panic"

\* extract_pdu of exactly one frame.
LEMMA ModbusParsed ==
    ASSUME NEW f, FrameOk(f), ModbusWritten(f)
    PROVE  Parsed(f, extract_pdu(f.bytes))
<1> DEFINE b == f.bytes
<1> DEFINE r == extract_pdu(f.bytes)
<1>1. PduOf(b, r)
  BY ExtractPdu DEF FrameOk
<1>2. b \in Seq(Byte) /\ f.body \in Seq(Byte) /\ Len(b) \in Nat /\ Len(f.body) \in Nat
  BY DEF FrameOk
<1> HIDE DEF r
<1>3. f.kind # "short" /\ f.kind \in {"frame", "malformed", "short"}
  BY DEF ModbusWritten, FrameOk
<1>4. ASSUME f.kind = "malformed" PROVE Parsed(f, r)
  <2>1. Len(b) < 7 \/ b[3] # 0 \/ b[4] # 0 \/ Len(b) < 6 + Declared(b)
    BY <1>4 DEF ModbusWritten, Declared
  <2>2. ~ModbusOk(b)
    <3>1. CASE Len(b) < 7
      BY <1>2, <3>1 DEF ModbusOk
    <3>2. CASE Len(b) >= 7 /\ Len(b) < 6 + Declared(b)
      BY <1>2, <3>2, DeclaredIs DEF ModbusOk
    <3> QED BY <1>2, <2>1, <3>1, <3>2 DEF ModbusOk
  <2> QED BY <1>1, <1>4, <2>2 DEF PduOf, Parsed
<1>5. ASSUME f.kind = "frame" PROVE Parsed(f, r)
  <2>1. /\ Len(b) = IF f.body = <<>> THEN 7 ELSE 6 + Len(f.body)
        /\ b[3] = 0 /\ b[4] = 0 /\ Declared(b) = Len(f.body)
        /\ \A i \in 1..Len(f.body) : b[6 + i] = f.body[i]
    BY <1>2, <1>5 DEF ModbusWritten, Declared
  <2>2. Len(b) >= 7 /\ Len(b) >= 6 + Len(f.body)
    BY <1>2, <2>1
  <2>3. ModbusOk(b)
    BY <2>1, <2>2 DEF ModbusOk
  <2> DEFINE t == SubSeq(b, 7, 6 + Len(f.body))
  <2>4. CutOut(t, b, 7, 6 + Len(f.body))
    BY <1>2, <2>2, SubSeqCuts
  <2> HIDE DEF t
  <2>5. (6 + Len(f.body)) - 7 + 1 = Len(f.body) /\ 7 - 1 = 6
    BY <1>2
  <2>6. t \in Seq(Byte) /\ Len(t) = Len(f.body) /\ \A i \in 1..Len(f.body) : t[i] = b[6 + i]
    BY <2>4, <2>5 DEF CutOut
  <2>7. t = f.body
    BY <1>2, <2>1, <2>6, SameSeq
  <2>8. r.outcome = "ok" /\ r.pdu = SubSeq(b, 7, 6 + Declared(b))
    BY <1>1, <2>3 DEF PduOf
  <2>9. r.pdu = f.body
    BY <2>1, <2>7, <2>8 DEF t
  <2> QED BY <1>5, <2>8, <2>9 DEF Parsed
<1>6. Parsed(f, r)
  BY <1>3, <1>4, <1>5
<1> QED BY <1>6 DEF r

\* The parser on bytes that begin like a DNP3 frame.
LEMMA Dnp3Begins ==
    ASSUME NEW f, FrameOk(f), Dnp3Written(f), NEW b \in Seq(Byte),
           \A i \in 1..Len(b) : i <= Len(f.bytes) => b[i] = f.bytes[i]
    PROVE  /\ extract_payload(b).outcome = "ok" =>
                f.kind = "frame" /\ extract_payload(b).pdu = f.body
           /\ extract_payload(b).outcome = "panic" => f.kind = "short"
           /\ b = f.bytes => Parsed(f, extract_payload(b))
<1> DEFINE g == f.bytes
<1> DEFINE r == extract_payload(b)
<1>1. PayloadOf(b, r)
  BY ExtractPayload
<1> HIDE DEF r
<1>2. g \in Seq(Byte) /\ Len(g) >= 10 /\ Len(g) \in Nat /\ Len(b) \in Nat /\ Len(f.body) \in Nat
  BY DEF FrameOk, Dnp3Written
<1>3. f.kind \in {"frame", "malformed", "short"}
  BY DEF FrameOk
<1>4. f.kind = "malformed" <=> ~Dnp3HeaderAt(g, 0)
  BY DEF Dnp3Written
<1>5. CASE Len(b) < 10
  <2>1. r.outcome = "err"
    BY <1>1, <1>2, <1>5 DEF PayloadOf, LinkHeader
  <2>2. b # g
    BY <1>2, <1>5
  <2> QED BY <2>1, <2>2 DEF r
<1>6. CASE Len(b) >= 10
  <2>1. \A i \in 1..10 : b[i] = g[0 + i]
    BY <1>2, <1>6
  <2>2. LinkHeader(b) <=> f.kind # "malformed"
    <3>1. 0 + 10 <= Len(g) /\ 0 \in Nat
      BY <1>2
    <3>2. Dnp3HeaderAt(b, 0) <=> Dnp3HeaderAt(g, 0)
      <4> HIDE DEF g
      <4> QED BY <1>2, <1>6, <2>1, <3>1, HeaderMoves
    <3> QED BY <1>4, <1>6, <3>2 DEF LinkHeader
  <2>3. b[3] = g[3] /\ b[3] \in Nat
    <3>1. 3 \in 1..Len(b)
      BY <1>2, <1>6
    <3>2. b[3] \in Nat
      BY <3>1, ByteRange
    <3> QED BY <1>6, <2>1, <3>2
  <2>4. f.kind = "malformed" => r.outcome = "err"
    BY <1>1, <2>2 DEF PayloadOf
  <2>5. f.kind = "short" => b[3] < 5 /\ r.outcome \in {"panic"}
    <3>1. f.kind = "short" => g[3] < 5
      BY DEF Dnp3Written
    <3>2. f.kind = "short" => b[3] + 5 <= Len(b)
      BY <1>2, <1>6, <2>3, <3>1
    <3> QED BY <1>1, <2>2, <2>3, <3>1, <3>2 DEF PayloadOf
  <2>6. CASE f.kind = "frame"
    <3>1. /\ g[3] = Len(f.body) + 5 /\ Len(g) = 10 + Len(f.body)
          /\ \A i \in 1..Len(f.body) : g[10 + i] = f.body[i]
      BY <1>2, <2>6 DEF Dnp3Written, FrameOk
    <3>2. CASE Len(b) < b[3] + 5
      <4>1. r.outcome = "err"
        BY <1>1, <3>2 DEF PayloadOf
      <4>2. b # g
        BY <1>2, <2>3, <3>1, <3>2
      <4> QED BY <4>1, <4>2 DEF r
    <3>3. CASE b[3] + 5 <= Len(b)
      <4>1. r.outcome = "ok" /\ r.pdu = SubSeq(b, 11, b[3] + 5)
        BY <1>1, <1>2, <2>2, <2>3, <2>6, <3>1, <3>3 DEF PayloadOf
      <4>2. b[3] + 5 = 10 + Len(f.body)
        BY <1>2, <2>3, <3>1
      <4> DEFINE t == SubSeq(b, 11, 10 + Len(f.body))
      <4>3. CutOut(t, b, 11, 10 + Len(f.body))
        BY <1>2, <3>3, <4>2, SubSeqCuts
      <4> HIDE DEF t
      <4>4. (10 + Len(f.body)) - 11 + 1 = Len(f.body) /\ 11 - 1 = 10
        BY <1>2
      <4>5. t \in Seq(Byte) /\ Len(t) = Len(f.body) /\ \A i \in 1..Len(f.body) : t[i] = b[10 + i]
        BY <4>3, <4>4 DEF CutOut
      <4>6. ASSUME NEW i \in 1..Len(t) PROVE t[i] = f.body[i]
        <5>1. 10 + i \in 1..Len(b) /\ 10 + i <= Len(g)
          BY <1>2, <3>1, <3>3, <4>2, <4>5
        <5>2. b[10 + i] = g[10 + i]
          BY <5>1
        <5> QED BY <3>1, <4>5, <5>2
      <4>7. t = f.body
        BY <4>5, <4>6, SameSeq DEF FrameOk
      <4>8. r.pdu = f.body
        BY <4>1, <4>2, <4>7 DEF t
      <4> QED BY <2>6, <4>1, <4>8 DEF r, Parsed
    <3> QED BY <1>2, <2>3, <3>2, <3>3
  <2>7. CASE f.kind = "malformed"
    BY <2>4, <2>7 DEF r, Parsed
  <2>8. CASE f.kind = "short"
    BY <2>5, <2>8 DEF r, Parsed
  <2> QED BY <1>3, <2>6, <2>7, <2>8
<1> QED BY <1>2, <1>5, <1>6

\* The bytes of the frames of W.
BytesOf(W) == [k \in 1..Len(W) |-> W[k].bytes]

LEMMA WrittenPieces ==
    ASSUME NEW p \in {1, 2}, NEW W \in Seq(Frames[p])
    PROVE  Pieces(BytesOf(W)) /\ Len(BytesOf(W)) = Len(W) /\ \A k \in 1..Len(W) : BytesOf(W)[k] = W[k].bytes
<1> DEFINE P == BytesOf(W)
<1>1. Len(W) \in Nat /\ \A k \in 1..Len(W) : W[k] \in Frames[p]
  OBVIOUS
<1>2. \A k \in 1..Len(W) : W[k].bytes \in Seq(Byte) /\ W[k].bytes # <<>>
  BY <1>1, FrameTyped DEF FrameOk
<1>3. P \in [1..Len(W) -> Seq(Byte)] /\ \A k \in 1..Len(W) : P[k] = W[k].bytes
  BY <1>2 DEF BytesOf
<1> HIDE DEF P
<1>4. P \in Seq(Seq(Byte)) /\ Len(P) = Len(W)
  BY <1>1, <1>3
<1>5. Pieces(P)
  <2>1. DOMAIN P = 1..Len(W)
    BY <1>3
  <2>2. \A k \in DOMAIN P : P[k] # <<>>
    BY <1>2, <1>3, <2>1
  <2> QED BY <1>4, <2>2 DEF Pieces
<1> QED BY <1>3, <1>4, <1>5 DEF P

\* No read that starts inside a frame finds a header there.
LEMMA InsideNoHeader ==
    ASSUME NoFalseHeader,
           NEW W \in Seq(Frames[2]), NEW s \in Seq(Byte), NEW cut, Laid(s, cut, BytesOf(W)),
           NEW h \in 0..Len(W), h + 1 \in 1..Len(W), cut[h] < 0, 0 < cut[h + 1],
           NEW b \in Seq(Byte), Len(b) >= 10, Len(b) <= Len(s),
           \A i \in 1..Len(b) : b[i] = s[i]
    PROVE  ~LinkHeader(b)
<1> DEFINE P == BytesOf(W)
<1> DEFINE m == Len(W)
<1>1. Pieces(P) /\ Len(P) = m /\ \A k \in 1..m : P[k] = W[k].bytes
  BY WrittenPieces
<1> HIDE DEF P
<1>2. Laid(s, cut, P)
  BY DEF P
<1> DEFINE f == W[h + 1].bytes
<1> DEFINE o == 0 - cut[h]
<1>3. /\ \A k \in 1..m : W[k] \in Frames[2] /\ W[k].bytes \in Seq(Byte) /\ Len(W[k].bytes) >= 10
      /\ m \in Nat /\ Len(s) \in Nat /\ Len(b) \in Nat
  BY FrameTyped DEF FrameOk, Dnp3Written
<1>4. f \in Seq(Byte) /\ Len(f) \in Nat /\ Len(f) >= 10 /\ P[h + 1] = f
  BY <1>1, <1>3
<1>5. PieceAt(P, cut, h + 1) /\ (h + 1) - 1 = h /\ (h + 1) + 1 = h + 2
  BY <1>1, <1>2, LaidAt
<1>6. cut[h] \in Int /\ cut[h + 1] \in Int /\ cut[h + 1] = cut[h] + Len(f)
  BY <1>4, <1>5 DEF PieceAt
<1>7. o \in Nat /\ o >= 1 /\ o <= Len(f) - 1 /\ cut[h] = 0 - o
  BY <1>4, <1>6
<1> HIDE DEF f, o, m
<1>8. \A i \in 1..Len(f) : cut[h] + i \in 1..Len(s) => s[cut[h] + i] = f[i]
  <2>1. \A k \in 1..Len(P) : \A i \in 1..Len(P[k]) :
          cut[k - 1] + i \in 1..Len(s) => s[cut[k - 1] + i] = P[k][i]
    BY <1>2 DEF Laid
  <2>2. h + 1 \in 1..Len(P)
    BY <1>1 DEF m
  <2>3. \A i \in 1..Len(f) : cut[(h + 1) - 1] + i \in 1..Len(s) => s[cut[(h + 1) - 1] + i] = f[i]
    BY <1>4, <2>1, <2>2
  <2> QED BY <1>5, <2>3
<1>9. ASSUME NEW i \in 1..10, o + i <= Len(f) PROVE b[i] = f[o + i]
  <2>1. o + i \in 1..Len(f) /\ cut[h] + (o + i) = i /\ i \in 1..Len(s) /\ i \in 1..Len(b)
    BY <1>3, <1>4, <1>7, <1>9
  <2>2. s[cut[h] + (o + i)] = f[o + i]
    BY <1>8, <2>1
  <2> QED BY <2>1, <2>2
<1>10. ASSUME NEW g \in Frames[2], g.bytes \in Seq(Byte), Len(f) + Len(g.bytes) >= o + 10,
              \A i \in 1..10 : b[i] = (f \o g.bytes)[o + i]
       PROVE  ~LinkHeader(b)
  <2> DEFINE u == f \o g.bytes
  <2>1. Join(u, f, g.bytes)
    BY <1>4, <1>10, Joined
  <2>2. ~Dnp3HeaderAt(u, o)
    <3>1. o \in 1..(Len(f) - 1)
      BY <1>4, <1>7
    <3>2. W[h + 1] \in Frames[2]
      BY <1>3 DEF m
    <3> QED BY <3>1, <3>2 DEF NoFalseHeader, DNP3, f
  <2>3. \A i \in 1..10 : b[i] = u[o + i]
    BY <1>10
  <2> HIDE DEF u
  <2>4. u \in Seq(Byte) /\ o + 10 <= Len(u)
    BY <1>4, <1>7, <1>10, <2>1 DEF Join
  <2>5. Dnp3HeaderAt(b, 0) <=> Dnp3HeaderAt(u, o)
    BY <1>7, <2>3, <2>4, HeaderMoves
  <2> QED BY <2>2, <2>5 DEF LinkHeader
<1>11. CASE o + 10 <= Len(f)
  <2>1. Join(f \o f, f, f)
    BY <1>4, Joined
  <2>2. ASSUME NEW i \in 1..10 PROVE b[i] = (f \o f)[o + i]
    <3>1. o + i <= Len(f) /\ o + i \in 1..Len(f)
      BY <1>4, <1>7, <1>11
    <3>2. b[i] = f[o + i]
      BY <1>9, <3>1
    <3>3. (f \o f)[o + i] = f[o + i]
      BY <2>1, <3>1 DEF Join
    <3> QED BY <3>2, <3>3
  <2>3. Len(f) + Len(f) >= o + 10
    BY <1>4, <1>7, <1>11
  <2>4. W[h + 1] \in Frames[2]
    BY <1>3 DEF m
  <2> QED BY <1>4, <1>10, <2>2, <2>3, <2>4 DEF f
<1>12. CASE o + 10 > Len(f)
  <2>1. h + 2 \in 1..m
    <3>1. h + 1 # m
      <4>1. Len(s) <= cut[Len(P)]
        BY <1>2 DEF Laid
      <4>2. cut[h + 1] < 10
        BY <1>4, <1>6, <1>7, <1>12
      <4> QED BY <1>1, <1>3, <1>6, <4>1, <4>2
    <3> QED BY <1>3, <3>1 DEF m
  <2> DEFINE g == W[h + 2].bytes
  <2>2. W[h + 2] \in Frames[2] /\ g \in Seq(Byte) /\ Len(g) \in Nat /\ Len(g) >= 10 /\ P[h + 2] = g
    BY <1>1, <1>3, <2>1
  <2> HIDE DEF g
  <2>3. \A i \in 1..Len(g) : cut[h + 1] + i \in 1..Len(s) => s[cut[h + 1] + i] = g[i]
    <3>1. \A k \in 1..Len(P) : \A i \in 1..Len(P[k]) :
            cut[k - 1] + i \in 1..Len(s) => s[cut[k - 1] + i] = P[k][i]
      BY <1>2 DEF Laid
    <3>2. h + 2 \in 1..Len(P) /\ (h + 2) - 1 = h + 1
      BY <1>1, <2>1
    <3>3. \A i \in 1..Len(g) : cut[(h + 2) - 1] + i \in 1..Len(s) => s[cut[(h + 2) - 1] + i] = g[i]
      BY <2>2, <3>1, <3>2
    <3> QED BY <3>2, <3>3
  <2>4. Join(f \o g, f, g)
    BY <1>4, <2>2, Joined
  <2>5. ASSUME NEW i \in 1..10 PROVE b[i] = (f \o g)[o + i]
    <3>1. CASE o + i <= Len(f)
      <4>1. o + i \in 1..Len(f)
        BY <1>4, <1>7, <3>1
      <4>2. (f \o g)[o + i] = f[o + i]
        BY <2>4, <4>1 DEF Join
      <4> QED BY <1>9, <3>1, <4>2
    <3>2. CASE o + i > Len(f)
      <4> DEFINE j == (o + i) - Len(f)
      <4>1. j \in 1..Len(g) /\ Len(f) + j = o + i
        BY <1>4, <1>7, <2>2, <3>2
      <4>2. cut[h + 1] + j = i /\ i \in 1..Len(s) /\ i \in 1..Len(b)
        BY <1>3, <1>4, <1>6, <1>7
      <4> HIDE DEF j
      <4>3. s[cut[h + 1] + j] = g[j]
        BY <2>3, <4>1, <4>2
      <4>4. (f \o g)[Len(f) + j] = g[j]
        BY <2>4, <4>1 DEF Join
      <4> QED BY <4>1, <4>2, <4>3, <4>4
    <3>3. o + i <= Len(f) \/ o + i > Len(f)
      <4>1. o + i \in Nat /\ Len(f) \in Nat
        BY <1>4, <1>7
      <4> HIDE DEF o
      <4> QED BY <4>1
    <3> QED BY <3>1, <3>2, <3>3
  <2>6. Len(f) + Len(g) >= o + 10
    BY <1>4, <1>7, <2>2
  <2> QED BY <1>10, <2>2, <2>5, <2>6 DEF g
<1> QED BY <1>4, <1>7, <1>11, <1>12

\* Wherever a read starts and ends, extract_payload finds one whole frame, or an error,
\* or the frame that declares too few bytes.
LEMMA Dnp3Window ==
    ASSUME NoFalseHeader,
           NEW W \in Seq(Frames[2]), NEW s \in Seq(Byte), NEW cut, Laid(s, cut, BytesOf(W)),
           NEW n \in 1..Len(s)
    PROVE  LET r == extract_payload(SubSeq(s, 1, n))
           IN  /\ r.outcome = "ok" => \E k \in 1..Len(W) : W[k].kind = "frame" /\ r.pdu = W[k].body
               /\ r.outcome = "panic" => \E k \in 1..Len(W) : W[k].kind = "short"
<1> DEFINE P == BytesOf(W)
<1> DEFINE b == SubSeq(s, 1, n)
<1> DEFINE r == extract_payload(b)
<1>1. Pieces(P) /\ Len(P) = Len(W) /\ \A k \in 1..Len(W) : P[k] = W[k].bytes
  BY WrittenPieces
<1>2. CutOut(b, s, 1, n)
  <2>1. n \in Nat /\ 1 \in Nat /\ 1 <= 1 /\ 1 <= n + 1 /\ n <= Len(s)
    OBVIOUS
  <2> QED BY <2>1, SubSeqCuts
<1> HIDE DEF b
<1>3. b \in Seq(Byte) /\ Len(b) = n /\ \A i \in 1..Len(b) : b[i] = s[i]
  BY <1>2 DEF CutOut
<1>4. s # <<>> /\ Len(s) \in Nat
  OBVIOUS
<1> HIDE DEF P
<1>5. Laid(s, cut, P)
  BY DEF P
<1>6. PICK h \in 0..Len(P) : h + 1 \in 1..Len(P) /\ cut[h] <= 0 /\ 0 < cut[h + 1]
  BY <1>1, <1>4, <1>5, LaidFind
<1>7. cut[h] \in Int
  BY <1>5 DEF Laid
<1> DEFINE f == W[h + 1]
<1>8. FrameOk(f) /\ Dnp3Written(f) /\ P[h + 1] = f.bytes /\ h + 1 \in 1..Len(W)
  <2>1. h + 1 \in 1..Len(W) /\ f \in Frames[2]
    BY <1>1, <1>6
  <2> QED BY <1>1, <2>1, FrameTyped
<1> HIDE DEF f, r
<1>9. CASE cut[h] = 0
  <2>1. \A i \in 1..Len(s) : i <= Len(f.bytes) => s[i] = f.bytes[i]
    BY <1>1, <1>4, <1>5, <1>6, <1>8, <1>9, LaidHead
  <2>2. \A i \in 1..Len(b) : i <= Len(f.bytes) => b[i] = f.bytes[i]
    BY <1>3, <1>4, <2>1
  <2>3. (r.outcome = "ok" => f.kind = "frame" /\ r.pdu = f.body) /\ (r.outcome = "panic" => f.kind = "short")
    BY <1>3, <1>8, <2>2, Dnp3Begins DEF r
  <2> QED BY <1>8, <2>3 DEF f, r, b
<1>10. CASE cut[h] < 0
  <2>1. ~LinkHeader(b)
    <3>1. CASE Len(b) < 10
      BY <1>3, <3>1 DEF LinkHeader
    <3>2. CASE Len(b) >= 10
      <4>1. h \in 0..Len(W) /\ h + 1 \in 1..Len(W) /\ Len(b) <= Len(s) /\ Laid(s, cut, BytesOf(W))
        BY <1>1, <1>3, <1>6
      <4> QED BY <1>3, <1>6, <1>10, <3>2, <4>1, InsideNoHeader
    <3> QED BY <1>3, <3>1, <3>2
  <2>2. r.outcome = "err"
    BY <1>3, <2>1, ExtractPayload DEF r, PayloadOf
  <2> QED BY <2>2 DEF r, b
<1> QED BY <1>6, <1>7, <1>9, <1>10

(* What the egress writes *)

LEMMA TwoBytesHold ==
    ASSUME NEW n \in Nat, n <= 4090
    PROVE  /\ n % 65536 = n
           /\ BigEndian16(n) \in Seq(Byte) /\ Len(BigEndian16(n)) = 2
           /\ BigEndian16(n)[1] * 256 + BigEndian16(n)[2] = n
<1>1. n % 65536 = n
  BY SMT
<1>2. n = 256 * (n \div 256) + (n % 256) /\ n \div 256 \in Nat /\ n % 256 \in 0..255
  OBVIOUS
<1>3. n \div 256 \in 0..255
  BY <1>2
<1> DEFINE t == <<n \div 256, n % 256>>
<1>4. t \in Seq(Byte) /\ Len(t) = 2 /\ t[1] = n \div 256 /\ t[2] = n % 256
  BY <1>2, <1>3 DEF Byte
<1> HIDE DEF t
<1>5. t[1] * 256 + t[2] = n
  BY <1>2, <1>4
<1>6. BigEndian16(n) = t
  BY DEF BigEndian16, t
<1> QED BY <1>1, <1>4, <1>5, <1>6

\* The rebuilt frame: an MBAP header that declares the PDU, and the PDU.
MbapLaid(t, pdu) ==
    /\ t \in Seq(Byte) /\ Len(t) = 6 + Len(pdu)
    /\ t[3] = 0 /\ t[4] = 0 /\ Declared(t) = Len(pdu)
    /\ \A i \in 1..Len(pdu) : t[6 + i] = pdu[i]

\* reassemble_modbus writes an MBAP header and the PDU.
LEMMA RebuiltLaid ==
    ASSUME protocol = 1, NEW pdu \in Seq(Byte), Len(pdu) <= 4090
    PROVE  MbapLaid(Rebuilt(pdu), pdu)
<1> DEFINE i0 == BigEndian16(0)
<1> DEFINE z == <<0, 0>>
<1> DEFINE l == BigEndian16(Len(pdu) % 65536)
<1>1. Len(pdu) \in Nat /\ 0 \in Nat /\ 0 <= 4090
  OBVIOUS
<1>2. i0 \in Seq(Byte) /\ Len(i0) = 2
  BY <1>1, TwoBytesHold
<1>3. z \in Seq(Byte) /\ Len(z) = 2 /\ z[1] = 0 /\ z[2] = 0
  BY DEF Byte
<1>4. l \in Seq(Byte) /\ Len(l) = 2 /\ l[1] * 256 + l[2] = Len(pdu)
  BY <1>1, TwoBytesHold
<1>5. Rebuilt(pdu) = i0 \o z \o l \o pdu
  BY DEF Rebuilt, ModbusReconstruct, MODBUS
<1> HIDE DEF i0, z, l
<1> DEFINE x == i0 \o z
<1> DEFINE y == x \o l
<1> DEFINE t == y \o pdu
<1>6. Join(x, i0, z)
  BY <1>2, <1>3, Joined
<1> HIDE DEF x
<1>7. Len(x) = 4 /\ x \in Seq(Byte) /\ x[3] = 0 /\ x[4] = 0
  <2>1. Len(x) = 4 /\ x \in Seq(Byte) /\ \A i \in 1..2 : x[2 + i] = z[i]
    BY <1>2, <1>3, <1>6 DEF Join
  <2>2. x[2 + 1] = z[1] /\ x[2 + 2] = z[2]
    BY <2>1
  <2> QED BY <1>3, <2>1, <2>2
<1>8. Join(y, x, l)
  BY <1>4, <1>7, Joined
<1> HIDE DEF y
<1>9. Len(y) = 6 /\ y \in Seq(Byte) /\ y[3] = 0 /\ y[4] = 0 /\ y[5] = l[1] /\ y[6] = l[2]
  <2>1. Len(y) = 6 /\ y \in Seq(Byte) /\ (\A i \in 1..4 : y[i] = x[i]) /\ \A i \in 1..2 : y[4 + i] = l[i]
    BY <1>4, <1>7, <1>8 DEF Join
  <2>2. y[4 + 1] = l[1] /\ y[4 + 2] = l[2] /\ y[3] = x[3] /\ y[4] = x[4]
    BY <2>1
  <2> QED BY <1>7, <2>1, <2>2
<1>10. Join(t, y, pdu)
  BY <1>9, Joined
<1> HIDE DEF t
<1>11. /\ t \in Seq(Byte) /\ Len(t) = 6 + Len(pdu)
       /\ \A i \in 1..6 : t[i] = y[i]
       /\ \A i \in 1..Len(pdu) : t[6 + i] = pdu[i]
  BY <1>9, <1>10 DEF Join
<1>12. t[3] = 0 /\ t[4] = 0 /\ t[5] = l[1] /\ t[6] = l[2]
  BY <1>9, <1>11
<1>13. Declared(t) = Len(pdu)
  BY <1>4, <1>12 DEF Declared
<1>14. MbapLaid(t, pdu)
  BY <1>11, <1>12, <1>13 DEF MbapLaid
<1> QED BY <1>5, <1>14 DEF t, y, x

\* What forward_envelope writes are bytes.
LEMMA ForwardedType ==
    ASSUME NEW data \in Seq(Byte), Len(data) <= 4096
    PROVE  ForwardedBytes(data) \in Seq(Byte)
<1> DEFINE l == BigEndian(Len(data), 4)
<1>1. Small(Len(data))
  <2>1. 4096 <= MAX_SEQ /\ MAX_SEQ \in Nat /\ Len(data) \in Nat
    BY SMT DEF MAX_SEQ
  <2> QED BY <2>1 DEF Small
<1>2. Holds(l, 4, Len(data))
  BY <1>1, BigEndianHolds
<1>3. l \in Seq(Byte)
  BY <1>2 DEF Holds
<1>4. ForwardedBytes(data) = l \o data
  BY DEF ForwardedBytes
<1> HIDE DEF l
<1> QED BY <1>3, <1>4

\* The property of one rebuilt frame.
ParsesBack(frame, pdu, device) ==
    IF pdu = <<>>
      THEN Len(frame) = 6
      ELSE /\ extract_pdu(frame).outcome = "ok"
           /\ extract_pdu(frame).pdu = pdu
           /\ extract_pdu(frame).device = device

\* What the egress rebuilds for a PDU, extract_pdu takes apart into that PDU.
LEMMA RebuiltParses ==
    ASSUME protocol = 1, NEW pdu \in Seq(Byte), Len(pdu) <= 4090, NEW device,
           pdu # <<>> => device = pdu[1]
    PROVE  /\ Rebuilt(pdu) \in Seq(Byte)
           /\ ForwardedBytes(Rebuilt(pdu)) \in Seq(Byte)
           /\ ParsesBack(Rebuilt(pdu), pdu, device)
<1> DEFINE t == Rebuilt(pdu)
<1>1. MbapLaid(t, pdu)
  BY RebuiltLaid
<1> HIDE DEF t
<1>2. t \in Seq(Byte) /\ Len(t) = 6 + Len(pdu) /\ Len(pdu) \in Nat
  BY <1>1 DEF MbapLaid
<1>3. ForwardedBytes(t) \in Seq(Byte)
  BY <1>2, ForwardedType
<1>4. CASE pdu = <<>>
  <2>1. Len(t) = 6
    BY <1>2, <1>4
  <2> QED BY <1>2, <1>3, <1>4, <2>1 DEF ParsesBack, t
<1>5. CASE pdu # <<>>
  <2>1. Len(pdu) >= 1
    BY <1>2, <1>5
  <2>2. ModbusOk(t)
    BY <1>1, <1>2, <2>1 DEF ModbusOk, MbapLaid
  <2>3. PduOf(t, extract_pdu(t))
    BY <1>2, ExtractPdu
  <2> DEFINE r == extract_pdu(t)
  <2>4. r.outcome = "ok" /\ r.device = t[7] /\ r.pdu = SubSeq(t, 7, 6 + Len(pdu))
    BY <1>1, <2>2, <2>3 DEF PduOf, MbapLaid
  <2>5. t[7] = device
    <3>1. t[6 + 1] = pdu[1]
      BY <1>1, <1>2, <2>1 DEF MbapLaid
    <3> QED BY <1>5, <3>1
  <2> DEFINE q == SubSeq(t, 7, 6 + Len(pdu))
  <2>6. CutOut(q, t, 7, 6 + Len(pdu))
    BY <1>2, SubSeqCuts
  <2> HIDE DEF q
  <2>7. (6 + Len(pdu)) - 7 + 1 = Len(pdu) /\ 7 - 1 = 6
    BY <1>2
  <2>8. q \in Seq(Byte) /\ Len(q) = Len(pdu) /\ \A i \in 1..Len(pdu) : q[i] = t[6 + i]
    BY <2>6, <2>7 DEF CutOut
  <2>9. \A i \in 1..Len(q) : q[i] = pdu[i]
    BY <1>1, <2>8 DEF MbapLaid
  <2>10. q = pdu
    BY <2>8, <2>9, SameSeq
  <2>11. r.outcome = "ok" /\ r.pdu = pdu /\ r.device = device
    BY <2>4, <2>5, <2>10 DEF q
  <2> QED BY <1>2, <1>3, <1>5, <2>11 DEF ParsesBack, t
<1> QED BY <1>4, <1>5

(* The inductive invariant of the wire *)

\* Envelopes, and the bytes of a sequence of them.
Envs == [protocol : {1, 2}, device : Nat, seq : Nat, blob : Seq(Byte)]
EnvelopesOf(S) == [k \in 1..Len(S) |-> EnvelopeBytes(S[k])]

\* What waits in the field connection is the end of what was written.
FieldInv ==
    /\ protocol \in {1, 2}
    /\ written \in Seq(Frames[protocol])
    /\ field \in Seq(Byte)
    /\ taken \in 0..Len(written) /\ aligned \in BOOLEAN
    /\ \E cut : /\ Laid(field, cut, BytesOf(written))
                /\ Len(field) = cut[Len(written)]
                /\ aligned => cut[taken] = 0

\* What a seal of protocol p holds; everything that went out was sealed.
SealOk(p, s) ==
    /\ EnvOK(s.env)
    /\ p = 1 => Len(s.pdu) <= 4090 /\ (s.pdu # <<>> => s.env.device = s.pdu[1])

SealedInv ==
    /\ sealed \in Seq([env : Envs, pdu : Seq(Byte)])
    /\ \A i \in 1..Len(sealed) : SealOk(protocol, sealed[i])
    /\ sent \in Seq(Envs)
    /\ \A k \in 1..Len(sent) : \E i \in 1..Len(sealed) : sealed[i].env = sent[k]

\* origin names, for everything sealed, the frame among the first t it came from.
Traced(origin, S, W, t) ==
    /\ origin \in [1..Len(S) -> 1..t]
    /\ \A i, j \in 1..Len(S) : i < j => origin[i] < origin[j]
    /\ \A k \in 1..t : W[k].kind = "frame" => \E i \in 1..Len(S) : origin[i] = k
    /\ \A i \in 1..Len(S) : W[origin[i]].kind = "frame" /\ S[i].pdu = W[origin[i]].body

\* As long as every read was one frame, everything sealed has its frame.
OriginInv == aligned /\ task # "panicked" => \E origin : Traced(origin, sealed, written, taken)

\* What waits on the secure side is the end of the envelopes that went out, and
\* the egress stands between two of them.
StreamInv == sender = "bare" =>
    /\ stream \in Seq(Byte)
    /\ handed \in Seq(Envs)
    /\ Len(handed) <= Len(sent)
    /\ \A n \in 1..Len(handed) : handed[n] = sent[n]
    /\ "egress" \notin reported
    /\ \E cut : /\ Laid(stream, cut, EnvelopesOf(sent))
                /\ cut[Len(handed)] = 0
                /\ open = "open" => Len(stream) = cut[Len(sent)]

\* Everything rebuilt for a Modbus device is a frame of a sealed PDU.
Relays == [frame : Seq(Byte), bytes : Seq(Byte)]
RebuiltInv == protocol = 1 =>
    /\ relayed \in Seq(Relays)
    /\ \A i \in 1..Len(relayed) : \E j \in 1..Len(sealed) :
          ParsesBack(relayed[i].frame, sealed[j].pdu, sealed[j].env.device)

\* extract_pdu checks every length before it slices.
ModbusNeverPanics == protocol = 1 => task # "panicked"

\* The inductive invariant.
WireInv == FieldInv /\ SealedInv /\ OriginInv /\ StreamInv /\ RebuiltInv /\ ModbusNeverPanics

\* The envelopes that went out, as pieces of the secure connection.
LEMMA SentPieces ==
    ASSUME SealedInv
    PROVE  /\ Pieces(EnvelopesOf(sent)) /\ Len(EnvelopesOf(sent)) = Len(sent)
           /\ \A k \in 1..Len(sent) :
                EnvOK(sent[k]) /\ EnvLaid(EnvelopesOf(sent)[k], sent[k])
<1> DEFINE P == EnvelopesOf(sent)
<1>1. Len(sent) \in Nat
  BY DEF SealedInv
<1>2. ASSUME NEW k \in 1..Len(sent) PROVE EnvOK(sent[k])
  <2>1. PICK i \in 1..Len(sealed) : sealed[i].env = sent[k]
    BY DEF SealedInv
  <2>2. SealOk(protocol, sealed[i])
    BY DEF SealedInv
  <2> QED BY <2>1, <2>2 DEF SealOk
<1>3. \A k \in 1..Len(sent) : EnvLaid(EnvelopeBytes(sent[k]), sent[k])
  BY <1>2, EnvelopeLaid
<1>4. \A k \in 1..Len(sent) : P[k] = EnvelopeBytes(sent[k])
  BY DEF EnvelopesOf
<1>5. \A k \in 1..Len(sent) : P[k] \in Seq(Byte) /\ P[k] # <<>>
  <2> SUFFICES ASSUME NEW k \in 1..Len(sent) PROVE P[k] \in Seq(Byte) /\ P[k] # <<>>
    OBVIOUS
  <2>1. EnvLaid(P[k], sent[k]) /\ EnvOK(sent[k])
    BY <1>2, <1>3, <1>4
  <2> HIDE DEF P
  <2>2. P[k] \in Seq(Byte) /\ Len(P[k]) = 23 + Len(sent[k].blob) /\ Len(sent[k].blob) \in Nat
    BY <2>1 DEF EnvLaid, EnvOK
  <2> QED BY <2>2
<1>6. P \in [1..Len(sent) -> Seq(Byte)]
  <2>1. P = [k \in 1..Len(sent) |-> P[k]]
    BY DEF EnvelopesOf
  <2> HIDE DEF P
  <2> QED BY <1>5, <2>1
<1> HIDE DEF P
<1>7. P \in Seq(Seq(Byte)) /\ Len(P) = Len(sent)
  BY <1>1, <1>6
<1>8. Pieces(P)
  BY <1>5, <1>7 DEF Pieces
<1>9. \A k \in 1..Len(sent) : EnvLaid(P[k], sent[k])
  BY <1>3, <1>4
<1> QED BY <1>2, <1>7, <1>8, <1>9 DEF P

\* A part holds after a step that leaves its variables alone.
LEMMA FieldSame == ASSUME FieldInv, UNCHANGED <<protocol, written, field, taken, aligned>> PROVE FieldInv'
  BY DEF FieldInv

LEMMA SealedSame == ASSUME SealedInv, UNCHANGED <<protocol, sealed, sent>> PROVE SealedInv'
  BY DEF SealedInv

LEMMA OriginSame ==
    ASSUME OriginInv, UNCHANGED <<aligned, taken, sealed, written>>, task' # "panicked" => task # "panicked"
    PROVE  OriginInv'
  BY DEF OriginInv

LEMMA StreamSame == ASSUME StreamInv, UNCHANGED <<sender, stream, handed, sent, open, reported>> PROVE StreamInv'
  BY DEF StreamInv

LEMMA RebuiltSame == ASSUME RebuiltInv, UNCHANGED <<protocol, relayed, sealed>> PROVE RebuiltInv'
  BY DEF RebuiltInv

LEMMA WireInvInit == ASSUME WireInit PROVE WireInv
<1>1. /\ protocol \in {1, 2} /\ written = <<>> /\ field = <<>> /\ taken = 0 /\ aligned = TRUE
      /\ sealed = <<>> /\ sent = <<>> /\ task = "reading" /\ stream = <<>> /\ handed = <<>>
      /\ relayed = <<>> /\ reported = {}
  BY DEF WireInit, ProtocolIds, MODBUS, DNP3
<1> DEFINE cut == [k \in 0..0 |-> 0]
<1>2. Laid(<<>>, cut, <<>>) /\ cut[0] = 0
  BY LaidNothing
<1> HIDE DEF cut
<1>3. BytesOf(<<>>) = <<>> /\ EnvelopesOf(<<>>) = <<>>
  BY DEF BytesOf, EnvelopesOf
<1>4. Len(<<>>) = 0
  OBVIOUS
<1>5. FieldInv
  <2>1. Laid(field, cut, BytesOf(written)) /\ Len(field) = cut[Len(written)] /\ cut[taken] = 0
    BY <1>1, <1>2, <1>3, <1>4
  <2>2. written \in Seq(Frames[protocol]) /\ field \in Seq(Byte) /\ taken \in 0..Len(written)
    BY <1>1
  <2> QED BY <1>1, <2>1, <2>2 DEF FieldInv
<1>6. SealedInv
  BY <1>1 DEF SealedInv
<1>7. OriginInv
  <2>1. Traced(<<>>, <<>>, <<>>, 0)
    BY DEF Traced
  <2> QED BY <1>1, <2>1 DEF OriginInv
<1>8. StreamInv
  <2>1. Laid(stream, cut, EnvelopesOf(sent)) /\ Len(stream) = cut[Len(sent)] /\ cut[Len(handed)] = 0
    BY <1>1, <1>2, <1>3, <1>4
  <2>2. stream \in Seq(Byte) /\ handed \in Seq(Envs) /\ Len(handed) <= Len(sent)
    BY <1>1
  <2>3. \A n \in 1..Len(handed) : handed[n] = sent[n]
    BY <1>1
  <2> QED BY <1>1, <2>1, <2>2, <2>3 DEF StreamInv
<1>9. RebuiltInv /\ ModbusNeverPanics
  BY <1>1 DEF RebuiltInv, ModbusNeverPanics
<1> QED BY <1>5, <1>6, <1>7, <1>8, <1>9 DEF WireInv

(* Writing and reading the field connection *)

LEMMA AppendIs ==
    ASSUME NEW T, NEW p \in Seq(T), NEW x \in T, NEW m, m = Len(p)
    PROVE  Append(p, x) = [k \in 1..(m + 1) |-> IF k = m + 1 THEN x ELSE p[k]]
<1> DEFINE q == Append(p, x)
<1>1. /\ Len(q) = m + 1 /\ q[m + 1] = x /\ m \in Nat /\ q \in Seq(T)
      /\ \A k \in 1..m : q[k] = p[k]
  OBVIOUS
<1> HIDE DEF q
<1>2. q = [k \in 1..(m + 1) |-> q[k]]
  BY <1>1
<1>3. \A k \in 1..(m + 1) : q[k] = IF k = m + 1 THEN x ELSE p[k]
  BY <1>1
<1>4. q = [k \in 1..(m + 1) |-> IF k = m + 1 THEN x ELSE p[k]]
  BY <1>2, <1>3
<1> QED BY <1>4 DEF q

LEMMA BytesAppend ==
    ASSUME NEW T, NEW W \in Seq(T), NEW f \in T
    PROVE  BytesOf(Append(W, f)) = Append(BytesOf(W), f.bytes)
<1> DEFINE x == BytesOf(Append(W, f))
<1> DEFINE P == BytesOf(W)
<1> DEFINE y == Append(P, f.bytes)
<1>1. Len(W) \in Nat /\ Len(Append(W, f)) = Len(W) + 1
  OBVIOUS
<1>2. Append(W, f)[Len(W) + 1] = f /\ \A k \in 1..Len(W) : Append(W, f)[k] = W[k]
  OBVIOUS
<1>3. x = [k \in 1..(Len(W) + 1) |-> Append(W, f)[k].bytes]
  BY <1>1 DEF BytesOf
<1>4. P = [k \in 1..Len(W) |-> W[k].bytes]
  BY DEF BytesOf
<1> DEFINE U == {W[k].bytes : k \in 1..Len(W)} \cup {f.bytes}
<1>5. P \in [1..Len(W) -> U] /\ f.bytes \in U
  BY <1>4
<1>6. P \in Seq(U) /\ Len(P) = Len(W)
  <2> HIDE DEF P, U
  <2> QED BY <1>1, <1>5
<1>7. y = [k \in 1..(Len(W) + 1) |-> IF k = Len(W) + 1 THEN f.bytes ELSE P[k]]
  <2> HIDE DEF P, U
  <2> QED BY <1>1, <1>5, <1>6
<1>8. \A k \in 1..(Len(W) + 1) : Append(W, f)[k].bytes = IF k = Len(W) + 1 THEN f.bytes ELSE P[k]
  <2> SUFFICES ASSUME NEW k \in 1..(Len(W) + 1)
               PROVE  Append(W, f)[k].bytes = IF k = Len(W) + 1 THEN f.bytes ELSE P[k]
    OBVIOUS
  <2>1. CASE k = Len(W) + 1
    BY <1>2, <2>1
  <2>2. CASE k \in 1..Len(W)
    <3>1. P[k] = W[k].bytes /\ k # Len(W) + 1
      BY <1>1, <1>4, <2>2
    <3> HIDE DEF P
    <3> QED BY <1>2, <2>2, <3>1
  <2> QED BY <1>1, <2>1, <2>2
<1>9. x = y
  <2> HIDE DEF P, x, y
  <2> QED BY <1>3, <1>7, <1>8
<1> QED BY <1>9

\* A write of the field device adds a piece to the field connection.
LEMMA FieldWriteInv ==
    ASSUME WireInv, NEW f \in Frames[protocol], FieldWrite(f)
    PROVE  WireInv'
<1>1. /\ written' = Append(written, f) /\ field' = field \o f.bytes
      /\ UNCHANGED <<sender, protocol, base, task, aligned, taken, sealed, sent, stream, open, handed,
                     relayed, reported>>
  BY DEF FieldWrite
<1>2. /\ protocol \in {1, 2} /\ written \in Seq(Frames[protocol]) /\ field \in Seq(Byte)
      /\ taken \in 0..Len(written) /\ aligned \in BOOLEAN /\ Len(written) \in Nat
  BY DEF WireInv, FieldInv
<1>3. f.bytes \in Seq(Byte) /\ f.bytes # <<>>
  BY <1>2, FrameTyped DEF FrameOk
<1>4. Pieces(BytesOf(written)) /\ Len(BytesOf(written)) = Len(written)
  BY <1>2, WrittenPieces
<1>5. FieldInv'
  <2>1. PICK cut : /\ Laid(field, cut, BytesOf(written))
                   /\ Len(field) = cut[Len(written)]
                   /\ aligned => cut[taken] = 0
    BY DEF WireInv, FieldInv
  <2> DEFINE new == Extended(cut, Len(written), Len(f.bytes))
  <2>2. /\ Laid(field \o f.bytes, new, Append(BytesOf(written), f.bytes))
        /\ Len(field \o f.bytes) = new[Len(Append(BytesOf(written), f.bytes))]
    BY <1>2, <1>3, <1>4, <2>1, LaidExtend
  <2>3. new[taken] = cut[taken]
    BY <1>2 DEF Extended
  <2> HIDE DEF new
  <2>4. BytesOf(written') = Append(BytesOf(written), f.bytes)
    BY <1>1, <1>2, BytesAppend
  <2>5. Len(written') = Len(written) + 1 /\ Len(Append(BytesOf(written), f.bytes)) = Len(written) + 1
    BY <1>1, <1>2, <1>4 DEF Pieces
  <2>6. Laid(field', new, BytesOf(written')) /\ Len(field') = new[Len(written')]
    BY <1>1, <2>2, <2>4, <2>5
  <2>7. written' \in Seq(Frames[protocol]) /\ field' \in Seq(Byte) /\ taken \in 0..Len(written')
    BY <1>1, <1>2, <1>3, <2>5
  <2>8. aligned' => new[taken'] = 0
    BY <1>1, <2>1, <2>3
  <2> QED BY <1>1, <1>2, <2>6, <2>7, <2>8 DEF FieldInv
<1>6. OriginInv'
  <2>1. \A k \in 1..taken : written'[k] = written[k]
    BY <1>1, <1>2
  <2>2. ASSUME NEW origin, Traced(origin, sealed, written, taken)
        PROVE  Traced(origin, sealed, written', taken)
    <3>1. \A i \in 1..Len(sealed) : origin[i] \in 1..taken
      BY <2>2 DEF Traced
    <3> QED BY <2>1, <2>2, <3>1 DEF Traced
  <2> QED BY <1>1, <2>2 DEF WireInv, OriginInv
<1>7. SealedInv' /\ StreamInv' /\ RebuiltInv' /\ ModbusNeverPanics'
  BY <1>1, SealedSame, StreamSame, RebuiltSame DEF WireInv, ModbusNeverPanics
<1> QED BY <1>5, <1>6, <1>7 DEF WireInv

\* What a read returned, if it was one frame.
OneFrame(n) ==
    /\ aligned
    /\ taken + 1 \in 1..Len(written)
    /\ SubSeq(field, 1, n) = written[taken + 1].bytes
    /\ taken' = taken + 1

\* The bytes a read returned.
ReadBytes(n) ==
    /\ SubSeq(field, 1, n) \in Seq(Byte) /\ Len(SubSeq(field, 1, n)) = n
    /\ n \in Nat /\ n <= 4096

\* A read, and whether it was one frame.
LEMMA ReadField ==
    ASSUME FieldInv, NEW n, Read(n), UNCHANGED <<protocol, written>>
    PROVE  FieldInv' /\ ReadBytes(n) /\ (aligned' => OneFrame(n))
<1>1. n \in 1..Len(field) /\ n <= 4096 /\ field' = SubSeq(field, n + 1, Len(field))
  BY DEF Read, READ_BUFFER
<1>a. /\ aligned' = (aligned /\ taken < Len(written) /\ n = Len(written[taken + 1].bytes))
      /\ taken' = IF aligned' THEN taken + 1 ELSE taken
  BY DEF Read
<1>2. /\ protocol \in {1, 2} /\ written \in Seq(Frames[protocol]) /\ field \in Seq(Byte)
      /\ taken \in 0..Len(written) /\ aligned \in BOOLEAN /\ Len(written) \in Nat /\ Len(field) \in Nat
  BY DEF FieldInv
<1> DEFINE P == BytesOf(written)
<1>3. Pieces(P) /\ Len(P) = Len(written) /\ \A k \in 1..Len(written) : P[k] = written[k].bytes
  BY <1>2, WrittenPieces
<1>4. PICK cut : /\ Laid(field, cut, P)
                 /\ Len(field) = cut[Len(written)]
                 /\ aligned => cut[taken] = 0
  BY DEF FieldInv
<1> DEFINE new == Shifted(cut, Len(written), n)
<1> HIDE DEF P
<1>5. Laid(field', new, P)
  BY <1>1, <1>2, <1>3, <1>4, LaidDrop
<1>6. cut \in [0..Len(written) -> Int] /\ \A k \in 0..Len(written) : new[k] = cut[k] - n
  BY <1>3, <1>4 DEF Shifted, Laid
<1> HIDE DEF new
<1>7. CutOut(SubSeq(field, 1, n), field, 1, n) /\ CutOut(field', field, n + 1, Len(field))
  <2>1. n \in Nat /\ 1 <= n /\ n <= Len(field) /\ n + 1 \in Nat /\ n + 1 <= Len(field) + 1 /\ 1 <= n + 1
    BY <1>1, <1>2
  <2>2. CutOut(SubSeq(field, 1, n), field, 1, n)
    BY <1>2, <2>1, SubSeqCuts
  <2>3. CutOut(SubSeq(field, n + 1, Len(field)), field, n + 1, Len(field))
    BY <1>2, <2>1, SubSeqCuts
  <2> QED BY <1>1, <2>2, <2>3
<1>8. ReadBytes(n)
  <2>1. SubSeq(field, 1, n) \in Seq(Byte) /\ Len(SubSeq(field, 1, n)) = n - 1 + 1
    BY <1>7 DEF CutOut
  <2>2. n \in Nat /\ n - 1 + 1 = n
    BY <1>1, <1>2
  <2> QED BY <1>1, <2>1, <2>2 DEF ReadBytes
<1>9. field' \in Seq(Byte) /\ Len(field') = new[Len(written)]
  <2>1. field' \in Seq(Byte) /\ Len(field') = Len(field) - (n + 1) + 1
    BY <1>7 DEF CutOut
  <2>2. Len(written) \in 0..Len(written)
    BY <1>2
  <2>3. new[Len(written)] = cut[Len(written)] - n
    BY <1>6, <2>2
  <2>4. n \in Nat /\ Len(field) - (n + 1) + 1 = Len(field) - n
    BY <1>1, <1>2
  <2> QED BY <1>4, <2>1, <2>3, <2>4
<1>10. ASSUME aligned' PROVE OneFrame(n) /\ new[taken'] = 0 /\ taken' \in 0..Len(written)
  <2>1. aligned /\ taken < Len(written) /\ n = Len(written[taken + 1].bytes) /\ taken' = taken + 1
    <3>1. aligned /\ taken < Len(written) /\ n = Len(written[taken + 1].bytes)
      BY <1>a, <1>10, Zenon
    <3>2. taken' = taken + 1
      BY <1>a, <1>10, Zenon
    <3> QED BY <3>1, <3>2
  <2>2. taken + 1 \in 1..Len(written) /\ taken + 1 \in 0..Len(written)
    BY <1>2, <2>1
  <2>3. P[taken + 1] = written[taken + 1].bytes
    BY <1>3, <2>2
  <2>4. cut[taken] = 0 /\ field # <<>>
    BY <1>1, <1>2, <1>4, <2>1
  <2>5. /\ cut[taken + 1] = Len(P[taken + 1])
        /\ Len(field) >= Len(P[taken + 1]) => SubSeq(field, 1, Len(P[taken + 1])) = P[taken + 1]
    BY <1>2, <1>3, <1>4, <2>4, LaidHead
  <2>6. SubSeq(field, 1, n) = written[taken + 1].bytes /\ cut[taken + 1] = n
    BY <1>1, <1>2, <2>1, <2>3, <2>5
  <2>7. new[taken + 1] = 0
    BY <1>1, <1>2, <1>6, <2>2, <2>6
  <2> QED BY <2>1, <2>2, <2>6, <2>7 DEF OneFrame
<1>11. ~aligned' => taken' = taken
  BY <1>a, Zenon
<1>12. aligned' \in BOOLEAN /\ taken' \in 0..Len(written')
  <2>1. aligned' \in BOOLEAN
    BY <1>a, Zenon
  <2>2. taken' \in 0..Len(written)
    BY <1>2, <1>10, <1>11
  <2> QED BY <2>1, <2>2
<1>13. FieldInv'
  <2>1. Laid(field', new, BytesOf(written')) /\ Len(field') = new[Len(written')] /\ (aligned' => new[taken'] = 0)
    BY <1>5, <1>9, <1>10 DEF P
  <2> QED BY <1>2, <1>9, <1>12, <2>1 DEF FieldInv
<1> QED BY <1>8, <1>10, <1>13

\* The parser of the field connection on exactly one frame, and on any bytes.
LEMMA FrameParsed ==
    ASSUME protocol \in {1, 2}, NEW f \in Frames[protocol]
    PROVE  Parsed(f, Extract(f.bytes)) /\ f.kind \in {"frame", "malformed", "short"}
<1>1. FrameOk(f) /\ (protocol = 1 => ModbusWritten(f)) /\ (protocol = 2 => Dnp3Written(f))
  BY FrameTyped
<1>2. CASE protocol = 1
  <2>1. Extract(f.bytes) = extract_pdu(f.bytes)
    BY <1>2 DEF Extract, MODBUS
  <2> QED BY <1>1, <1>2, <2>1, ModbusParsed DEF FrameOk
<1>3. CASE protocol = 2
  <2>1. Extract(f.bytes) = extract_payload(f.bytes)
    BY <1>3 DEF Extract, MODBUS
  <2>2. f.bytes \in Seq(Byte)
    BY <1>1 DEF FrameOk
  <2>3. Parsed(f, extract_payload(f.bytes))
    BY <1>1, <1>3, <2>2, Dnp3Begins
  <2> QED BY <1>1, <2>1, <2>3 DEF FrameOk
<1> QED BY <1>2, <1>3

\* What either parser returns when it succeeds.
GoodParse(p, r) ==
    /\ Small(r.device) /\ r.pdu \in Seq(Byte)
    /\ p = 1 => Len(r.pdu) <= 4090 /\ (r.pdu # <<>> => r.device = r.pdu[1])

LEMMA SmallPair == ASSUME NEW z \in Nat, z <= 65535 PROVE Small(z)
<1>1. 65535 <= MAX_SEQ /\ MAX_SEQ \in Nat
  BY SMT DEF MAX_SEQ
<1> QED BY <1>1, SMT DEF Small

LEMMA SmallByte == ASSUME NEW y \in Nat, y <= 255 PROVE Small(y)
<1>1. 255 <= MAX_SEQ /\ MAX_SEQ \in Nat
  BY SMT DEF MAX_SEQ
<1> QED BY <1>1, SMT DEF Small

\* Both parsers return a device of at most two bytes, and extract_pdu the unit that the
\* PDU starts with.
LEMMA AnyParsed ==
    ASSUME protocol \in {1, 2}, NEW b \in Seq(Byte), Len(b) <= 4096, Extract(b).outcome = "ok"
    PROVE  GoodParse(protocol, Extract(b))
<1> DEFINE r == Extract(b)
<1>1. Len(b) \in Nat
  OBVIOUS
<1>2. CASE protocol = 1
  <2>1. r = extract_pdu(b)
    BY <1>2 DEF Extract, MODBUS
  <2> HIDE DEF r
  <2>2. PduOf(b, r) /\ r.outcome = "ok"
    BY <2>1, ExtractPdu DEF r
  <2>3. ModbusOk(b)
    BY <2>2 DEF PduOf
  <2>4. r.device = b[7] /\ r.pdu = SubSeq(b, 7, 6 + Declared(b))
    BY <2>2, <2>3 DEF PduOf
  <2>5. Len(b) >= 7 /\ Len(b) >= 6 + Declared(b) /\ Declared(b) \in Nat
    BY <2>3, DeclaredIs DEF ModbusOk
  <2> DEFINE t == SubSeq(b, 7, 6 + Declared(b))
  <2>6. CutOut(t, b, 7, 6 + Declared(b))
    BY <1>1, <2>5, SubSeqCuts
  <2> HIDE DEF t
  <2>7. (6 + Declared(b)) - 7 + 1 = Declared(b) /\ 7 - 1 = 6
    BY <2>5
  <2>8. t \in Seq(Byte) /\ Len(t) = Declared(b) /\ \A i \in 1..Declared(b) : t[i] = b[6 + i]
    BY <2>6, <2>7 DEF CutOut
  <2>9. Len(t) <= 4090
    BY <1>1, <2>5, <2>8
  <2>10. ASSUME t # <<>> PROVE t[1] = b[7]
    <3>1. 1 \in 1..Declared(b)
      BY <2>5, <2>8, <2>10
    <3>2. t[1] = b[6 + 1]
      BY <2>8, <3>1
    <3> QED BY <3>2
  <2>11. Small(b[7])
    <3>1. 7 \in 1..Len(b)
      BY <1>1, <2>5
    <3>2. b[7] \in Nat /\ b[7] <= 255
      BY <1>1, <3>1, ByteRange
    <3> QED BY <3>2, SmallByte
  <2>12. r.pdu = t
    BY <2>4 DEF t
  <2>13. Small(r.device) /\ r.pdu \in Seq(Byte) /\ Len(r.pdu) <= 4090
    <3>1. Small(r.device)
      BY <2>4, <2>11
    <3>2. t \in Seq(Byte)
      BY <2>8
    <3> QED BY <2>9, <2>12, <3>1, <3>2
  <2>14. r.pdu # <<>> => r.device = r.pdu[1]
    <3>1. r.device = b[7]
      BY <2>4
    <3> QED BY <2>10, <2>12, <3>1
  <2>15. GoodParse(protocol, r)
    BY <2>13, <2>14 DEF GoodParse
  <2> QED BY <2>15 DEF r
<1>3. CASE protocol = 2
  <2>1. r = extract_payload(b)
    BY <1>3 DEF Extract, MODBUS
  <2> HIDE DEF r
  <2>2. PayloadOf(b, r) /\ r.outcome = "ok"
    BY <2>1, ExtractPayload DEF r
  <2>3. LinkHeader(b)
    BY <2>2 DEF PayloadOf
  <2>4. Len(b) >= 10
    BY <2>3 DEF LinkHeader
  <2>5. /\ b[3] \in Nat /\ b[7] \in Nat /\ b[7] <= 255 /\ b[8] \in Nat /\ b[8] <= 255
    BY <1>1, <2>4, ByteRange
  <2>6. b[3] + 5 <= Len(b) /\ 5 <= b[3]
    BY <1>1, <2>2, <2>3, <2>5 DEF PayloadOf
  <2>7. r.device = b[8] * 256 + b[7] /\ r.pdu = SubSeq(b, 11, b[3] + 5)
    BY <2>2, <2>3, <2>6 DEF PayloadOf
  <2>8. Small(r.device)
    <3> DEFINE x == b[8]
    <3> DEFINE y == b[7]
    <3> DEFINE z == r.device
    <3>1. /\ x \in Nat /\ x <= 255 /\ y \in Nat /\ y <= 255 /\ z = x * 256 + y
      BY <2>5, <2>7
    <3> HIDE DEF x, y, z
    <3>2. x * 256 + y \in Nat /\ x * 256 + y <= 65535
      BY <3>1, SMT
    <3>3. z \in Nat /\ z <= 65535
      BY <3>1, <3>2, SMT
    <3>4. Small(z)
      BY <3>3, SmallPair
    <3> QED BY <3>4 DEF z
  <2>9. CutOut(SubSeq(b, 11, b[3] + 5), b, 11, b[3] + 5)
    BY <1>1, <2>5, <2>6, SubSeqCuts
  <2>10. r.pdu \in Seq(Byte)
    BY <2>7, <2>9 DEF CutOut
  <2> QED BY <1>3, <2>7, <2>8, <2>10 DEF GoodParse, r
<1> QED BY <1>2, <1>3

\* The parse error seals nothing, so an aligned read of a frame never takes it.
LEMMA ReadRejectedInv ==
    ASSUME WireInv, NEW n, ReadRejected(n)
    PROVE  WireInv'
<1>1. /\ Read(n) /\ Extract(SubSeq(field, 1, n)).outcome = "err"
      /\ reported' = reported \cup {"ingress"}
      /\ UNCHANGED <<sender, protocol, base, written, task, sealed, sent, stream, open, handed, relayed>>
  BY DEF ReadRejected
<1>2. FieldInv' /\ (aligned' => OneFrame(n))
  BY <1>1, ReadField DEF WireInv
<1>3. OriginInv'
  <2>1. SUFFICES ASSUME aligned', task' # "panicked" PROVE \E origin : Traced(origin, sealed', written', taken')
    BY DEF OriginInv
  <2>2. /\ aligned /\ taken + 1 \in 1..Len(written) /\ taken' = taken + 1
        /\ SubSeq(field, 1, n) = written[taken + 1].bytes
    BY <1>2, <2>1 DEF OneFrame
  <2>3. PICK origin : Traced(origin, sealed, written, taken)
    BY <1>1, <2>1, <2>2 DEF WireInv, OriginInv
  <2>4. written[taken + 1].kind # "frame"
    <3>1. protocol \in {1, 2} /\ written[taken + 1] \in Frames[protocol]
      BY <2>2 DEF WireInv, FieldInv
    <3>2. Parsed(written[taken + 1], Extract(written[taken + 1].bytes))
      BY <3>1, FrameParsed
    <3> QED BY <1>1, <2>2, <3>2 DEF Parsed
  <2>5. taken \in Nat
    BY DEF WireInv, FieldInv
  <2>6. Traced(origin, sealed, written, taken + 1)
    <3>1. origin \in [1..Len(sealed) -> 1..(taken + 1)]
      BY <2>3, <2>5 DEF Traced
    <3>2. ASSUME NEW k \in 1..(taken + 1), written[k].kind = "frame"
          PROVE  \E i \in 1..Len(sealed) : origin[i] = k
      <4>1. k # taken + 1
        BY <2>4, <3>2
      <4>2. k \in 1..taken
        BY <2>5, <4>1
      <4> QED BY <2>3, <3>2, <4>2 DEF Traced
    <3> QED BY <2>3, <3>1, <3>2 DEF Traced
  <2> QED BY <1>1, <2>2, <2>6
<1>4. StreamInv'
  BY <1>1 DEF WireInv, StreamInv
<1>5. SealedInv' /\ RebuiltInv' /\ ModbusNeverPanics'
  BY <1>1, SealedSame, RebuiltSame DEF WireInv, ModbusNeverPanics
<1> QED BY <1>2, <1>3, <1>4, <1>5 DEF WireInv

\* The panic: the field side is given up.
LEMMA ReadPanicsInv ==
    ASSUME WireInv, NEW n, ReadPanics(n)
    PROVE  WireInv'
<1>1. /\ Read(n) /\ Extract(SubSeq(field, 1, n)).outcome = "panic"
      /\ task' = "panicked"
      /\ UNCHANGED <<sender, protocol, base, written, sealed, sent, stream, open, handed, relayed, reported>>
  BY DEF ReadPanics
<1>2. FieldInv' /\ ReadBytes(n)
  BY <1>1, ReadField DEF WireInv
<1>3. ModbusNeverPanics'
  <2>1. ASSUME protocol = 1 PROVE FALSE
    <3> DEFINE b == SubSeq(field, 1, n)
    <3>1. Extract(b) = extract_pdu(b) /\ Extract(b).outcome = "panic"
      BY <1>1, <2>1 DEF Extract, MODBUS
    <3>2. b \in Seq(Byte)
      BY <1>2 DEF ReadBytes
    <3> HIDE DEF b
    <3>3. PduOf(b, extract_pdu(b))
      BY <3>2, ExtractPdu
    <3> QED BY <3>1, <3>3 DEF PduOf
  <2> QED BY <1>1, <2>1 DEF ModbusNeverPanics
<1>4. OriginInv'
  BY <1>1 DEF OriginInv
<1>5. SealedInv' /\ StreamInv' /\ RebuiltInv'
  BY <1>1, SealedSame, StreamSame, RebuiltSame DEF WireInv
<1> QED BY <1>2, <1>3, <1>4, <1>5 DEF WireInv

(* Sealing and sending *)

LEMMA EnvelopesAppend ==
    ASSUME NEW S \in Seq(Envs), NEW e \in Envs
    PROVE  EnvelopesOf(Append(S, e)) = Append(EnvelopesOf(S), EnvelopeBytes(e))
<1> DEFINE x == EnvelopesOf(Append(S, e))
<1> DEFINE P == EnvelopesOf(S)
<1> DEFINE b == EnvelopeBytes(e)
<1> DEFINE y == Append(P, b)
<1>1. Len(S) \in Nat /\ Len(Append(S, e)) = Len(S) + 1
  OBVIOUS
<1>2. Append(S, e)[Len(S) + 1] = e /\ \A k \in 1..Len(S) : Append(S, e)[k] = S[k]
  OBVIOUS
<1>3. x = [k \in 1..(Len(S) + 1) |-> EnvelopeBytes(Append(S, e)[k])]
  BY <1>1 DEF EnvelopesOf
<1>4. P = [k \in 1..Len(S) |-> EnvelopeBytes(S[k])]
  BY DEF EnvelopesOf
<1> DEFINE U == {EnvelopeBytes(S[k]) : k \in 1..Len(S)} \cup {b}
<1>5. P \in [1..Len(S) -> U] /\ b \in U
  BY <1>4
<1>6. P \in Seq(U) /\ Len(P) = Len(S)
  <2> HIDE DEF P, U
  <2> QED BY <1>1, <1>5
<1>7. y = [k \in 1..(Len(S) + 1) |-> IF k = Len(S) + 1 THEN b ELSE P[k]]
  <2> HIDE DEF P, U, b
  <2> QED BY <1>5, <1>6, AppendIs
<1>8. ASSUME NEW k \in 1..(Len(S) + 1)
      PROVE  EnvelopeBytes(Append(S, e)[k]) = IF k = Len(S) + 1 THEN b ELSE P[k]
  <2>1. CASE k = Len(S) + 1
    BY <1>2, <2>1
  <2>2. CASE k \in 1..Len(S)
    <3>1. P[k] = EnvelopeBytes(S[k]) /\ k # Len(S) + 1
      BY <1>1, <1>4, <2>2
    <3> HIDE DEF P
    <3> QED BY <1>2, <2>2, <3>1
  <2> QED BY <1>1, <2>1, <2>2
<1>9. x = y
  <2> HIDE DEF P, x, y, b
  <2> QED BY <1>3, <1>7, <1>8
<1> QED BY <1>9

\* Sealing: the origin grows by the frame that was read, the secure connection by the envelope.
LEMMA ReadSealedInv ==
    ASSUME WireInv, NEW n, NEW blob \in Blobs, ReadSealed(n, blob)
    PROVE  WireInv'
<1> DEFINE b == SubSeq(field, 1, n)
<1> DEFINE r == Extract(b)
<1>1. PICK env :
        /\ env.device = r.device /\ env.protocol = protocol /\ env.blob = blob /\ Small(env.seq)
        /\ env = [protocol |-> env.protocol, device |-> env.device, seq |-> env.seq, blob |-> env.blob]
        /\ sealed' = Append(sealed, [env |-> env, pdu |-> r.pdu])
        /\ \/ /\ sender = "bare" /\ open = "open" /\ open' = open
              /\ stream' = stream \o EnvelopeBytes(env)
              /\ sent' = Append(sent, env)
           \/ sender = "forward" /\ sent' = Append(sent, env)
           \/ UNCHANGED <<stream, sent, open>>
  <2> DEFINE counter == base + Cardinality({i \in DOMAIN sealed : sealed[i].env.device = r.device})
  <2> DEFINE env == [protocol |-> protocol, device |-> r.device, seq |-> counter, blob |-> blob]
  <2>1. /\ counter \in Nat /\ counter <= MAX_SEQ
        /\ sealed' = Append(sealed, [env |-> env, pdu |-> r.pdu])
        /\ \/ /\ sender = "bare" /\ open = "open" /\ open' = open
              /\ stream' = stream \o EnvelopeBytes(env)
              /\ sent' = Append(sent, env)
           \/ sender = "forward" /\ sent' = Append(sent, env)
           \/ UNCHANGED <<stream, sent, open>>
    BY DEF ReadSealed
  <2>2. Small(counter)
    BY <2>1 DEF Small
  <2> HIDE DEF counter
  <2>3. /\ env.device = r.device /\ env.protocol = protocol /\ env.blob = blob /\ env.seq = counter
        /\ env = [protocol |-> env.protocol, device |-> env.device, seq |-> env.seq, blob |-> env.blob]
    OBVIOUS
  <2> HIDE DEF env
  <2> QED BY <2>1, <2>2, <2>3
<1>2. /\ Read(n) /\ r.outcome = "ok"
      /\ UNCHANGED <<sender, protocol, base, written, task, handed, relayed, reported>>
  BY DEF ReadSealed
<1>3. FieldInv' /\ ReadBytes(n) /\ (aligned' => OneFrame(n))
  BY <1>2, ReadField DEF WireInv
<1>4. protocol \in {1, 2}
  BY DEF WireInv, FieldInv
<1>5. b \in Seq(Byte) /\ Len(b) <= 4096
  BY <1>3 DEF ReadBytes
<1> HIDE DEF b
<1>6. GoodParse(protocol, r)
  BY <1>2, <1>4, <1>5, AnyParsed
<1> HIDE DEF r
<1>7. EnvOK(env) /\ env \in Envs
  <2>1. blob \in Seq(Byte) /\ Len(blob) <= MAX_BLOB
    BY GatewayWireAssumption DEF Byte
  <2>2. Small(env.device)
    BY <1>1, <1>6 DEF GoodParse
  <2>3. EnvOK(env)
    BY <1>1, <1>4, <2>1, <2>2 DEF EnvOK
  <2>4. env.device \in Nat /\ env.seq \in Nat /\ env.protocol \in {1, 2} /\ env.blob \in Seq(Byte)
    BY <1>1, <1>4, <2>1, <2>2 DEF Small
  <2>5. env \in Envs
    BY <1>1, <2>4 DEF Envs
  <2> QED BY <2>3, <2>5
<1> DEFINE new == [env |-> env, pdu |-> r.pdu]
<1>8. new.env = env /\ new.pdu = r.pdu /\ new \in [env : Envs, pdu : Seq(Byte)] /\ SealOk(protocol, new)
  <2>1. r.pdu \in Seq(Byte)
    BY <1>6 DEF GoodParse
  <2>2. new.env = env /\ new.pdu = r.pdu /\ new \in [env : Envs, pdu : Seq(Byte)]
    BY <1>7, <2>1
  <2> HIDE DEF new
  <2>3. SealOk(protocol, new)
    BY <1>1, <1>6, <1>7, <2>2 DEF SealOk, GoodParse
  <2> QED BY <2>2, <2>3
<1>9. sealed' = Append(sealed, new)
  BY <1>1
<1> HIDE DEF new
<1> DEFINE q == Len(sealed)
<1>10. sealed \in Seq([env : Envs, pdu : Seq(Byte)]) /\ q \in Nat /\ sent \in Seq(Envs) /\ Len(sent) \in Nat
  BY DEF WireInv, SealedInv
<1>11. /\ sealed' \in Seq([env : Envs, pdu : Seq(Byte)]) /\ Len(sealed') = q + 1
       /\ sealed'[q + 1] = new /\ \A i \in 1..q : sealed'[i] = sealed[i]
  BY <1>8, <1>9, <1>10
<1> HIDE DEF q
<1>12. SealedInv'
  <2>1. ASSUME NEW i \in 1..(q + 1) PROVE SealOk(protocol', sealed'[i])
    <3>1. CASE i = q + 1
      BY <1>2, <1>8, <1>11, <3>1
    <3>2. CASE i \in 1..q
      BY <1>2, <1>11, <3>2 DEF WireInv, SealedInv, q
    <3> QED BY <1>10, <3>1, <3>2
  <2>2. sent' = sent \/ sent' = Append(sent, env)
    BY <1>1
  <2>3. sent' \in Seq(Envs)
    <3>1. CASE sent' = sent
      BY <1>10, <3>1
    <3>2. CASE sent' = Append(sent, env)
      <4>1. Append(sent, env) \in Seq(Envs)
        BY <1>7, <1>10
      <4> QED BY <3>2, <4>1
    <3> QED BY <2>2, <3>1, <3>2
  <2>4. ASSUME NEW k \in 1..Len(sent') PROVE \E i \in 1..(q + 1) : sealed'[i].env = sent'[k]
    <3>1. CASE k \in 1..Len(sent)
      <4>1. sent'[k] = sent[k]
        BY <1>7, <1>10, <2>2, <3>1
      <4>2. PICK i \in 1..q : sealed[i].env = sent[k]
        BY <3>1 DEF WireInv, SealedInv, q
      <4>3. i \in 1..(q + 1) /\ sealed'[i].env = sent'[k]
        BY <1>10, <1>11, <4>1, <4>2
      <4> QED BY <4>3
    <3>2. CASE k \notin 1..Len(sent)
      <4>1. sent' = Append(sent, env) /\ k = Len(sent) + 1
        BY <1>7, <1>10, <2>2, <3>2
      <4>2. sent'[k] = env
        BY <1>7, <1>10, <4>1
      <4>3. q + 1 \in 1..(q + 1) /\ sealed'[q + 1].env = sent'[k]
        BY <1>8, <1>10, <1>11, <4>2
      <4> QED BY <4>3
    <3> QED BY <3>1, <3>2
  <2> QED BY <1>11, <2>1, <2>3, <2>4 DEF SealedInv
<1>13. RebuiltInv'
  <2>1. SUFFICES ASSUME protocol = 1 PROVE RebuiltInv'
    BY <1>2 DEF RebuiltInv
  <2>2. ASSUME NEW i \in 1..Len(relayed)
        PROVE  \E j \in 1..(q + 1) : ParsesBack(relayed[i].frame, sealed'[j].pdu, sealed'[j].env.device)
    <3>1. PICK j \in 1..q : ParsesBack(relayed[i].frame, sealed[j].pdu, sealed[j].env.device)
      BY <2>1 DEF WireInv, RebuiltInv, q
    <3>2. j \in 1..(q + 1) /\ sealed'[j] = sealed[j]
      BY <1>10, <1>11
    <3> QED BY <3>1, <3>2
  <2> QED BY <1>2, <1>11, <2>1, <2>2 DEF WireInv, RebuiltInv
<1>14. OriginInv'
  <2>1. SUFFICES ASSUME aligned', task' # "panicked" PROVE \E origin : Traced(origin, sealed', written', taken')
    BY DEF OriginInv
  <2>2. /\ aligned /\ taken + 1 \in 1..Len(written) /\ taken' = taken + 1
        /\ b = written[taken + 1].bytes
    BY <1>3, <2>1 DEF OneFrame, b
  <2>3. PICK origin : Traced(origin, sealed, written, taken)
    BY <1>2, <2>1, <2>2 DEF WireInv, OriginInv
  <2>4. written[taken + 1].kind = "frame" /\ r.pdu = written[taken + 1].body
    <3>1. written[taken + 1] \in Frames[protocol]
      BY <2>2 DEF WireInv, FieldInv
    <3>2. /\ Parsed(written[taken + 1], Extract(written[taken + 1].bytes))
          /\ written[taken + 1].kind \in {"frame", "malformed", "short"}
      BY <1>4, <3>1, FrameParsed
    <3>3. Parsed(written[taken + 1], r)
      BY <2>2, <3>2 DEF r
    <3> QED BY <1>2, <3>2, <3>3 DEF Parsed
  <2>5. taken \in Nat
    BY DEF WireInv, FieldInv
  <2> DEFINE more == [i \in 1..(q + 1) |-> IF i \in 1..q THEN origin[i] ELSE taken + 1]
  <2>6. /\ more[q + 1] = taken + 1 /\ \A i \in 1..q : more[i] = origin[i]
    BY <1>10
  <2>7. origin \in [1..q -> 1..taken]
    BY <2>3 DEF Traced, q
  <2>8. more \in [1..(q + 1) -> 1..(taken + 1)]
    BY <1>10, <2>5, <2>7
  <2> HIDE DEF more
  <2>9. ASSUME NEW i \in 1..(q + 1), NEW j \in 1..(q + 1), i < j PROVE more[i] < more[j]
    <3>1. i \in 1..q
      BY <1>10, <2>9
    <3>2. CASE j = q + 1
      <4>1. origin[i] \in 1..taken
        BY <2>7, <3>1
      <4> QED BY <2>5, <2>6, <3>1, <3>2, <4>1
    <3>3. CASE j \in 1..q
      <4>1. origin[i] < origin[j]
        BY <2>3, <2>9, <3>1, <3>3 DEF Traced, q
      <4> QED BY <2>6, <3>1, <3>3, <4>1
    <3> QED BY <1>10, <3>2, <3>3
  <2>10. ASSUME NEW k \in 1..(taken + 1), written[k].kind = "frame"
         PROVE  \E i \in 1..(q + 1) : more[i] = k
    <3>1. CASE k = taken + 1
      <4>1. q + 1 \in 1..(q + 1)
        BY <1>10
      <4> QED BY <2>6, <3>1, <4>1
    <3>2. CASE k \in 1..taken
      <4>1. PICK i \in 1..q : origin[i] = k
        BY <2>3, <2>10, <3>2 DEF Traced, q
      <4>2. i \in 1..(q + 1) /\ more[i] = k
        BY <1>10, <2>6, <4>1
      <4> QED BY <4>2
    <3> QED BY <2>5, <3>1, <3>2
  <2>11. ASSUME NEW i \in 1..(q + 1)
         PROVE  written[more[i]].kind = "frame" /\ sealed'[i].pdu = written[more[i]].body
    <3>1. CASE i = q + 1
      BY <1>8, <1>11, <2>4, <2>6, <3>1
    <3>2. CASE i \in 1..q
      <4>1. written[origin[i]].kind = "frame" /\ sealed[i].pdu = written[origin[i]].body
        BY <2>3, <3>2 DEF Traced, q
      <4> QED BY <1>11, <2>6, <3>2, <4>1
    <3> QED BY <1>10, <3>1, <3>2
  <2>12. Traced(more, sealed', written, taken + 1)
    BY <1>11, <2>8, <2>9, <2>10, <2>11 DEF Traced
  <2> QED BY <1>2, <2>2, <2>12
<1>15. StreamInv'
  <2>1. SUFFICES ASSUME sender = "bare" PROVE StreamInv'
    BY <1>2 DEF StreamInv
  <2>2. CASE UNCHANGED <<stream, sent, open>>
    BY <1>2, <2>2, StreamSame DEF WireInv
  <2>3. CASE /\ open = "open" /\ open' = open
             /\ stream' = stream \o EnvelopeBytes(env)
             /\ sent' = Append(sent, env)
    <3>1. /\ stream \in Seq(Byte) /\ handed \in Seq(Envs) /\ Len(handed) <= Len(sent)
          /\ \A m \in 1..Len(handed) : handed[m] = sent[m]
          /\ "egress" \notin reported /\ Len(handed) \in Nat
      BY <2>1 DEF WireInv, StreamInv
    <3>2. PICK cut : /\ Laid(stream, cut, EnvelopesOf(sent))
                     /\ cut[Len(handed)] = 0
                     /\ Len(stream) = cut[Len(sent)]
      BY <2>1, <2>3 DEF WireInv, StreamInv
    <3> DEFINE P == EnvelopesOf(sent)
    <3> DEFINE p == EnvelopeBytes(env)
    <3>3. Pieces(P) /\ Len(P) = Len(sent)
      BY SentPieces DEF WireInv
    <3>4. p \in Seq(Byte) /\ p # <<>>
      <4>1. EnvLaid(p, env)
        BY <1>7, EnvelopeLaid
      <4> HIDE DEF p
      <4>2. p \in Seq(Byte) /\ Len(p) = 23 + Len(env.blob) /\ Len(env.blob) \in Nat
        BY <1>7, <4>1 DEF EnvLaid, EnvOK
      <4> QED BY <4>2
    <3> DEFINE ends == Extended(cut, Len(sent), Len(p))
    <3>5. EnvelopesOf(sent') = Append(P, p)
      BY <1>7, <1>10, <2>3, EnvelopesAppend
    <3> HIDE DEF P, p
    <3>6. Laid(stream, cut, P) /\ stream' = stream \o p
      BY <2>3, <3>2 DEF P, p
    <3>7. Laid(stream \o p, ends, Append(P, p)) /\ Len(stream \o p) = ends[Len(Append(P, p))]
      BY <3>1, <3>2, <3>3, <3>4, <3>6, LaidExtend
    <3>8. ends[Len(handed)] = cut[Len(handed)]
      BY <1>10, <3>1 DEF Extended
    <3> HIDE DEF ends
    <3>9. Len(sent') = Len(sent) + 1 /\ Len(Append(P, p)) = Len(sent) + 1
      BY <1>7, <1>10, <2>3, <3>3 DEF Pieces
    <3>10. stream' \in Seq(Byte)
      BY <3>1, <3>4, <3>6, Joined DEF Join
    <3>11. /\ Laid(stream', ends, EnvelopesOf(sent')) /\ ends[Len(handed')] = 0
           /\ Len(stream') = ends[Len(sent')]
      BY <1>2, <3>2, <3>5, <3>6, <3>7, <3>8, <3>9
    <3>12. Len(handed') <= Len(sent') /\ \A m \in 1..Len(handed') : handed'[m] = sent'[m]
      BY <1>2, <1>7, <1>10, <2>3, <3>1, <3>9
    <3> QED BY <1>2, <3>1, <3>10, <3>11, <3>12 DEF StreamInv
  <2> QED BY <1>1, <2>1, <2>2, <2>3
<1>16. ModbusNeverPanics'
  BY <1>2 DEF WireInv, ModbusNeverPanics
<1> QED BY <1>3, <1>12, <1>13, <1>14, <1>15, <1>16 DEF WireInv

LEMMA FieldCloseInv == ASSUME WireInv, FieldClose PROVE WireInv'
<1>1. /\ task = "reading" /\ task' = "closed"
      /\ UNCHANGED <<sender, protocol, written, field, aligned, taken, sealed, sent, stream, open, handed,
                     relayed, reported>>
  BY DEF FieldClose
<1>2. task # "panicked" /\ task' # "panicked"
  BY <1>1
<1>3. OriginInv' /\ ModbusNeverPanics'
  BY <1>1, <1>2 DEF WireInv, OriginInv, ModbusNeverPanics
<1>4. FieldInv' /\ SealedInv' /\ StreamInv' /\ RebuiltInv'
  BY <1>1, FieldSame, SealedSame, StreamSame, RebuiltSame DEF WireInv
<1> QED BY <1>3, <1>4 DEF WireInv

\* What the two connections keep of each other.
LEMMA FieldSideSame ==
    ASSUME WireInv, UNCHANGED <<protocol, written, field, task, aligned, taken, sealed, sent>>
    PROVE  FieldInv' /\ SealedInv' /\ OriginInv' /\ ModbusNeverPanics'
  BY FieldSame, SealedSame, OriginSame DEF WireInv, ModbusNeverPanics

LEMMA EndInv == ASSUME WireInv, NEW n, End(n) PROVE WireInv'
<1>1. /\ n \in 0..Len(stream) /\ stream' = SubSeq(stream, 1, n) /\ open' = "ended"
      /\ UNCHANGED <<sender, protocol, written, field, task, aligned, taken, sealed, sent, handed,
                     relayed, reported>>
  BY DEF End, fieldVars
<1>2. StreamInv'
  <2>1. SUFFICES ASSUME sender = "bare" PROVE StreamInv'
    BY <1>1 DEF StreamInv
  <2>2. /\ stream \in Seq(Byte) /\ handed \in Seq(Envs) /\ Len(handed) <= Len(sent)
        /\ \A m \in 1..Len(handed) : handed[m] = sent[m]
        /\ "egress" \notin reported
    BY <2>1 DEF WireInv, StreamInv
  <2>3. PICK cut : Laid(stream, cut, EnvelopesOf(sent)) /\ cut[Len(handed)] = 0
    BY <2>1 DEF WireInv, StreamInv
  <2>4. Pieces(EnvelopesOf(sent))
    BY SentPieces DEF WireInv
  <2>5. Laid(stream', cut, EnvelopesOf(sent))
    BY <1>1, <2>2, <2>3, <2>4, LaidPrefix
  <2>6. stream' \in Seq(Byte)
    BY <1>1, <2>2
  <2> QED BY <1>1, <2>2, <2>3, <2>5, <2>6 DEF StreamInv
<1>3. RebuiltInv'
  BY <1>1, RebuiltSame DEF WireInv
<1> QED BY <1>1, <1>2, <1>3, FieldSideSame DEF WireInv

\* The envelope e at the head of the secure connection.
HeadIs(cut, e) ==
    /\ Len(handed) + 1 \in 1..Len(sent) /\ e = sent[Len(handed) + 1] /\ EnvOK(e)
    /\ cut[Len(handed) + 1] = 23 + Len(e.blob)
    /\ U32(SubSeq(stream, 20, 23)) = Len(e.blob)
    /\ Len(stream) >= 23 + Len(e.blob) => EnvLaid(SubSeq(stream, 1, 23 + Len(e.blob)), e)

\* While the egress stands between two envelopes, the length it reads is that of the next.
LEMMA HeadEnvelope ==
    ASSUME WireInv, sender = "bare", Len(stream) >= 23,
           NEW cut, Laid(stream, cut, EnvelopesOf(sent)), cut[Len(handed)] = 0
    PROVE  HeadIs(cut, sent[Len(handed) + 1])
<1> DEFINE P == EnvelopesOf(sent)
<1> DEFINE h == Len(handed)
<1> DEFINE p == P[h + 1]
<1> DEFINE e == sent[h + 1]
<1>1. stream \in Seq(Byte) /\ handed \in Seq(Envs) /\ h \in Nat /\ h <= Len(sent)
  BY DEF WireInv, StreamInv
<1>2. Pieces(P) /\ Len(P) = Len(sent) /\ Len(sent) \in Nat
  BY SentPieces DEF WireInv, SealedInv
<1>3. \A k \in 1..Len(sent) : EnvOK(sent[k]) /\ EnvLaid(P[k], sent[k])
  BY SentPieces DEF WireInv
<1>4. Laid(stream, cut, P) /\ cut[h] = 0 /\ h \in 0..Len(P) /\ stream # <<>>
  BY <1>1, <1>2
<1> HIDE DEF P, h
<1>5. /\ h + 1 \in 1..Len(P) /\ cut[h + 1] = Len(p)
      /\ \A i \in 1..Len(stream) : i <= Len(p) => stream[i] = p[i]
      /\ Len(stream) >= Len(p) => SubSeq(stream, 1, Len(p)) = p
  BY <1>1, <1>2, <1>4, LaidHead
<1>6. EnvOK(e) /\ EnvLaid(p, e)
  BY <1>2, <1>3, <1>5
<1> HIDE DEF p, e
<1>7. Len(p) = 23 + Len(e.blob) /\ Len(e.blob) \in Nat
  BY <1>6 DEF EnvOK, EnvLaid
<1>8. ASSUME NEW i \in 20..23 PROVE stream[i] = p[i]
  BY <1>1, <1>5, <1>7
<1>9. U32(SubSeq(stream, 20, 23)) = Len(e.blob)
  <2>1. stream[20] = 0
    BY <1>6, <1>8 DEF EnvLaid
  <2>2. U32(SubSeq(stream, 20, 20 + 3)) = (stream[20 + 1] * 256 + stream[20 + 2]) * 256 + stream[20 + 3]
    <3>1. 20 \in Nat /\ 20 + 3 <= Len(stream) /\ 1 <= 20
      BY <1>1
    <3> QED BY <1>1, <2>1, <3>1, U32Is
  <2>3. stream[21] = p[21] /\ stream[22] = p[22] /\ stream[23] = p[23]
    BY <1>8
  <2>4. U32(SubSeq(stream, 20, 23)) = (p[21] * 256 + p[22]) * 256 + p[23]
    BY <2>2, <2>3
  <2> QED BY <1>6, <2>4 DEF EnvLaid
<1>10. Len(stream) >= 23 + Len(e.blob) => EnvLaid(SubSeq(stream, 1, 23 + Len(e.blob)), e)
  BY <1>5, <1>6, <1>7
<1>11. h + 1 \in 1..Len(sent) /\ cut[h + 1] = 23 + Len(e.blob)
  BY <1>2, <1>5, <1>7
<1> QED BY <1>6, <1>9, <1>10, <1>11 DEF HeadIs, h, e

\* handle_egress never breaks on a length above MAX_BLOB.
LEMMA EgressBreakInv == ASSUME WireInv, EgressBreak PROVE WireInv'
<1>1. /\ stream' = <<>> /\ open' = "ended"
      /\ \/ UNCHANGED reported
         \/ Len(stream) >= 23 /\ U32(SubSeq(stream, 20, 23)) > MAX_BLOB
      /\ UNCHANGED <<sender, protocol, written, field, task, aligned, taken, sealed, sent, handed,
                     relayed>>
  BY DEF EgressBreak, fieldVars, ENVELOPE_HEADER_SIZE
<1>2. StreamInv'
  <2>1. SUFFICES ASSUME sender = "bare" PROVE StreamInv'
    BY <1>1 DEF StreamInv
  <2>2. /\ stream \in Seq(Byte) /\ handed \in Seq(Envs) /\ Len(handed) <= Len(sent)
        /\ \A m \in 1..Len(handed) : handed[m] = sent[m]
        /\ "egress" \notin reported
    BY <2>1 DEF WireInv, StreamInv
  <2>3. PICK cut : Laid(stream, cut, EnvelopesOf(sent)) /\ cut[Len(handed)] = 0
    BY <2>1 DEF WireInv, StreamInv
  <2>4. Pieces(EnvelopesOf(sent))
    BY SentPieces DEF WireInv
  <2>5. 0 \in 0..Len(stream) /\ SubSeq(stream, 1, 0) = <<>>
    BY <2>2
  <2>6. Laid(SubSeq(stream, 1, 0), cut, EnvelopesOf(sent))
    BY <2>2, <2>3, <2>4, <2>5, LaidPrefix
  <2>7. Laid(stream', cut, EnvelopesOf(sent))
    BY <1>1, <2>5, <2>6
  <2>8. UNCHANGED reported
    <3>1. ASSUME Len(stream) >= 23, U32(SubSeq(stream, 20, 23)) > MAX_BLOB PROVE FALSE
      <4> DEFINE e == sent[Len(handed) + 1]
      <4>1. HeadIs(cut, e)
        BY <2>1, <2>3, <3>1, HeadEnvelope
      <4> HIDE DEF e
      <4>2. U32(SubSeq(stream, 20, 23)) = Len(e.blob) /\ Len(e.blob) <= MAX_BLOB /\ Len(e.blob) \in Nat
        BY <4>1 DEF HeadIs, EnvOK
      <4>3. MAX_BLOB \in Nat
        BY SMT DEF MAX_BLOB
      <4> QED BY <3>1, <4>2, <4>3
    <3> QED BY <1>1, <3>1
  <2>9. stream' \in Seq(Byte)
    BY <1>1
  <2> QED BY <1>1, <2>2, <2>3, <2>7, <2>8, <2>9 DEF StreamInv
<1>3. RebuiltInv'
  BY <1>1, RebuiltSame DEF WireInv
<1> QED BY <1>1, <1>2, <1>3, FieldSideSame DEF WireInv

\* An iteration of handle_egress takes exactly the next envelope.
LEMMA EgressEnvelopeInv == ASSUME WireInv, EgressEnvelope PROVE WireInv'
<1> DEFINE n == 23 + U32(SubSeq(stream, 20, 23))
<1> DEFINE buf == SubSeq(stream, 1, n)
<1> DEFINE wellFormed == SubSeq(buf, 1, 2) = <<78, 81>> /\ buf[3] \in {1, 2}
<1> DEFINE opened == {s \in Range(sealed) : s.env = ParseEnvelope(buf)}
<1>1. /\ Len(stream) >= 23 /\ Len(stream) >= n
      /\ stream' = SubSeq(stream, n + 1, Len(stream))
      /\ handed' = IF wellFormed THEN Append(handed, ParseEnvelope(buf)) ELSE handed
      /\ UNCHANGED <<sender, protocol, written, field, task, aligned, taken, sealed, sent, open>>
  BY DEF EgressEnvelope, fieldVars, ENVELOPE_HEADER_SIZE, ENVELOPE_MAGIC,
         ProtocolIds, MODBUS, DNP3
<1>2. \/ /\ \E s \in opened : relayed' = Append(relayed, Relay(s.pdu))
         /\ UNCHANGED reported
      \/ ~(wellFormed /\ opened # {}) /\ UNCHANGED relayed
  BY DEF EgressEnvelope, fieldVars, ENVELOPE_HEADER_SIZE, ENVELOPE_MAGIC,
         ProtocolIds, MODBUS, DNP3
<1>3. /\ sealed \in Seq([env : Envs, pdu : Seq(Byte)]) /\ Len(sealed) \in Nat
      /\ \A i \in 1..Len(sealed) : SealOk(protocol, sealed[i])
      /\ \A k \in 1..Len(sent) : \E i \in 1..Len(sealed) : sealed[i].env = sent[k]
  <2>1. SealedInv
    BY DEF WireInv
  <2>2. sealed \in Seq([env : Envs, pdu : Seq(Byte)])
    BY <2>1 DEF SealedInv
  <2>3. Len(sealed) \in Nat
    BY <2>2
  <2> QED BY <2>1, <2>2, <2>3 DEF SealedInv
<1>4. Range(sealed) = {sealed[i] : i \in 1..Len(sealed)}
  BY <1>3 DEF Range
<1> HIDE DEF n, buf, wellFormed
<1>5. RebuiltInv'
  <2>1. SUFFICES ASSUME protocol = 1 PROVE RebuiltInv'
    BY <1>1 DEF RebuiltInv
  <2>2. CASE UNCHANGED relayed
    BY <1>1, <2>2, RebuiltSame DEF WireInv
  <2>3. CASE \E s \in opened : relayed' = Append(relayed, Relay(s.pdu))
    <3>1. PICK j \in 1..Len(sealed) :
            relayed' = Append(relayed, Relay(sealed[j].pdu))
      BY <1>4, <2>3
    <3> DEFINE d == Relay(sealed[j].pdu)
    <3>2. /\ sealed[j].pdu \in Seq(Byte) /\ Len(sealed[j].pdu) <= 4090
          /\ sealed[j].pdu # <<>> => sealed[j].env.device = sealed[j].pdu[1]
      <4>1. SealOk(protocol, sealed[j])
        BY <1>3
      <4>2. sealed[j] \in [env : Envs, pdu : Seq(Byte)]
        BY <1>3, ElementOf
      <4>3. sealed[j].pdu \in Seq(Byte)
        BY <4>2
      <4> QED BY <2>1, <4>1, <4>3 DEF SealOk
    <3>3. d \in Relays /\ ParsesBack(d.frame, sealed[j].pdu, sealed[j].env.device)
      <4>1. /\ Rebuilt(sealed[j].pdu) \in Seq(Byte)
            /\ ForwardedBytes(Rebuilt(sealed[j].pdu)) \in Seq(Byte)
            /\ ParsesBack(Rebuilt(sealed[j].pdu), sealed[j].pdu, sealed[j].env.device)
        BY <2>1, <3>2, RebuiltParses
      <4> QED BY <4>1 DEF Relay, Relays
    <3>4. relayed' = Append(relayed, d)
      BY <3>1
    <3> HIDE DEF d
    <3>5. relayed \in Seq(Relays)
      BY <2>1 DEF WireInv, RebuiltInv
    <3>6. /\ relayed' \in Seq(Relays) /\ Len(relayed) \in Nat
          /\ Len(relayed') = Len(relayed) + 1
      BY <3>3, <3>4, <3>5
    <3>7. ASSUME NEW i \in 1..Len(relayed')
          PROVE  \E k \in 1..Len(sealed) : ParsesBack(relayed'[i].frame, sealed[k].pdu, sealed[k].env.device)
      <4>1. CASE i = Len(relayed) + 1
        <5>1. relayed'[i] = d
          BY <3>3, <3>4, <3>5, <4>1
        <5> QED BY <3>3, <5>1
      <4>2. CASE i \in 1..Len(relayed)
        <5>1. relayed'[i] = relayed[i]
          BY <3>3, <3>4, <3>5, <4>2
        <5>2. PICK k \in 1..Len(sealed) : ParsesBack(relayed[i].frame, sealed[k].pdu, sealed[k].env.device)
          BY <2>1, <4>2 DEF WireInv, RebuiltInv
        <5> QED BY <5>1, <5>2
      <4> QED BY <3>6, <4>1, <4>2
    <3> QED BY <1>1, <3>6, <3>7 DEF RebuiltInv
  <2> QED BY <1>2, <2>2, <2>3
<1>6. StreamInv'
  <2>1. SUFFICES ASSUME sender = "bare" PROVE StreamInv'
    BY <1>1 DEF StreamInv
  <2>2. /\ stream \in Seq(Byte) /\ handed \in Seq(Envs) /\ Len(handed) <= Len(sent) /\ Len(handed) \in Nat
        /\ \A m \in 1..Len(handed) : handed[m] = sent[m]
        /\ "egress" \notin reported
    BY <2>1 DEF WireInv, StreamInv
  <2>3. PICK cut : /\ Laid(stream, cut, EnvelopesOf(sent)) /\ cut[Len(handed)] = 0
                   /\ open = "open" => Len(stream) = cut[Len(sent)]
    BY <2>1 DEF WireInv, StreamInv
  <2>4. Pieces(EnvelopesOf(sent)) /\ Len(EnvelopesOf(sent)) = Len(sent)
    BY SentPieces DEF WireInv
  <2> DEFINE h == Len(handed)
  <2> DEFINE e == sent[h + 1]
  <2>5. HeadIs(cut, e)
    BY <1>1, <2>1, <2>3, HeadEnvelope
  <2>6. /\ h + 1 \in 1..Len(sent) /\ EnvOK(e) /\ n = 23 + Len(e.blob) /\ cut[h + 1] = n
        /\ Len(e.blob) \in Nat
    BY <2>5 DEF HeadIs, n, EnvOK
  <2>7. EnvLaid(buf, e)
    BY <1>1, <2>5, <2>6 DEF HeadIs, buf
  <2>8. ParseEnvelope(buf) = e
    <3> HIDE DEF e
    <3> QED BY <2>6, <2>7, ParseInverts
  <2>9. wellFormed
    <3> HIDE DEF e
    <3>1. buf \in Seq(Byte) /\ Len(buf) >= 23 /\ buf[1] = 78 /\ buf[2] = 81 /\ buf[3] \in {1, 2}
      BY <2>6, <2>7 DEF EnvLaid, EnvOK
    <3>2. CutOut(SubSeq(buf, 1, 2), buf, 1, 2)
      BY <3>1, SubSeqCuts
    <3> DEFINE t == SubSeq(buf, 1, 2)
    <3> HIDE DEF t
    <3>3. t \in Seq(Byte) /\ Len(t) = 2 /\ t[1] = 78 /\ t[2] = 81
      BY <3>1, <3>2 DEF CutOut, t
    <3>4. t = <<78, 81>>
      BY <3>3
    <3> QED BY <3>1, <3>4 DEF wellFormed, t
  <2>10. opened # {}
    <3>1. PICK i \in 1..Len(sealed) : sealed[i].env = e
      BY <1>3, <2>6
    <3> QED BY <1>4, <2>8, <3>1
  <2>11. reported' = reported
    BY <1>2, <2>9, <2>10
  <2>12. handed' = Append(handed, e) /\ e \in Envs
    BY <1>1, <2>6, <2>8, <2>9 DEF WireInv, SealedInv
  <2>13. /\ handed' \in Seq(Envs) /\ Len(handed') = h + 1
         /\ \A m \in 1..(h + 1) : handed'[m] = sent[m]
    <3> HIDE DEF e
    <3>1. handed' \in Seq(Envs) /\ Len(handed') = h + 1 /\ handed'[h + 1] = e /\ \A m \in 1..h : handed'[m] = handed[m]
      BY <2>2, <2>12
    <3> QED BY <2>2, <3>1 DEF e
  <2> DEFINE new == Shifted(cut, Len(sent), n)
  <2>14. n \in 0..Len(stream)
    BY <1>1, <2>2, <2>6
  <2>15. Laid(stream', new, EnvelopesOf(sent))
    BY <1>1, <2>2, <2>3, <2>4, <2>14, LaidDrop
  <2>16. Len(stream') = Len(stream) - n /\ stream' \in Seq(Byte)
    BY <1>1, <2>2, <2>14
  <2>17. new[h + 1] = 0 /\ (open = "open" => Len(stream') = new[Len(sent)])
    <3>1. cut \in [0..Len(sent) -> Int] /\ Len(sent) \in Nat
      BY <2>3, <2>4 DEF Laid, WireInv, SealedInv
    <3>2. h + 1 \in 0..Len(sent) /\ Len(sent) \in 0..Len(sent)
      BY <2>6, <3>1
    <3>3. \A k \in 0..Len(sent) : new[k] = cut[k] - n
      BY DEF Shifted
    <3>4. new[h + 1] = cut[h + 1] - n /\ new[Len(sent)] = cut[Len(sent)] - n
      BY <3>2, <3>3
    <3>5. cut[Len(sent)] \in Int /\ n \in Int /\ Len(stream) \in Int
      BY <2>2, <2>14, <3>1, <3>2
    <3> HIDE DEF new, h
    <3>6. new[h + 1] = 0
      BY <2>6, <3>4, <3>5
    <3>7. ASSUME open = "open" PROVE Len(stream') = new[Len(sent)]
      <4>1. Len(stream) = cut[Len(sent)]
        BY <2>3, <3>7
      <4> QED BY <2>16, <3>4, <3>5, <4>1
    <3> QED BY <3>6, <3>7
  <2> HIDE DEF new
  <2>18. Len(handed') <= Len(sent') /\ \A m \in 1..Len(handed') : handed'[m] = sent'[m]
    BY <1>1, <2>2, <2>6, <2>13
  <2>19. /\ Laid(stream', new, EnvelopesOf(sent')) /\ new[Len(handed')] = 0
         /\ open' = "open" => Len(stream') = new[Len(sent')]
    BY <1>1, <2>13, <2>15, <2>17
  <2>20. "egress" \notin reported'
    BY <2>2, <2>11
  <2> QED BY <2>13, <2>16, <2>18, <2>19, <2>20 DEF StreamInv
<1> QED BY <1>1, <1>5, <1>6, FieldSideSame DEF WireInv

\* Every step keeps the invariant.
LEMMA WireInvNext ==
    ASSUME WireInv, [WireNext]_wireVars
    PROVE  WireInv'
<1>1. CASE UNCHANGED wireVars
  <2>1. UNCHANGED <<sender, protocol, written, field, task, aligned, taken, sealed, sent, stream, open, handed,
                    relayed, reported>>
    BY <1>1 DEF wireVars, fieldVars
  <2> QED BY <2>1, FieldSideSame, StreamSame, RebuiltSame DEF WireInv
<1>2. CASE \E f \in Frames[protocol] : FieldWrite(f)
  BY <1>2, FieldWriteInv
<1>3. ASSUME NEW n, ReadRejected(n) PROVE WireInv'
  BY <1>3, ReadRejectedInv
<1>4. ASSUME NEW n, ReadPanics(n) PROVE WireInv'
  BY <1>4, ReadPanicsInv
<1>5. ASSUME NEW n, NEW blob \in Blobs, ReadSealed(n, blob) PROVE WireInv'
  BY <1>5, ReadSealedInv
<1>6. ASSUME NEW n, End(n) PROVE WireInv'
  BY <1>6, EndInv
<1>7. CASE Done
  <2>1. UNCHANGED wireVars
    BY <1>7 DEF Done
  <2> QED BY <1>1, <2>1
<1> QED BY <1>1, <1>2, <1>3, <1>4, <1>5, <1>6, <1>7, FieldCloseInv, EgressEnvelopeInv, EgressBreakInv
        DEF WireNext

\* For any frames of the two protocols, any blobs and any lengths of the reads, what
\* waits in either connection is the end of what was written to it, and handle_egress
\* stands between two envelopes of a bare sender.
THEOREM WireInvariant == WireSpec => []WireInv
<1>1. WireInit => WireInv
  BY WireInvInit
<1>2. WireInv /\ [WireNext]_wireVars => WireInv'
  BY WireInvNext
<1> QED BY <1>1, <1>2, PTL DEF WireSpec

(* What the runs check, for every set of frames and blobs *)

LEMMA RangeIs == ASSUME NEW T, NEW S \in Seq(T) PROVE Range(S) = {S[i] : i \in 1..Len(S)}
  BY DEF Range

LEMMA HandedAsSentInv == ASSUME WireInv PROVE HandedAsSent
<1>1. SUFFICES ASSUME sender = "bare"
               PROVE  /\ Len(handed) <= Len(sent)
                      /\ \A n \in DOMAIN handed : handed[n] = sent[n]
                      /\ open = "open" /\ stream = <<>> => handed = sent
                      /\ "egress" \notin reported
  BY DEF HandedAsSent
<1>2. /\ handed \in Seq(Envs) /\ Len(handed) <= Len(sent) /\ sent \in Seq(Envs)
      /\ \A n \in 1..Len(handed) : handed[n] = sent[n]
      /\ "egress" \notin reported
  BY <1>1 DEF WireInv, StreamInv, SealedInv
<1>3. ASSUME open = "open", stream = <<>> PROVE handed = sent
  <2>1. PICK cut : Laid(stream, cut, EnvelopesOf(sent)) /\ cut[Len(handed)] = 0 /\ Len(stream) = cut[Len(sent)]
    BY <1>1, <1>3 DEF WireInv, StreamInv
  <2>2. Pieces(EnvelopesOf(sent)) /\ Len(EnvelopesOf(sent)) = Len(sent)
    BY SentPieces DEF WireInv
  <2>3. cut[Len(handed)] = cut[Len(sent)]
    BY <1>3, <2>1
  <2>4. Len(handed) \in 0..Len(sent) /\ Len(sent) \in 0..Len(sent)
    BY <1>2
  <2>5. Len(handed) = Len(sent)
    BY <2>1, <2>2, <2>3, <2>4, LaidOrder
  <2> QED BY <1>2, <2>5, SameSeq
<1> QED BY <1>2, <1>3

LEMMA AlignedReadsIntactInv ==
    ASSUME WireInv
    PROVE  AlignedReadsIntact
<1>1. SUFFICES ASSUME aligned, field = <<>>, task # "panicked"
               PROVE  \E origin \in [DOMAIN sealed -> DOMAIN written] :
                        /\ \A i, j \in DOMAIN sealed : i < j => origin[i] < origin[j]
                        /\ {origin[i] : i \in DOMAIN sealed} = {k \in DOMAIN written : written[k].kind = "frame"}
                        /\ \A i \in DOMAIN sealed : sealed[i].pdu = written[origin[i]].body
  BY DEF AlignedReadsIntact
<1>2. /\ protocol \in {1, 2} /\ written \in Seq(Frames[protocol]) /\ taken \in 0..Len(written)
      /\ Len(written) \in Nat
  BY DEF WireInv, FieldInv
<1>3. PICK cut : Laid(field, cut, BytesOf(written)) /\ Len(field) = cut[Len(written)] /\ cut[taken] = 0
  BY <1>1 DEF WireInv, FieldInv
<1>4. taken = Len(written)
  <2> DEFINE P == BytesOf(written)
  <2> DEFINE m == Len(written)
  <2>1. Pieces(P) /\ Len(P) = m /\ Laid(field, cut, P)
    BY <1>2, <1>3, WrittenPieces
  <2>2. m \in 0..m /\ taken \in 0..m
    BY <1>2
  <2>3. cut[taken] = cut[m]
    BY <1>1, <1>3
  <2> HIDE DEF P, m
  <2>4. taken = m
    BY <2>1, <2>2, <2>3, LaidOrder
  <2> QED BY <2>4 DEF m
<1>5. DOMAIN sealed = 1..Len(sealed) /\ DOMAIN written = 1..Len(written)
  BY <1>2 DEF WireInv, SealedInv
<1>6. PICK origin : Traced(origin, sealed, written, Len(written))
  BY <1>1, <1>4 DEF WireInv, OriginInv
<1>7. /\ origin \in [1..Len(sealed) -> 1..Len(written)]
      /\ \A i, j \in 1..Len(sealed) : i < j => origin[i] < origin[j]
      /\ \A k \in 1..Len(written) : written[k].kind = "frame" => \E i \in 1..Len(sealed) : origin[i] = k
      /\ \A i \in 1..Len(sealed) : written[origin[i]].kind = "frame" /\ sealed[i].pdu = written[origin[i]].body
  BY <1>6 DEF Traced
<1>8. {origin[i] : i \in 1..Len(sealed)} = {k \in 1..Len(written) : written[k].kind = "frame"}
  BY <1>7
<1> QED BY <1>5, <1>7, <1>8

LEMMA ReassemblyInvertsInv == ASSUME WireInv PROVE ReassemblyInverts
<1>1. SUFFICES ASSUME protocol = 1, NEW r \in Range(relayed)
               PROVE  \E s \in Range(sealed) : ParsesBack(r.frame, s.pdu, s.env.device)
  <2>1. ASSUME NEW r, NEW s, protocol = 1, ParsesBack(r.frame, s.pdu, s.env.device)
        PROVE  IF s.pdu = <<>> THEN Len(r.frame) = 6 ELSE ParsesTo(r.frame, s)
    BY <2>1 DEF ParsesBack, ParsesTo, Extract, MODBUS
  <2> QED BY <2>1 DEF ReassemblyInverts, MODBUS
<1>2. /\ relayed \in Seq(Relays) /\ sealed \in Seq([env : Envs, pdu : Seq(Byte)])
      /\ \A i \in 1..Len(relayed) : \E j \in 1..Len(sealed) :
            ParsesBack(relayed[i].frame, sealed[j].pdu, sealed[j].env.device)
  BY <1>1 DEF WireInv, RebuiltInv, SealedInv
<1>3. PICK i \in 1..Len(relayed) : r = relayed[i]
  BY <1>2, RangeIs
<1>4. PICK j \in 1..Len(sealed) : ParsesBack(r.frame, sealed[j].pdu, sealed[j].env.device)
  BY <1>2, <1>3
<1>5. sealed[j] \in Range(sealed)
  BY <1>2, RangeIs
<1> QED BY <1>4, <1>5

\* Every DNP3 payload sealed is the body of a frame, and only a frame that
\* declares fewer than five bytes makes the parser panic.
FromFrames(S, W) == \A i \in 1..Len(S) : \E k \in 1..Len(W) : W[k].kind = "frame" /\ S[i].pdu = W[k].body
ShortIn(W) == \E k \in 1..Len(W) : W[k].kind = "short"
Dnp3Inv == protocol = 2 => FromFrames(sealed, written) /\ (task = "panicked" => ShortIn(written))

\* A read of a DNP3 connection, wherever it falls.
LEMMA Dnp3Read ==
    ASSUME NoFalseHeader, WireInv, protocol = 2, NEW n, Read(n)
    PROVE  LET r == Extract(SubSeq(field, 1, n))
           IN  /\ r.outcome = "ok" => \E k \in 1..Len(written) : written[k].kind = "frame" /\ r.pdu = written[k].body
               /\ r.outcome = "panic" => ShortIn(written)
<1>1. n \in 1..Len(field)
  BY DEF Read
<1>2. written \in Seq(Frames[2]) /\ field \in Seq(Byte)
  BY DEF WireInv, FieldInv
<1>3. PICK cut : Laid(field, cut, BytesOf(written))
  BY DEF WireInv, FieldInv
<1>4. Extract(SubSeq(field, 1, n)) = extract_payload(SubSeq(field, 1, n))
  BY DEF Extract, MODBUS
<1>5. LET r == extract_payload(SubSeq(field, 1, n))
      IN  /\ r.outcome = "ok" => \E k \in 1..Len(written) : written[k].kind = "frame" /\ r.pdu = written[k].body
          /\ r.outcome = "panic" => \E k \in 1..Len(written) : written[k].kind = "short"
  BY <1>1, <1>2, <1>3, Dnp3Window
<1> QED BY <1>4, <1>5 DEF ShortIn

\* What a frame among W explains, it explains among more frames.
LEMMA MoreFrames ==
    ASSUME NEW S, NEW W, NEW V, \A k \in 1..Len(W) : k \in 1..Len(V) /\ V[k] = W[k]
    PROVE  (FromFrames(S, W) => FromFrames(S, V)) /\ (ShortIn(W) => ShortIn(V))
<1>1. ASSUME FromFrames(S, W), NEW i \in 1..Len(S)
      PROVE  \E k \in 1..Len(V) : V[k].kind = "frame" /\ S[i].pdu = V[k].body
  <2>1. PICK k \in 1..Len(W) : W[k].kind = "frame" /\ S[i].pdu = W[k].body
    BY <1>1 DEF FromFrames
  <2> QED BY <2>1
<1>2. ASSUME ShortIn(W) PROVE \E k \in 1..Len(V) : V[k].kind = "short"
  <2>1. PICK k \in 1..Len(W) : W[k].kind = "short"
    BY <1>2 DEF ShortIn
  <2> QED BY <2>1
<1>3. FromFrames(S, W) => FromFrames(S, V)
  BY <1>1 DEF FromFrames
<1>4. ShortIn(W) => ShortIn(V)
  BY <1>2 DEF ShortIn
<1> QED BY <1>3, <1>4

LEMMA Dnp3Next ==
    ASSUME NoFalseHeader, WireInv, Dnp3Inv, [WireNext]_wireVars
    PROVE  Dnp3Inv'
<1>1. ASSUME UNCHANGED <<protocol, written, sealed>>, task' = "closed" \/ task' = task PROVE Dnp3Inv'
  BY <1>1 DEF Dnp3Inv
<1>2. ASSUME NEW f \in Frames[protocol], FieldWrite(f) PROVE Dnp3Inv'
  <2>1. written' = Append(written, f) /\ UNCHANGED <<protocol, sealed, task>>
    BY <1>2 DEF FieldWrite
  <2>2. written \in Seq(Frames[protocol])
    BY DEF WireInv, FieldInv
  <2>3. \A k \in 1..Len(written) : k \in 1..Len(written') /\ written'[k] = written[k]
    BY <2>1, <2>2
  <2>4. (FromFrames(sealed, written) => FromFrames(sealed, written')) /\ (ShortIn(written) => ShortIn(written'))
    BY <2>3, MoreFrames
  <2> QED BY <2>1, <2>4 DEF Dnp3Inv
<1>3. ASSUME NEW n, ReadPanics(n) PROVE Dnp3Inv'
  <2>1. /\ Read(n) /\ Extract(SubSeq(field, 1, n)).outcome = "panic"
        /\ UNCHANGED <<protocol, written, sealed>>
    BY <1>3 DEF ReadPanics
  <2>2. protocol = 2 => ShortIn(written)
    BY <2>1, Dnp3Read
  <2> QED BY <2>1, <2>2 DEF Dnp3Inv
<1>4. ASSUME NEW n, NEW blob \in Blobs, ReadSealed(n, blob) PROVE Dnp3Inv'
  <2> DEFINE r == Extract(SubSeq(field, 1, n))
  <2>1. /\ Read(n) /\ r.outcome = "ok" /\ UNCHANGED <<protocol, written, task>>
        /\ \E env : sealed' = Append(sealed, [env |-> env, pdu |-> r.pdu])
    BY <1>4 DEF ReadSealed
  <2>2. PICK env : sealed' = Append(sealed, [env |-> env, pdu |-> r.pdu])
    BY <2>1
  <2>3. SUFFICES ASSUME protocol = 2 PROVE FromFrames(sealed', written)
    BY <2>1 DEF Dnp3Inv
  <2>4. PICK k \in 1..Len(written) : written[k].kind = "frame" /\ r.pdu = written[k].body
    BY <2>1, <2>3, Dnp3Read
  <2> HIDE DEF r
  <2>5. sealed \in Seq([env : Envs, pdu : Seq(Byte)])
    BY DEF WireInv, SealedInv
  <2> DEFINE new == [env |-> env, pdu |-> r.pdu]
  <2>6. new.pdu = r.pdu /\ sealed' = Append(sealed, new)
    BY <2>2
  <2> HIDE DEF new
  <2>7. /\ Len(sealed') = Len(sealed) + 1 /\ sealed'[Len(sealed) + 1] = new /\ Len(sealed) \in Nat
        /\ \A i \in 1..Len(sealed) : sealed'[i] = sealed[i]
    BY <2>5, <2>6
  <2>8. ASSUME NEW i \in 1..Len(sealed')
        PROVE  \E m \in 1..Len(written) : written[m].kind = "frame" /\ sealed'[i].pdu = written[m].body
    <3>1. CASE i = Len(sealed) + 1
      BY <2>4, <2>6, <2>7, <3>1
    <3>2. CASE i \in 1..Len(sealed)
      BY <2>3, <2>7, <3>2 DEF Dnp3Inv, FromFrames
    <3> QED BY <2>7, <3>1, <3>2
  <2> QED BY <2>8 DEF FromFrames
<1>5. CASE \E n \in 1..Len(field) : ReadRejected(n)
  BY <1>1, <1>5 DEF ReadRejected
<1>6. CASE FieldClose
  BY <1>1, <1>6 DEF FieldClose
<1>7. CASE \E n \in 0..Len(stream) : End(n)
  BY <1>1, <1>7 DEF End, fieldVars
<1>8. CASE EgressEnvelope
  BY <1>1, <1>8 DEF EgressEnvelope, fieldVars
<1>9. CASE EgressBreak
  BY <1>1, <1>9 DEF EgressBreak, fieldVars
<1>10. CASE UNCHANGED wireVars \/ Done
  BY <1>1, <1>10 DEF wireVars, fieldVars, Done
<1> QED BY <1>2, <1>3, <1>4, <1>5, <1>6, <1>7, <1>8, <1>9, <1>10 DEF WireNext

LEMMA Dnp3Init == ASSUME WireInit PROVE Dnp3Inv
  BY DEF WireInit, Dnp3Inv, FromFrames

LEMMA Dnp3SealsInv == ASSUME WireInv, Dnp3Inv PROVE Dnp3SealsWholeFrames
<1>1. SUFFICES ASSUME protocol = 2, NEW s \in Range(sealed)
               PROVE  \E f \in Range(written) : f.kind = "frame" /\ s.pdu = f.body
  BY DEF Dnp3SealsWholeFrames, DNP3
<1>2. sealed \in Seq([env : Envs, pdu : Seq(Byte)]) /\ written \in Seq(Frames[protocol])
  BY DEF WireInv, SealedInv, FieldInv
<1>3. PICK i \in 1..Len(sealed) : s = sealed[i]
  BY <1>2, RangeIs
<1>4. PICK k \in 1..Len(written) : written[k].kind = "frame" /\ sealed[i].pdu = written[k].body
  BY <1>1 DEF Dnp3Inv, FromFrames
<1>5. written[k] \in Range(written)
  BY <1>2, RangeIs
<1> QED BY <1>3, <1>4, <1>5

LEMMA NeverPanicsInv == ASSUME WireInv, Dnp3Inv PROVE SegmentationNeverPanics
<1>1. SUFFICES ASSUME task = "panicked" PROVE \E f \in Range(written) : f.kind = "short"
  BY DEF SegmentationNeverPanics
<1>2. protocol = 2 /\ written \in Seq(Frames[protocol])
  BY <1>1 DEF WireInv, FieldInv, ModbusNeverPanics
<1>3. PICK k \in 1..Len(written) : written[k].kind = "short"
  BY <1>1, <1>2 DEF Dnp3Inv, ShortIn
<1>4. written[k] \in Range(written)
  BY <1>2, RangeIs
<1> QED BY <1>3, <1>4

\* In the documented wire format handle_egress finds every envelope where wrap_pdu put
\* it, whatever bytes the blobs hold and wherever the connection ends, and never reports.
THEOREM EnvelopesHandedAsSent == WireSpec => []HandedAsSent
<1>1. WireInv => HandedAsSent
  BY HandedAsSentInv
<1> QED BY <1>1, WireInvariant, PTL

\* With one frame per read, handle_ingress_modbus and handle_ingress_dnp3 seal each
\* well-formed frame exactly once, in order, with its own bytes.
THEOREM AlignedFramesSealed == WireSpec => []AlignedReadsIntact
<1>1. WireInv => AlignedReadsIntact
  BY AlignedReadsIntactInv
<1> QED BY <1>1, WireInvariant, PTL

\* reassemble_modbus inverts extract_pdu: the frame it builds from an opened PDU parses
\* to the PDU that was sealed, for the same unit, however the reads fell; an empty PDU
\* alone gives six bytes.  The length forward_envelope writes before it is not part of it.
THEOREM ReassemblyInvertsExtraction == WireSpec => []ReassemblyInverts
<1>1. WireInv => ReassemblyInverts
  BY ReassemblyInvertsInv
<1> QED BY <1>1, WireInvariant, PTL

\* Unless ten bytes inside the device's frames pass for a link header, what extract_payload
\* takes out of any read is the body of one frame.
THEOREM Dnp3Invariant == ASSUME NoFalseHeader PROVE WireSpec => [](WireInv /\ Dnp3Inv)
<1>1. WireInit => Dnp3Inv
  BY Dnp3Init
<1>2. WireInv /\ Dnp3Inv /\ [WireNext]_wireVars => Dnp3Inv'
  BY Dnp3Next
<1> QED BY <1>1, <1>2, WireInvariant, PTL DEF WireSpec

\* However the reads fall, a sealed DNP3 payload is the body of a frame the device wrote.
THEOREM Dnp3PayloadsAreFrames == ASSUME NoFalseHeader PROVE WireSpec => []Dnp3SealsWholeFrames
<1>1. WireInv /\ Dnp3Inv => Dnp3SealsWholeFrames
  BY Dnp3SealsInv
<1> QED BY <1>1, Dnp3Invariant, PTL

\* However the reads fall, extract_payload panics only for a device that declares fewer
\* than five bytes, and extract_pdu never does.
THEOREM SplitReadsNeverPanic == ASSUME NoFalseHeader PROVE WireSpec => []SegmentationNeverPanics
<1>1. WireInv /\ Dnp3Inv => SegmentationNeverPanics
  BY NeverPanicsInv
<1> QED BY <1>1, Dnp3Invariant, PTL
=============================================================================
