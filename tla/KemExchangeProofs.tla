-------------------------- MODULE KemExchangeProofs --------------------------
(***************************************************************************)
(* Proofs about the session key exchange, for any sets of keys and         *)
(* connections and any number of resets, restarts and failed binds.        *)
(*                                                                         *)
(* The listener's backlog is a queue and the initiator holds at most one   *)
(* connection, the youngest.  So when that connection has been served,     *)
(* nothing is left that could make the responder replace its key.          *)
(***************************************************************************)
EXTENDS KemExchange, TLAPS

USE KemExchangeAssumption

(* The inductive invariant *)

\* The initiator has a key once it has encapsulated one.
KeyChosen == initiator.pc = "recvAck" => initiator.key \in Keys

\* The loops hold a connection exactly while they wait for a message on it.
ConnsHeld ==
    /\ initiator.conn # NoConn <=> initiator.pc \in {"recvPk", "recvAck"}
    /\ responder.conn # NoConn <=> responder.pc = "recvCt"

\* No connection is twice in a queue.
Distinct(q) == \A m, n \in 1..Len(q) : q[m] = q[n] => m = n

\* A connection is queued once, and not while it is served.
QueuedOnce ==
    /\ Distinct(backlog)
    /\ \A n \in 1..Len(backlog) : backlog[n] # responder.conn

\* The initiator's connection is the last in the queue; when the queue is empty,
\* the responder serves this one or none.
Youngest ==
    initiator.conn # NoConn =>
        IF backlog = <<>> THEN responder.conn \in {NoConn, initiator.conn}
                          ELSE backlog[Len(backlog)] = initiator.conn

\* What the initiator's connection carries upwards is the initiator's key.
CiphertextFits ==
    /\ initiator.pc = "recvPk" => up[initiator.conn] = NoKey /\ down[initiator.conn] # "ack"
    /\ initiator.pc = "recvAck" => up[initiator.conn] \in {NoKey, initiator.key}

\* The responder serves nothing, and is about to install key k, has it, or lost it
\* in a restart.
Settled(k) ==
    /\ backlog = <<>>
    /\ responder.conn = NoConn
    /\ IF responder.pc = "install" THEN responder.key = k ELSE egressKey \in {k, NoKey}

\* From the ACK on the responder is settled on the initiator's key.
SettledAfterAck ==
    /\ initiator.pc = "recvAck" /\ down[initiator.conn] = "ack" => Settled(initiator.key)
    /\ initiator.pc = "install" => Settled(initiator.key)
    /\ initiator.pc = "sleep" => Settled(ingressKey)

Inv ==
    /\ TypeOK
    /\ KeyChosen
    /\ ConnsHeld
    /\ QueuedOnce
    /\ Youngest
    /\ CiphertextFits
    /\ SettledAfterAck

-----------------------------------------------------------------------------
(* Typing *)

\* What a loop at a point holds.
LEMMA LoopType ==
    ASSUME TypeOK
    PROVE  /\ initiator.pc \in {"recvPk", "recvAck"} => initiator.conn \in Conns
           /\ responder.pc = "recvCt" => responder.conn \in Conns
           /\ initiator.pc = "install" => initiator.key \in Keys
           /\ responder.pc = "install" => responder.key \in Keys
           /\ initiator.pc \in InitiatorPoints /\ initiator.key \in Keys \cup {NoKey}
           /\ responder.pc \in ResponderPoints /\ responder.key \in Keys \cup {NoKey}
           /\ initiator.conn \in Conns \cup {NoConn} /\ responder.conn \in Conns \cup {NoConn}
  BY DEF TypeOK

LEMMA TypeNext == ASSUME TypeOK, KeyChosen, [Next]_vars PROVE TypeOK' /\ KeyChosen'
<1> USE DEF TypeOK, KeyChosen, At, Close, Delivers, InitiatorPoints, ResponderPoints, Whole, channels
<1>1. ASSUME NEW c \in Conns, InitiatorConnect(c) PROVE TypeOK' /\ KeyChosen'
  BY <1>1 DEF InitiatorConnect
<1>2. CASE InitiatorRefused
  BY <1>2 DEF InitiatorRefused, vars
<1>3. ASSUME NEW k \in Keys, InitiatorEncapsulate(k) PROVE TypeOK' /\ KeyChosen'
  BY <1>3 DEF InitiatorEncapsulate
<1>4. CASE InitiatorAck
  BY <1>4 DEF InitiatorAck
<1>5. CASE InitiatorFails
  BY <1>5 DEF InitiatorFails
<1>6. CASE InitiatorInstall
  BY <1>6 DEF InitiatorInstall
<1>7. CASE InitiatorWake
  BY <1>7 DEF InitiatorWake
<1>8. CASE ResponderBind
  BY <1>8 DEF ResponderBind
<1>9. CASE ResponderAccept
  BY <1>9 DEF ResponderAccept
<1>10. CASE ResponderDecapsulate
  BY <1>10 DEF ResponderDecapsulate
<1>11. CASE ResponderFails
  BY <1>11 DEF ResponderFails
<1>12. CASE ResponderInstall
  BY <1>12 DEF ResponderInstall
<1>13. CASE ResponderBindFails
  BY <1>13 DEF ResponderBindFails
<1>14. ASSUME NEW c \in Conns, Reset(c) PROVE TypeOK' /\ KeyChosen'
  BY <1>14 DEF Reset
<1>15. CASE InitiatorRestart
  BY <1>15 DEF InitiatorRestart
<1>16. CASE ResponderRestart
  BY <1>16 DEF ResponderRestart
<1>17. CASE UNCHANGED vars
  BY <1>17 DEF vars
<1> QED
  BY <1>1, <1>2, <1>3, <1>4, <1>5, <1>6, <1>7, <1>8, <1>9, <1>10, <1>11, <1>12, <1>13,
     <1>14, <1>15, <1>16, <1>17 DEF Next, InitiatorStep, ResponderStep

-----------------------------------------------------------------------------
(* The steps *)

\* The part of the invariant that is not typing.
Protocol == ConnsHeld /\ QueuedOnce /\ Youngest /\ CiphertextFits /\ SettledAfterAck

\* The head of the backlog is accepted: what remains is queued once and without it,
\* and its last element stays unless nothing remains.
LEMMA BacklogTail ==
    ASSUME NEW q \in Seq(Conns), q # <<>>, Distinct(q)
    PROVE  /\ Head(q) = q[1]
           /\ Tail(q) \in Seq(Conns)
           /\ \A n \in 1..Len(Tail(q)) : Tail(q)[n] \in Conns /\ Tail(q)[n] # Head(q)
           /\ Distinct(Tail(q))
           /\ Tail(q) = <<>> => q[Len(q)] = Head(q)
           /\ Tail(q) # <<>> => Tail(q)[Len(Tail(q))] = q[Len(q)] /\ q[Len(q)] # Head(q)
<1>1. Len(q) \in Nat \ {0} /\ Head(q) = q[1]
  OBVIOUS
<1>2. /\ Tail(q) \in Seq(Conns)
      /\ Len(Tail(q)) = Len(q) - 1
      /\ \A n \in 1..(Len(q) - 1) : Tail(q)[n] = q[n + 1]
  BY <1>1
<1> DEFINE r == Tail(q)
<1> HIDE DEF r
<1>3. /\ r \in Seq(Conns)
      /\ Len(r) = Len(q) - 1
      /\ \A n \in 1..Len(r) : r[n] = q[n + 1] /\ n + 1 \in 1..Len(q)
  BY <1>1, <1>2 DEF r
<1>4. \A n \in 1..Len(r) : r[n] \in Conns /\ r[n] # q[1]
  BY <1>1, <1>3 DEF Distinct
<1>5. Distinct(r)
  BY <1>3 DEF Distinct
<1>6. r = <<>> => q[Len(q)] = q[1]
  <2>1. r = <<>> => Len(r) = 0
    OBVIOUS
  <2>2. r = <<>> => Len(q) = 1
    BY <1>1, <1>3, <2>1
  <2> QED  BY <2>2
<1>7. ASSUME r # <<>> PROVE r[Len(r)] = q[Len(q)] /\ q[Len(q)] # q[1]
  <2>1. Len(r) \in 1..Len(r)
    BY <1>3, <1>7
  <2> QED  BY <1>1, <1>3, <1>4, <2>1
<1> QED
  BY <1>1, <1>3, <1>4, <1>5, <1>6, <1>7 DEF r

LEMMA ProtocolNext == ASSUME Inv, [Next]_vars PROVE Protocol'
<1> USE DEF Inv, TypeOK, At, Close, channels, Protocol, ConnsHeld
<1>1. ASSUME NEW c \in Conns, InitiatorConnect(c) PROVE Protocol'
  BY <1>1 DEF InitiatorConnect, QueuedOnce, Distinct, Youngest, CiphertextFits,
      SettledAfterAck, Settled, InUse
<1>2. CASE InitiatorRefused
  BY <1>2 DEF InitiatorRefused, vars, QueuedOnce, Distinct, Youngest, CiphertextFits,
      SettledAfterAck, Settled
<1>3. ASSUME NEW k \in Keys, InitiatorEncapsulate(k) PROVE Protocol'
  BY <1>3 DEF InitiatorEncapsulate, QueuedOnce, Distinct, Youngest, CiphertextFits,
      SettledAfterAck, Settled
<1>4. CASE InitiatorAck
  BY <1>4 DEF InitiatorAck, QueuedOnce, Distinct, Youngest, CiphertextFits,
      SettledAfterAck, Settled
<1>5. CASE InitiatorFails
  BY <1>5 DEF InitiatorFails, QueuedOnce, Distinct, Youngest, CiphertextFits,
      SettledAfterAck, Settled
<1>6. CASE InitiatorInstall
  BY <1>6 DEF InitiatorInstall, QueuedOnce, Distinct, Youngest, CiphertextFits,
      SettledAfterAck, Settled
<1>7. CASE InitiatorWake
  BY <1>7 DEF InitiatorWake, QueuedOnce, Distinct, Youngest, CiphertextFits,
      SettledAfterAck, Settled
<1>8. CASE ResponderBind
  BY <1>8 DEF ResponderBind, QueuedOnce, Distinct, Youngest, CiphertextFits,
      SettledAfterAck, Settled
<1>9. CASE ResponderAccept
  <2> DEFINE c == backlog[1]
             r == Tail(backlog)
  <2>1. backlog \in Seq(Conns) /\ backlog # <<>> /\ Distinct(backlog)
    BY <1>9 DEF ResponderAccept, QueuedOnce
  <2>2. /\ Head(backlog) = c /\ c \in Conns
        /\ \A n \in 1..Len(r) : r[n] \in Conns /\ r[n] # c
        /\ Distinct(r)
        /\ r = <<>> => backlog[Len(backlog)] = c
        /\ r # <<>> => r[Len(r)] = backlog[Len(backlog)] /\ backlog[Len(backlog)] # c
    <3>1. c \in Conns
      BY <2>1
    <3> QED  BY <2>1, <3>1, BacklogTail
  <2>3. /\ responder.pc = "accept" /\ backlog' = r /\ initiator' = initiator
        /\ ingressKey' = ingressKey /\ egressKey' = egressKey /\ up' = up
        /\ \/ /\ responder' = [pc |-> "recvCt", conn |-> c, key |-> NoKey]
              /\ \/ down' = [down EXCEPT ![c] = "pk"]
                 \/ down' = [down EXCEPT ![c] = down[c]]
           \/ responder' = responder /\ down' = down
    BY <1>9, <2>2 DEF ResponderAccept
  <2> HIDE DEF c, r
  <2>4. QueuedOnce'
    <3>1. responder'.conn \in {c, NoConn}
      BY <2>3
    <3> QED  BY <2>2, <2>3, <3>1 DEF QueuedOnce
  <2>5. responder.conn = NoConn /\ (initiator.conn # NoConn => backlog[Len(backlog)] = initiator.conn)
    BY <2>1, <2>3 DEF Youngest
  <2>6. Youngest'
    BY <2>2, <2>3, <2>5 DEF Youngest
  <2>7. \A x \in Conns : down'[x] = "ack" => down[x] = "ack"
    BY <2>2, <2>3
  <2>8. CiphertextFits'
    BY <2>3, <2>7 DEF CiphertextFits
  <2>9. initiator.pc \notin {"install", "sleep"}
    BY <2>1 DEF SettledAfterAck, Settled
  <2>10. ~(initiator.pc = "recvAck" /\ down[initiator.conn] = "ack")
    BY <2>1 DEF SettledAfterAck, Settled
  <2>11. SettledAfterAck'
    BY <2>3, <2>7, <2>9, <2>10 DEF SettledAfterAck
  <2>12. ConnsHeld'
    BY <2>2, <2>3
  <2> QED  BY <2>4, <2>6, <2>8, <2>11, <2>12
<1>10. CASE ResponderDecapsulate
  BY <1>10 DEF ResponderDecapsulate, QueuedOnce, Distinct, Youngest, CiphertextFits,
      SettledAfterAck, Settled
<1>11. CASE ResponderFails
  BY <1>11 DEF ResponderFails, QueuedOnce, Distinct, Youngest, CiphertextFits,
      SettledAfterAck, Settled
<1>12. CASE ResponderInstall
  BY <1>12 DEF ResponderInstall, QueuedOnce, Distinct, Youngest, CiphertextFits,
      SettledAfterAck, Settled
<1>13. CASE ResponderBindFails
  BY <1>13 DEF ResponderBindFails, QueuedOnce, Distinct, Youngest, CiphertextFits,
      SettledAfterAck, Settled
<1>14. ASSUME NEW c \in Conns, Reset(c) PROVE Protocol'
  BY <1>14 DEF Reset, QueuedOnce, Distinct, Youngest, CiphertextFits,
      SettledAfterAck, Settled
<1>15. CASE InitiatorRestart
  BY <1>15 DEF InitiatorRestart, QueuedOnce, Distinct, Youngest, CiphertextFits,
      SettledAfterAck, Settled
<1>16. CASE ResponderRestart
  BY <1>16 DEF ResponderRestart, QueuedOnce, Distinct, Youngest, CiphertextFits,
      SettledAfterAck, Settled
<1>17. CASE UNCHANGED vars
  BY <1>17 DEF vars, QueuedOnce, Distinct, Youngest, CiphertextFits,
      SettledAfterAck, Settled
<1> QED
  BY <1>1, <1>2, <1>3, <1>4, <1>5, <1>6, <1>7, <1>8, <1>9, <1>10, <1>11, <1>12, <1>13,
     <1>14, <1>15, <1>16, <1>17 DEF Next, InitiatorStep, ResponderStep

-----------------------------------------------------------------------------
(* The theorems *)

LEMMA InvInit == ASSUME Init PROVE Inv
  BY DEF Init, Inv, TypeOK, KeyChosen, ConnsHeld, QueuedOnce, Distinct, Youngest, CiphertextFits,
     SettledAfterAck, Settled, At, InitiatorPoints, ResponderPoints, Whole

LEMMA InvNext == ASSUME Inv, [Next]_vars PROVE Inv'
<1>1. TypeOK' /\ KeyChosen'
  BY TypeNext DEF Inv
<1>2. Protocol'
  BY ProtocolNext
<1> QED
  BY <1>1, <1>2 DEF Inv, Protocol

\* The queue of connections stays in order, and the responder is settled on the
\* initiator's key from the ACK until the next exchange begins.
THEOREM ExchangeInvariant == Spec => []Inv
  BY InvInit, InvNext, PTL DEF Spec

\* Both loops of kem_exchange.rs only ever hold connections, keys and messages of
\* their kind; a key is installed only once it has been derived.
THEOREM ExchangeTyped == Spec => []TypeOK
<1>1. Inv => TypeOK
  BY DEF Inv
<1> QED
  BY <1>1, ExchangeInvariant, PTL

\* Once run_initiator_once has read its ACK, run_responder_loop has or is about to
\* have the same key, or none after a restart: no stale connection replaces it.
THEOREM AgreementHoldsAfterAck == Spec => []AgreementAfterAck
<1>1. ASSUME Inv PROVE AgreementAfterAck
  BY <1>1 DEF Inv, SettledAfterAck, Settled, AgreementAfterAck
<1> QED
  BY <1>1, ExchangeInvariant, PTL
=============================================================================
