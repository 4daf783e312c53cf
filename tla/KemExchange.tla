----------------------------- MODULE KemExchange -----------------------------
(***************************************************************************)
(* Key establishment between the two gateways (rust/src/kem_exchange.rs):  *)
(* run_initiator_loop on the ingress and run_responder_loop on the egress, *)
(* each replacing the wildcard entry of its SessionKeyStore.               *)
(*                                                                         *)
(* The two loops share nothing but TCP connections.  A closed end is seen  *)
(* by its peer after the data already sent; a connection the network       *)
(* resets may lose what is in flight, and a write to it may fail or        *)
(* succeed into the void.  Either gateway process may restart.  FrodoKEM   *)
(* is ideal: decapsulation returns the key that encapsulation chose.  The  *)
(* five-second pauses after an error have no effect but delay.             *)
(***************************************************************************)
EXTENDS Naturals, Sequences

CONSTANTS
    Keys,           \* v8 session keys
    NoKey,          \* no key
    Conns,          \* bound: TCP connections that exist at one time
    NoConn,         \* no connection
    Rekeys,         \* kem_rekey_interval_secs > 0
    MaxFaults       \* bound: resets, restarts and failed binds

ASSUME KemExchangeAssumption ==
    /\ NoKey \notin Keys
    /\ NoConn \notin Conns
    /\ Rekeys \in BOOLEAN
    /\ MaxFaults \in Nat

VARIABLES
    initiator,      \* run_initiator_loop: where it is, its stream, its key
    responder,      \* run_responder_loop: the same
    ingressKey,     \* the wildcard entry of the ingress SessionKeyStore
    egressKey,      \* the wildcard entry of the egress SessionKeyStore
    backlog,        \* connections the responder has not accepted yet
    link,           \* per connection, what is still up: its ends, the network
    down,           \* per connection, the unread message to the initiator
    up,             \* per connection, the unread ciphertext to the responder
    faults          \* history: faults so far

channels == <<link, down, up>>
vars == <<initiator, responder, ingressKey, egressKey, backlog, channels, faults>>

InitiatorPoints == {"connect", "recvPk", "recvAck", "install", "sleep"}
ResponderPoints == {"bind", "stopped", "accept", "recvCt", "install"}
Whole == {"initiator", "responder", "net"}

-----------------------------------------------------------------------------
(* Helpers *)

At(point) == [pc |-> point, conn |-> NoConn, key |-> NoKey]

\* What run_initiator_once and run_responder_once still hold of a connection.
InUse(c) == c \in {initiator.conn, responder.conn} \/ \E n \in DOMAIN backlog : backlog[n] = c

\* The keys of the exchanges whose traces are still somewhere.
LiveKeys ==
    {ingressKey, egressKey, initiator.key, responder.key} \cup {up[c] : c \in Conns}

\* One end drops its stream.
Close(c, end) == link' = [link EXCEPT ![c] = @ \ {end}]

\* Whether bytes written now still arrive.
Delivers(c, peer) == {peer, "net"} \subseteq link[c]

\* Whether a write may report an error.
WriteFails(c) == link[c] # Whole

\* Fault: the end of the stream is taken for "nothing yet".
ReadFailsOnReset(c, peer, empty) == "net" \notin link[c]

\* Whether read_exact reports an error: a reset, or the end of the stream.
ReadFails(c, peer, empty) == "net" \notin link[c] \/ (peer \notin link[c] /\ empty)

-----------------------------------------------------------------------------
Init ==
    /\ initiator = At("connect")
    /\ responder = At("bind")
    /\ ingressKey = NoKey
    /\ egressKey = NoKey
    /\ backlog = <<>>
    /\ link = [c \in Conns |-> {}]
    /\ down = [c \in Conns |-> "none"]
    /\ up = [c \in Conns |-> NoKey]
    /\ faults = 0

(* run_initiator_loop, run_initiator_once *)

InitiatorConnect(c) ==
    /\ initiator.pc = "connect"
    /\ responder.pc \notin {"bind", "stopped"}
    /\ ~InUse(c)
    /\ initiator' = [pc |-> "recvPk", conn |-> c, key |-> NoKey]
    /\ backlog' = Append(backlog, c)
    /\ link' = [link EXCEPT ![c] = Whole]
    /\ down' = [down EXCEPT ![c] = "none"]
    /\ up' = [up EXCEPT ![c] = NoKey]
    /\ UNCHANGED <<responder, ingressKey, egressKey, faults>>

\* No listener: the connect fails and is retried.
InitiatorRefused ==
    /\ initiator.pc = "connect"
    /\ responder.pc \in {"bind", "stopped"}
    /\ UNCHANGED vars

\* Fault: the key is installed as soon as the ciphertext is sent.
InitiatorEncapsulateEager(k) ==
    LET c == initiator.conn
    IN  /\ initiator.pc = "recvPk"
        /\ down[c] = "pk"
        /\ k \notin LiveKeys
        /\ down' = [down EXCEPT ![c] = "none"]
        /\ up' = [up EXCEPT ![c] = IF Delivers(c, "responder") THEN k ELSE @]
        /\ initiator' = [pc |-> "install", conn |-> NoConn, key |-> k]
        /\ Close(c, "initiator")
        /\ UNCHANGED <<responder, ingressKey, egressKey, backlog, faults>>

\* The public key is read, a fresh key is encapsulated, the ciphertext sent.
InitiatorEncapsulate(k) ==
    LET c == initiator.conn
    IN  /\ initiator.pc = "recvPk"
        /\ down[c] = "pk"
        /\ k \notin LiveKeys
        /\ down' = [down EXCEPT ![c] = "none"]
        /\ up' = [up EXCEPT ![c] = IF Delivers(c, "responder") THEN k ELSE @]
        /\ initiator' = [pc |-> "recvAck", conn |-> c, key |-> k]
        /\ UNCHANGED <<responder, ingressKey, egressKey, backlog, link, faults>>

\* The ACK is read; the function returns the key and its stream is dropped.
InitiatorAck ==
    LET c == initiator.conn
    IN  /\ initiator.pc = "recvAck"
        /\ down[c] = "ack"
        /\ down' = [down EXCEPT ![c] = "none"]
        /\ initiator' = [pc |-> "install", conn |-> NoConn, key |-> initiator.key]
        /\ Close(c, "initiator")
        /\ UNCHANGED <<responder, ingressKey, egressKey, backlog, up, faults>>

\* A read or the ciphertext write fails: the exchange is abandoned and retried.
InitiatorFails ==
    LET c == initiator.conn
    IN  /\ initiator.pc \in {"recvPk", "recvAck"}
        /\ \/ ReadFails(c, "responder", down[c] = "none")
           \/ initiator.pc = "recvPk" /\ down[c] = "pk" /\ WriteFails(c)
        /\ initiator' = At("connect")
        /\ Close(c, "initiator")
        /\ UNCHANGED <<responder, ingressKey, egressKey, backlog, down, up, faults>>

\* store.insert under the wildcard, then the pause until the next re-key.
InitiatorInstall ==
    /\ initiator.pc = "install"
    /\ ingressKey' = initiator.key
    /\ initiator' = At("sleep")
    /\ UNCHANGED <<responder, egressKey, backlog, channels, faults>>

\* Without an interval the pause is u64::MAX / 2 seconds.
InitiatorWake ==
    /\ initiator.pc = "sleep"
    /\ Rekeys
    /\ initiator' = At("connect")
    /\ UNCHANGED <<responder, ingressKey, egressKey, backlog, channels, faults>>

(* run_responder_loop, run_responder_once *)

ResponderBind ==
    /\ responder.pc = "bind"
    /\ responder' = At("accept")
    /\ UNCHANGED <<initiator, ingressKey, egressKey, backlog, channels, faults>>

\* The loop gives up for good when it cannot bind.
ResponderBindFails ==
    /\ responder.pc = "bind"
    /\ faults < MaxFaults
    /\ faults' = faults + 1
    /\ responder' = At("stopped")
    /\ UNCHANGED <<initiator, ingressKey, egressKey, backlog, channels>>

\* The oldest connection is accepted; a fresh public key is sent, or fails to be.
ResponderAccept ==
    LET c == Head(backlog)
    IN  /\ responder.pc = "accept"
        /\ backlog # <<>>
        /\ backlog' = Tail(backlog)
        /\ \/ /\ responder' = [pc |-> "recvCt", conn |-> c, key |-> NoKey]
              /\ down' = [down EXCEPT ![c] = IF Delivers(c, "initiator") THEN "pk" ELSE @]
              /\ UNCHANGED link
           \/ /\ WriteFails(c)
              /\ Close(c, "responder")
              /\ UNCHANGED <<responder, down>>
        /\ UNCHANGED <<initiator, ingressKey, egressKey, up, faults>>

\* The ciphertext is decapsulated and acknowledged.  A failed acknowledgement
\* loses the key; one that cannot arrive any more does not.
ResponderDecapsulate ==
    LET c == responder.conn
    IN  /\ responder.pc = "recvCt"
        /\ up[c] # NoKey
        /\ up' = [up EXCEPT ![c] = NoKey]
        /\ Close(c, "responder")
        /\ \/ /\ responder' = [pc |-> "install", conn |-> NoConn, key |-> up[c]]
              /\ down' = [down EXCEPT ![c] = IF Delivers(c, "initiator") THEN "ack" ELSE @]
           \/ /\ WriteFails(c)
              /\ responder' = At("accept")
              /\ UNCHANGED down
        /\ UNCHANGED <<initiator, ingressKey, egressKey, backlog, faults>>

ResponderFails ==
    LET c == responder.conn
    IN  /\ responder.pc = "recvCt"
        /\ ReadFails(c, "initiator", up[c] = NoKey)
        /\ responder' = At("accept")
        /\ Close(c, "responder")
        /\ UNCHANGED <<initiator, ingressKey, egressKey, backlog, down, up, faults>>

ResponderInstall ==
    /\ responder.pc = "install"
    /\ egressKey' = responder.key
    /\ responder' = At("accept")
    /\ UNCHANGED <<initiator, ingressKey, backlog, channels, faults>>

(* The environment *)

\* The network resets a connection.
Reset(c) ==
    /\ faults < MaxFaults
    /\ InUse(c)
    /\ "net" \in link[c]
    /\ faults' = faults + 1
    /\ Close(c, "net")
    /\ UNCHANGED <<initiator, responder, ingressKey, egressKey, backlog, down, up>>

\* The ingress process restarts with an empty SessionKeyStore.
InitiatorRestart ==
    /\ faults < MaxFaults
    /\ faults' = faults + 1
    /\ initiator' = At("connect")
    /\ ingressKey' = NoKey
    /\ link' = [c \in Conns |-> IF c = initiator.conn THEN link[c] \ {"initiator"} ELSE link[c]]
    /\ UNCHANGED <<responder, egressKey, backlog, down, up>>

\* The egress process restarts; its kernel closes every connection it had.
ResponderRestart ==
    /\ faults < MaxFaults
    /\ faults' = faults + 1
    /\ responder' = At("bind")
    /\ egressKey' = NoKey
    /\ backlog' = <<>>
    /\ link' = [c \in Conns |-> link[c] \ {"responder"}]
    /\ UNCHANGED <<initiator, ingressKey, down, up>>

-----------------------------------------------------------------------------
InitiatorStep ==
    \/ \E c \in Conns : InitiatorConnect(c)
    \/ InitiatorRefused
    \/ \E k \in Keys : InitiatorEncapsulate(k)
    \/ InitiatorAck
    \/ InitiatorFails
    \/ InitiatorInstall
    \/ InitiatorWake

ResponderStep ==
    \/ ResponderBind
    \/ ResponderAccept
    \/ ResponderDecapsulate
    \/ ResponderFails
    \/ ResponderInstall

Next ==
    \/ InitiatorStep
    \/ ResponderStep
    \/ ResponderBindFails
    \/ \E c \in Conns : Reset(c)
    \/ InitiatorRestart
    \/ ResponderRestart

Spec == Init /\ [][Next]_vars

\* Both loops are tasks the runtime schedules, woken by their sockets and timers.
FairSpec == Spec /\ WF_vars(InitiatorStep) /\ WF_vars(ResponderStep)

-----------------------------------------------------------------------------
(* Properties *)

TypeOK ==
    /\ initiator \in [pc : InitiatorPoints, conn : Conns \cup {NoConn}, key : Keys \cup {NoKey}]
    /\ responder \in [pc : ResponderPoints, conn : Conns \cup {NoConn}, key : Keys \cup {NoKey}]
    /\ ingressKey \in Keys \cup {NoKey}
    /\ egressKey \in Keys \cup {NoKey}
    /\ backlog \in Seq(Conns)
    /\ link \in [Conns -> SUBSET Whole]
    /\ down \in [Conns -> {"none", "pk", "ack"}]
    /\ up \in [Conns -> Keys \cup {NoKey}]
    /\ faults \in Nat
    /\ \A loop \in {initiator, responder} :
         /\ loop.pc \in {"recvPk", "recvAck", "recvCt"} => loop.conn \in Conns
         /\ loop.pc = "install" => loop.key \in Keys

\* Once the ingress has its ACK, the key it is about to use or uses is the one
\* the egress has or holds ready to install, unless the egress has restarted and
\* has none.  No abandoned exchange, still queued or half-served, replaces it.
AgreementAfterAck ==
    \A k \in Keys :
        \/ initiator.pc = "install" /\ initiator.key = k
        \/ initiator.pc = "sleep" /\ ingressKey = k
        => egressKey \in {k, NoKey} \/ (responder.pc = "install" /\ responder.key = k)

Agreed == ingressKey # NoKey /\ ingressKey = egressKey

\* With re-keying on and finitely many faults the gateways agree again and
\* again: no lost message, stale connection or restart leaves both waiting.
\* Only a responder that could not bind its port never recovers.
KeysAgreeAgain == <>[](responder.pc = "stopped") \/ []<>Agreed
=============================================================================
