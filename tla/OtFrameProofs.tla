--------------------------- MODULE OtFrameProofs ---------------------------
(***************************************************************************)
(* Proofs about OtFrame for any sets of devices, keys and tasks: sequence  *)
(* numbers are unique, accepted frames are authentic and in order, and the *)
(* tunnel implements the abstract channel of OtChannel.                    *)
(***************************************************************************)
EXTENDS OtFrame, TLAPS

\* Numbered frames and blobs of the current ingress life carry numbers that the
\* counter has handed out, and no two of them carry the same one.
NumberInv ==
    /\ \A c \in Channels : sendState[c] <= MaxSeq
    /\ \A i \in IngressTasks : ingressTask[i] # NoFrame =>
         LET f == ingressTask[i]
         IN  /\ f.seq \in 1..sendState[f.chan]
             /\ \A j \in IngressTasks :
                  i # j /\ ingressTask[j] # NoFrame /\ ingressTask[j].chan = f.chan
                      => ingressTask[j].seq # f.seq
             /\ \A blob \in wire :
                  blob.life = ingressLife /\ blob.chan = f.chan => blob.seq # f.seq
    /\ \A blob \in wire :
         /\ blob.seq \in 1..MaxSeq
         /\ blob.life <= ingressLife
         /\ blob.life = ingressLife => blob.seq <= sendState[blob.chan]

\* An opened frame is one that was sealed for exactly that channel and number.
OpenedInv ==
    \A e \in EgressTasks : egressTask[e] # NoFrame =>
        \E blob \in wire : /\ blob.chan = egressTask[e].chan
                           /\ blob.seq = egressTask[e].seq
                           /\ blob.pdu = egressTask[e].pdu

\* The window's mark is the number of the last accepted frame.
WindowInv ==
    \A c \in Channels :
        recvState[c] = IF accepted[c] = <<>> THEN 0 ELSE accepted[c][Len(accepted[c])].seq

\* The inductive invariant.
IInv ==
    /\ TypeOK
    /\ NumberInv
    /\ SequenceNumbersUnique
    /\ OpenedInv
    /\ WindowInv
    /\ AcceptedInOrder
    /\ AcceptedIsAuthentic

-----------------------------------------------------------------------------
USE OtFrameAssumption

\* A fresh store is a store, in both key modes.
LEMMA FreshStoreType == \A mode \in {"kem", "psk"} : FreshStore(mode) \in Store
  BY DEF FreshStore, Store

\* load returns an entry of the store.
LEMMA LoadType == \A store \in Store, d \in Devices : Load(store, d) \in Keys \cup {NoKey}
  BY DEF Load, Store

\* Every step keeps the types.
LEMMA TypeStep == TypeOK /\ [Next]_vars => TypeOK'
<1> SUFFICES ASSUME TypeOK, [Next]_vars PROVE TypeOK'
  OBVIOUS
<1> USE DEF TypeOK, ingress, egress, lives
<1>1. CASE UNCHANGED vars
  BY <1>1 DEF vars
<1>2. ASSUME NEW i \in IngressTasks, NEW c \in Channels, NEW p \in Pdus, IngressNumber(i, c, p)
      PROVE  TypeOK'
  <2>1. sendState' \in [Channels -> Nat]
    BY <1>2 DEF IngressNumber
  <2>2. [chan |-> c, seq |-> sendState[c] + 1, pdu |-> p] \in Frames
    BY DEF Frames
  <2>3. ingressTask' \in [IngressTasks -> Frames \cup {NoFrame}]
    BY <1>2, <2>2 DEF IngressNumber
  <2> QED
    BY <1>2, <2>1, <2>3 DEF IngressNumber
<1>3. ASSUME NEW i \in IngressTasks, IngressSeal(i)
      PROVE  TypeOK'
  <2>1. ingressTask[i] \in Frames /\ ingressTask[i].chan[2] \in Devices
    BY <1>3 DEF IngressSeal, Frames, Channels
  <2>2. wire' \subseteq Blobs
    BY <1>3, <2>1, LoadType DEF IngressSeal, Blobs, Frames
  <2> QED
    BY <1>3, <2>2 DEF IngressSeal
<1>4. ASSUME NEW e \in EgressTasks, NEW blob \in wire \cup {Garbage}, NEW c \in Channels,
             NEW s \in 0..MaxSeq, EgressOpen(e, blob, c, s)
      PROVE  TypeOK'
  <2>1. CASE Load(egressKeys, c[2]) # NoKey /\ Opens(blob, Load(egressKeys, c[2]), c, s)
    <3>1. blob.pdu \in Pdus
      BY <2>1 DEF Opens, Garbage, Blobs
    <3>2. [chan |-> c, seq |-> s, pdu |-> blob.pdu] \in Frames
      BY <3>1 DEF Frames
    <3>3. egressTask' \in [EgressTasks -> Frames \cup {NoFrame}]
      BY <1>4, <2>1, <3>2 DEF EgressOpen
    <3> QED
      BY <1>4, <2>1, <3>3 DEF EgressOpen
  <2>2. CASE ~(Load(egressKeys, c[2]) # NoKey /\ Opens(blob, Load(egressKeys, c[2]), c, s))
    BY <1>4, <2>2 DEF EgressOpen
  <2> QED
    BY <2>1, <2>2
<1>5. ASSUME NEW e \in EgressTasks, EgressValidate(e)
      PROVE  TypeOK'
  <2> DEFINE f == egressTask[e]
  <2>1. f \in Frames /\ f.chan \in Channels /\ f.seq \in Nat
    BY <1>5 DEF EgressValidate, Frames
  <2>2. egressTask' \in [EgressTasks -> Frames \cup {NoFrame}]
    BY <1>5 DEF EgressValidate
  <2>3. CASE f.seq <= recvState[f.chan]
    BY <1>5, <2>1, <2>2, <2>3 DEF EgressValidate
  <2>4. CASE f.seq > recvState[f.chan]
    <3>1. recvState' \in [Channels -> Nat]
      BY <1>5, <2>1, <2>4 DEF EgressValidate
    <3>2. Append(accepted[f.chan], f) \in Seq(Frames)
      BY <2>1
    <3>3. accepted' = [accepted EXCEPT ![f.chan] = Append(accepted[f.chan], f)]
      BY <1>5, <2>1, <2>4 DEF EgressValidate
    <3>4. accepted' \in [Channels -> Seq(Frames)]
      BY <3>2, <3>3
    <3> QED
      BY <1>5, <2>1, <2>2, <2>4, <3>1, <3>4 DEF EgressValidate
  <2> QED
    BY <2>1, <2>3, <2>4
<1>6. ASSUME NEW k \in Keys, IngressInstall(k) \/ EgressInstall(k)
      PROVE  TypeOK'
  <2>1. \A store \in Store : [store EXCEPT ![Wildcard] = k] \in Store
    BY DEF Store
  <2> QED
    BY <1>6, <2>1 DEF IngressInstall, EgressInstall
<1>7. CASE IngressRestart
  <2>1. ingressLife' \in Nat
    BY <1>7 DEF IngressRestart
  <2>2. ingressKeys' \in Store
    BY <1>7, FreshStoreType DEF IngressRestart
  <2> QED
    BY <1>7, <2>1, <2>2 DEF IngressRestart
<1>8. CASE EgressRestart
  <2>1. egressLife' \in Nat
    BY <1>8 DEF EgressRestart
  <2>2. egressKeys' \in Store
    BY <1>8, FreshStoreType DEF EgressRestart
  <2>3. accepted' \in [Channels -> Seq(Frames)]
    BY <1>8 DEF EgressRestart
  <2> QED
    BY <1>8, <2>1, <2>2, <2>3 DEF EgressRestart
<1> QED
  BY <1>1, <1>2, <1>3, <1>4, <1>5, <1>6, <1>7, <1>8 DEF Next

\* TypeOK holds in every reachable state.
THEOREM TypeCorrect == Spec => []TypeOK
<1>1. Init => TypeOK
  BY FreshStoreType DEF Init, TypeOK
<1> QED
  BY <1>1, TypeStep, PTL DEF Spec

-----------------------------------------------------------------------------
\* The counter's side of the invariant: next_seq hands a number out once, so
\* sealing a numbered frame never repeats one.
LEMMA NumberStep ==
    TypeOK /\ NumberInv /\ SequenceNumbersUnique /\ [Next]_vars
        => NumberInv' /\ SequenceNumbersUnique'
<1> SUFFICES ASSUME TypeOK, NumberInv, SequenceNumbersUnique, [Next]_vars
             PROVE  NumberInv' /\ SequenceNumbersUnique'
  OBVIOUS
<1> USE DEF ingress, egress, lives
<1>1. CASE UNCHANGED <<sendState, ingressTask, wire, ingressLife>>
  BY <1>1 DEF NumberInv, SequenceNumbersUnique
<1>2. ASSUME NEW i \in IngressTasks, NEW c \in Channels, NEW p \in Pdus, IngressNumber(i, c, p)
      PROVE  NumberInv' /\ SequenceNumbersUnique'
  <2> DEFINE g == [chan |-> c, seq |-> sendState[c] + 1, pdu |-> p]
  <2>1. /\ ingressTask' = [ingressTask EXCEPT ![i] = g]
        /\ sendState' = [sendState EXCEPT ![c] = sendState[c] + 1]
        /\ sendState[c] < MaxSeq
        /\ wire' = wire /\ ingressLife' = ingressLife
    BY <1>2 DEF IngressNumber
  <2>2. g \in Frames /\ g # NoFrame /\ g.chan = c /\ g.seq = sendState[c] + 1
    BY DEF Frames, TypeOK
  <2> HIDE DEF g
  <2>3. \A d \in Channels : sendState'[d] \in Nat /\ sendState'[d] <= MaxSeq /\ sendState[d] <= sendState'[d]
    BY <2>1 DEF TypeOK, NumberInv
  <2>4. ASSUME NEW j \in IngressTasks, ingressTask[j] # NoFrame
        PROVE  ingressTask[j].chan \in Channels /\ ingressTask[j].seq \in 1..sendState[ingressTask[j].chan]
    BY <2>4 DEF TypeOK, NumberInv, Frames
  <2>5. ASSUME NEW j \in IngressTasks, ingressTask'[j] # NoFrame
        PROVE  /\ ingressTask'[j].seq \in 1..sendState'[ingressTask'[j].chan]
               /\ \A k \in IngressTasks :
                    j # k /\ ingressTask'[k] # NoFrame /\ ingressTask'[k].chan = ingressTask'[j].chan
                        => ingressTask'[k].seq # ingressTask'[j].seq
               /\ \A blob \in wire' :
                    blob.life = ingressLife' /\ blob.chan = ingressTask'[j].chan
                        => blob.seq # ingressTask'[j].seq
    <3>1. CASE j = i
      <4>1. ingressTask'[j] = g /\ sendState'[c] = sendState[c] + 1 /\ sendState[c] \in Nat
        BY <2>1, <3>1 DEF TypeOK
      <4>2. ASSUME NEW k \in IngressTasks, j # k, ingressTask'[k] # NoFrame, ingressTask'[k].chan = c
            PROVE  ingressTask'[k].seq # g.seq
        <5>1. ingressTask'[k] = ingressTask[k]
          BY <2>1, <3>1, <4>2 DEF TypeOK
        <5> QED
          BY <2>2, <2>4, <4>1, <4>2, <5>1
      <4>3. ASSUME NEW blob \in wire, blob.life = ingressLife, blob.chan = c
            PROVE  blob.seq # g.seq
        BY <2>2, <4>1, <4>3 DEF NumberInv, TypeOK, Blobs
      <4> QED
        BY <2>1, <2>2, <4>1, <4>2, <4>3
    <3>2. CASE j # i
      <4>1. ingressTask'[j] = ingressTask[j]
        BY <2>1, <3>2 DEF TypeOK
      <4>2. ingressTask[j].seq \in 1..sendState'[ingressTask[j].chan]
        BY <2>3, <2>4, <2>5, <4>1 DEF TypeOK
      <4>3. ASSUME NEW k \in IngressTasks, j # k, ingressTask'[k] # NoFrame,
                   ingressTask'[k].chan = ingressTask[j].chan
            PROVE  ingressTask'[k].seq # ingressTask[j].seq
        <5>1. CASE k = i
          <6>1. ingressTask'[k] = g /\ sendState[c] \in Nat
            BY <2>1, <5>1 DEF TypeOK
          <6> QED
            BY <2>2, <2>4, <2>5, <4>1, <4>3, <6>1
        <5>2. CASE k # i
          <6>1. ingressTask'[k] = ingressTask[k]
            BY <2>1, <5>2 DEF TypeOK
          <6> QED
            BY <2>5, <4>1, <4>3, <6>1 DEF NumberInv
        <5> QED
          BY <5>1, <5>2
      <4>4. ASSUME NEW blob \in wire, blob.life = ingressLife, blob.chan = ingressTask[j].chan
            PROVE  blob.seq # ingressTask[j].seq
        BY <2>5, <4>1, <4>4 DEF NumberInv
      <4> QED
        BY <2>1, <4>1, <4>2, <4>3, <4>4
    <3> QED
      BY <3>1, <3>2
  <2>6. ASSUME NEW blob \in wire'
        PROVE  /\ blob.seq \in 1..MaxSeq
               /\ blob.life <= ingressLife'
               /\ blob.life = ingressLife' => blob.seq <= sendState'[blob.chan]
    <3>1. blob \in wire /\ blob.chan \in Channels /\ blob.seq \in Nat
      BY <2>1 DEF TypeOK, Blobs
    <3>2. sendState[blob.chan] \in Nat
      BY <3>1 DEF TypeOK
    <3> QED
      BY <2>1, <2>3, <3>1, <3>2 DEF NumberInv
  <2> QED
    BY <2>1, <2>3, <2>5, <2>6 DEF NumberInv, SequenceNumbersUnique
<1>3. ASSUME NEW i \in IngressTasks, IngressSeal(i)
      PROVE  NumberInv' /\ SequenceNumbersUnique'
  <2> DEFINE f == ingressTask[i]
  <2>1. f # NoFrame /\ f \in Frames /\ f.chan \in Channels /\ f.seq \in Nat
    BY <1>3 DEF IngressSeal, TypeOK, Frames
  <2>2. /\ ingressTask' = [ingressTask EXCEPT ![i] = NoFrame]
        /\ sendState' = sendState /\ ingressLife' = ingressLife
    BY <1>3 DEF IngressSeal
  <2>3. \A j \in IngressTasks : ingressTask'[j] # NoFrame => j # i /\ ingressTask'[j] = ingressTask[j]
    BY <2>2 DEF TypeOK
  <2>4. ASSUME NEW blob \in wire', blob \notin wire
        PROVE  blob.chan = f.chan /\ blob.seq = f.seq /\ blob.life = ingressLife
    BY <1>3, <2>4 DEF IngressSeal
  <2>5. ASSUME NEW a \in wire', NEW b \in wire', a \notin wire, b \notin wire
        PROVE  a = b
    BY <1>3, <2>5 DEF IngressSeal
  <2>6. ASSUME NEW blob \in wire, blob.life = ingressLife, blob.chan = f.chan
        PROVE  blob.seq # f.seq
    BY <2>1, <2>6 DEF NumberInv
  <2>7. SequenceNumbersUnique'
    BY <2>4, <2>5, <2>6 DEF SequenceNumbersUnique
  <2>8. f.seq \in 1..sendState[f.chan] /\ sendState[f.chan] \in Nat /\ sendState[f.chan] <= MaxSeq
    BY <2>1 DEF NumberInv, TypeOK
  <2>9. ASSUME NEW blob \in wire'
        PROVE  /\ blob.seq \in 1..MaxSeq
               /\ blob.life <= ingressLife'
               /\ blob.life = ingressLife' => blob.seq <= sendState'[blob.chan]
    <3>1. CASE blob \in wire
      BY <2>2, <3>1 DEF NumberInv
    <3>2. CASE blob \notin wire
      BY <2>2, <2>4, <2>8, <3>2 DEF TypeOK
    <3> QED
      BY <3>1, <3>2
  <2>10. ASSUME NEW j \in IngressTasks, ingressTask'[j] # NoFrame, NEW blob \in wire',
                blob.life = ingressLife', blob.chan = ingressTask'[j].chan
         PROVE  blob.seq # ingressTask'[j].seq
    <3>1. CASE blob \in wire
      BY <2>2, <2>3, <2>10, <3>1 DEF NumberInv
    <3>2. CASE blob \notin wire
      BY <2>1, <2>3, <2>4, <2>10, <3>2 DEF NumberInv
    <3> QED
      BY <3>1, <3>2
  <2>11. ASSUME NEW j \in IngressTasks, ingressTask'[j] # NoFrame
         PROVE  /\ ingressTask'[j].seq \in 1..sendState'[ingressTask'[j].chan]
                /\ \A k \in IngressTasks :
                     j # k /\ ingressTask'[k] # NoFrame /\ ingressTask'[k].chan = ingressTask'[j].chan
                         => ingressTask'[k].seq # ingressTask'[j].seq
    BY <2>2, <2>3, <2>11 DEF NumberInv
  <2> QED
    BY <2>2, <2>7, <2>9, <2>10, <2>11 DEF NumberInv
<1>4. CASE IngressRestart
  <2>1. /\ wire' = wire /\ ingressLife' = ingressLife + 1
        /\ sendState' = [c \in Channels |-> 0]
        /\ ingressTask' = [i \in IngressTasks |-> NoFrame]
    BY <1>4 DEF IngressRestart
  <2>2. \A blob \in wire : blob.life \in Nat /\ blob.life <= ingressLife /\ ingressLife \in Nat
    BY DEF TypeOK, NumberInv, Blobs
  <2>3. \A blob \in wire : blob.life <= ingressLife + 1 /\ blob.life # ingressLife + 1
    BY <2>2
  <2> QED
    BY <2>1, <2>3 DEF NumberInv, SequenceNumbersUnique
<1>5. [Next]_vars =>
        \/ UNCHANGED <<sendState, ingressTask, wire, ingressLife>>
        \/ \E i \in IngressTasks :
             IngressSeal(i) \/ \E c \in Channels, p \in Pdus : IngressNumber(i, c, p)
        \/ IngressRestart
  BY DEF Next, vars, EgressOpen, EgressValidate, IngressInstall, EgressInstall, EgressRestart
<1> QED
  BY <1>1, <1>2, <1>3, <1>4, <1>5

-----------------------------------------------------------------------------
\* A sealed blob stays on the wire.
LEMMA WireGrows == [Next]_vars => wire \subseteq wire'
  BY DEF Next, vars, ingress, egress, lives, IngressNumber, IngressSeal, EgressOpen,
         EgressValidate, IngressInstall, EgressInstall, IngressRestart, EgressRestart

\* The egress side of the invariant.
EgressInv == OpenedInv /\ WindowInv /\ AcceptedInOrder /\ AcceptedIsAuthentic

\* What appending a frame to a channel's history does to it.
LEMMA AppendFacts ==
    ASSUME NEW s \in Seq(Frames), NEW f \in Frames
    PROVE  /\ DOMAIN s = 1..Len(s) /\ Len(s) \in Nat
           /\ DOMAIN Append(s, f) = 1..(Len(s) + 1)
           /\ Len(Append(s, f)) = Len(s) + 1
           /\ Append(s, f) # <<>>
           /\ Append(s, f)[Len(s) + 1] = f
           /\ \A n \in 1..Len(s) : Append(s, f)[n] = s[n] /\ s[n] \in Frames
<1>1. DOMAIN s = 1..Len(s) /\ Len(s) \in Nat
  OBVIOUS
<1>2. Append(s, f) \in Seq(Frames) /\ Len(Append(s, f)) = Len(s) + 1
  OBVIOUS
<1>3. DOMAIN Append(s, f) = 1..(Len(s) + 1)
  BY <1>2
<1>4. Append(s, f) # <<>>
  BY <1>1, <1>2
<1>5. Append(s, f)[Len(s) + 1] = f
  OBVIOUS
<1>6. \A n \in 1..Len(s) : Append(s, f)[n] = s[n] /\ s[n] \in Frames
  OBVIOUS
<1> QED
  BY <1>1, <1>2, <1>3, <1>4, <1>5, <1>6

\* A frame that unwrap_pdu opened and validate_recv then accepted is sealed,
\* newer than every accepted one, and becomes the window's mark.
LEMMA EgressStep == TypeOK /\ EgressInv /\ [Next]_vars => EgressInv'
<1> SUFFICES ASSUME TypeOK, EgressInv, [Next]_vars PROVE EgressInv'
  OBVIOUS
<1> USE DEF ingress, egress, lives
<1>w. wire \subseteq wire'
  BY WireGrows
<1>1. CASE UNCHANGED <<recvState, egressTask, accepted>>
  BY <1>1, <1>w DEF EgressInv, OpenedInv, WindowInv, AcceptedInOrder, AcceptedIsAuthentic
<1>2. ASSUME NEW e \in EgressTasks, NEW blob \in wire \cup {Garbage}, NEW c \in Channels,
             NEW s \in 0..MaxSeq, EgressOpen(e, blob, c, s)
      PROVE  EgressInv'
  <2>1. wire' = wire /\ recvState' = recvState /\ accepted' = accepted
    BY <1>2 DEF EgressOpen
  <2>2. OpenedInv'
    <3>1. CASE Load(egressKeys, c[2]) # NoKey /\ Opens(blob, Load(egressKeys, c[2]), c, s)
      <4>1. blob \in wire /\ blob.chan = c /\ blob.seq = s
        BY <3>1 DEF Opens, Garbage
      <4>2. egressTask' = [egressTask EXCEPT ![e] = [chan |-> c, seq |-> s, pdu |-> blob.pdu]]
        BY <1>2, <3>1 DEF EgressOpen
      <4> QED
        BY <2>1, <4>1, <4>2 DEF EgressInv, OpenedInv, TypeOK
    <3>2. CASE ~(Load(egressKeys, c[2]) # NoKey /\ Opens(blob, Load(egressKeys, c[2]), c, s))
      BY <1>2, <2>1, <3>2 DEF EgressOpen, EgressInv, OpenedInv
    <3> QED
      BY <3>1, <3>2
  <2> QED
    BY <2>1, <2>2 DEF EgressInv, WindowInv, AcceptedInOrder, AcceptedIsAuthentic
<1>3. ASSUME NEW e \in EgressTasks, EgressValidate(e)
      PROVE  EgressInv'
  <2> DEFINE f == egressTask[e]
             q == accepted[f.chan]
             r == Append(q, f)
  <2>1. /\ f # NoFrame /\ f \in Frames /\ f.chan \in Channels /\ f.seq \in Nat
        /\ q \in Seq(Frames) /\ recvState[f.chan] \in Nat
    BY <1>3 DEF EgressValidate, TypeOK, Frames
  <2>2. wire' = wire /\ egressTask' = [egressTask EXCEPT ![e] = NoFrame]
    BY <1>3 DEF EgressValidate
  <2>3. OpenedInv'
    BY <2>2 DEF EgressInv, OpenedInv, TypeOK
  <2>4. CASE f.seq <= recvState[f.chan]
    <3>1. recvState' = recvState /\ accepted' = accepted
      BY <1>3, <2>1, <2>4 DEF EgressValidate
    <3> QED
      BY <2>2, <2>3, <3>1 DEF EgressInv, WindowInv, AcceptedInOrder, AcceptedIsAuthentic
  <2>5. CASE f.seq > recvState[f.chan]
    <3>1. /\ recvState' = [recvState EXCEPT ![f.chan] = f.seq]
          /\ accepted' = [accepted EXCEPT ![f.chan] = r]
      BY <1>3, <2>1, <2>5 DEF EgressValidate
    <3>2. /\ DOMAIN q = 1..Len(q) /\ Len(q) \in Nat
          /\ DOMAIN r = 1..(Len(q) + 1) /\ Len(r) = Len(q) + 1 /\ r # <<>>
          /\ r[Len(q) + 1] = f
          /\ \A n \in 1..Len(q) : r[n] = q[n] /\ q[n] \in Frames
      BY <2>1, AppendFacts
    <3>3. \E blob \in wire : MessageOf(blob) = f
      <4>1. PICK blob \in wire : blob.chan = f.chan /\ blob.seq = f.seq /\ blob.pdu = f.pdu
        BY <2>1 DEF EgressInv, OpenedInv
      <4>2. MessageOf(blob) = f
        BY <2>1, <4>1 DEF MessageOf, Frames
      <4> QED
        BY <4>2
    <3> HIDE DEF r, q, f
    <3>4. accepted'[f.chan] = r /\ recvState'[f.chan] = f.seq
      BY <2>1, <3>1 DEF TypeOK
    <3>5. \A c \in Channels : c # f.chan => accepted'[c] = accepted[c] /\ recvState'[c] = recvState[c]
      BY <3>1 DEF TypeOK
    <3>6. WindowInv'
      BY <3>2, <3>4, <3>5 DEF EgressInv, WindowInv
    <3>7. ASSUME NEW n \in 1..Len(q) PROVE q[n].seq < f.seq
      <4>1. q # <<>> /\ q[n] \in Frames /\ q[Len(q)] \in Frames
        BY <3>2
      <4>2. recvState[f.chan] = q[Len(q)].seq
        BY <2>1, <4>1 DEF EgressInv, WindowInv, q
      <4>3. n < Len(q) => q[n].seq < q[Len(q)].seq
        BY <2>1, <3>2 DEF EgressInv, AcceptedInOrder, q
      <4>4. q[n].seq \in Nat /\ q[Len(q)].seq \in Nat
        BY <4>1 DEF Frames
      <4> QED
        BY <2>1, <2>5, <3>2, <4>2, <4>3, <4>4
    <3>8. ASSUME NEW m \in DOMAIN r, NEW n \in DOMAIN r, m < n PROVE r[m].seq < r[n].seq
      <4>1. m \in 1..Len(q)
        BY <3>2, <3>8
      <4>2. CASE n = Len(q) + 1
        BY <3>2, <3>7, <4>1, <4>2
      <4>3. CASE n # Len(q) + 1
        <5>1. n \in 1..Len(q)
          BY <3>2, <4>3
        <5>2. q[m].seq < q[n].seq
          BY <2>1, <3>2, <3>8, <4>1, <5>1 DEF EgressInv, AcceptedInOrder, q
        <5> QED
          BY <3>2, <4>1, <5>1, <5>2
      <4> QED
        BY <4>2, <4>3
    <3>9. AcceptedInOrder'
      <4> SUFFICES ASSUME NEW c \in Channels, NEW m \in DOMAIN accepted'[c], NEW n \in DOMAIN accepted'[c],
                          m < n
                   PROVE  accepted'[c][m].seq < accepted'[c][n].seq
        BY DEF AcceptedInOrder
      <4>1. CASE c = f.chan
        BY <3>4, <3>8, <4>1
      <4>2. CASE c # f.chan
        BY <3>5, <4>2 DEF EgressInv, AcceptedInOrder
      <4> QED
        BY <4>1, <4>2
    <3>10. AcceptedIsAuthentic'
      <4> SUFFICES ASSUME NEW c \in Channels, NEW n \in DOMAIN accepted'[c]
                   PROVE  /\ accepted'[c][n].chan = c
                          /\ \E blob \in wire' : MessageOf(blob) = accepted'[c][n]
        BY DEF AcceptedIsAuthentic, MessageOf
      <4>1. CASE c = f.chan
        <5>1. CASE n = Len(q) + 1
          BY <2>2, <3>2, <3>3, <3>4, <4>1, <5>1
        <5>2. CASE n # Len(q) + 1
          <6>1. n \in 1..Len(q) /\ accepted'[c][n] = q[n]
            BY <3>2, <3>4, <4>1, <5>2
          <6> QED
            BY <2>1, <2>2, <3>2, <4>1, <6>1 DEF EgressInv, AcceptedIsAuthentic, q
        <5> QED
          BY <5>1, <5>2
      <4>2. CASE c # f.chan
        BY <2>2, <3>5, <4>2 DEF EgressInv, AcceptedIsAuthentic
      <4> QED
        BY <4>1, <4>2
    <3> QED
      BY <2>3, <3>6, <3>9, <3>10 DEF EgressInv
  <2> QED
    BY <2>1, <2>4, <2>5
<1>4. CASE EgressRestart
  <2>1. /\ recvState' = [c \in Channels |-> 0]
        /\ egressTask' = [e \in EgressTasks |-> NoFrame]
        /\ accepted' = [c \in Channels |-> <<>>]
    BY <1>4 DEF EgressRestart
  <2> QED
    BY <2>1 DEF EgressInv, OpenedInv, WindowInv, AcceptedInOrder, AcceptedIsAuthentic
<1>5. \/ UNCHANGED <<recvState, egressTask, accepted>>
      \/ \E e \in EgressTasks :
           \/ EgressValidate(e)
           \/ \E blob \in wire \cup {Garbage}, c \in Channels, s \in 0..MaxSeq : EgressOpen(e, blob, c, s)
      \/ EgressRestart
  BY DEF Next, vars, IngressNumber, IngressSeal, IngressInstall, EgressInstall, IngressRestart
<1> QED
  BY <1>1, <1>2, <1>3, <1>4, <1>5

-----------------------------------------------------------------------------
\* The inductive invariant holds when the gateways start.
LEMMA InvBase == Init => IInv
<1> SUFFICES ASSUME Init PROVE IInv
  OBVIOUS
<1>1. TypeOK
  BY FreshStoreType DEF Init, TypeOK
<1>2. NumberInv /\ SequenceNumbersUnique
  BY DEF Init, NumberInv, SequenceNumbersUnique
<1>3. EgressInv
  BY DEF Init, EgressInv, OpenedInv, WindowInv, AcceptedInOrder, AcceptedIsAuthentic
<1> QED
  BY <1>1, <1>2, <1>3 DEF IInv, EgressInv

\* The inductive invariant holds in every reachable state.
LEMMA InvHolds == Spec => []IInv
<1>1. IInv /\ [Next]_vars => IInv'
  BY TypeStep, NumberStep, EgressStep DEF IInv, EgressInv
<1> QED
  BY <1>1, InvBase, PTL DEF Spec

\* next_seq never gives two frames of a channel the same number, for any number
\* of connection tasks, frames and restarts.
THEOREM UniqueNumbers == Spec => []SequenceNumbersUnique
<1>1. IInv => SequenceNumbersUnique
  BY DEF IInv
<1> QED
  BY <1>1, InvHolds, PTL

\* validate_recv accepts every channel's frames in strictly increasing order,
\* whatever connection tasks race and whatever the network repeats.
THEOREM InOrder == Spec => []AcceptedInOrder
<1>1. IInv => AcceptedInOrder
  BY DEF IInv
<1> QED
  BY <1>1, InvHolds, PTL

\* unwrap_pdu accepts only what wrap_pdu sealed for that protocol, device and
\* number, whatever keys the two gateways install and whatever headers arrive.
THEOREM Authentic == Spec => []AcceptedIsAuthentic
<1>1. IInv => AcceptedIsAuthentic
  BY DEF IInv
<1> QED
  BY <1>1, InvHolds, PTL

\* Only an authenticated number is ever the replay window's mark.
THEOREM WindowAuthentic == Spec => []WindowIsAuthentic
<1>1. IInv => WindowIsAuthentic
  <2> SUFFICES ASSUME IInv, NEW c \in Channels, recvState[c] > 0
               PROVE  \E blob \in wire : blob.chan = c /\ blob.seq = recvState[c]
    BY DEF WindowIsAuthentic
  <2> DEFINE q == accepted[c]
  <2>1. q # <<>> /\ q \in Seq(Frames) /\ recvState[c] = q[Len(q)].seq
    BY DEF IInv, TypeOK, WindowInv
  <2>2. Len(q) \in DOMAIN q
    BY <2>1
  <2>3. PICK blob \in wire : MessageOf(blob) = q[Len(q)]
    BY <2>2 DEF IInv, AcceptedIsAuthentic
  <2>4. q[Len(q)].chan = c
    BY <2>2 DEF IInv, AcceptedIsAuthentic
  <2> QED
    BY <2>1, <2>3, <2>4 DEF MessageOf
<1> QED
  BY <1>1, InvHolds, PTL

-----------------------------------------------------------------------------
\* Under the invariant, every step of the gateways is a step of the abstract
\* channel or leaves it unchanged.
LEMMA ChannelStep == IInv /\ IInv' /\ [Next]_vars => [Channel!Next]_(Channel!vars)
<1> SUFFICES ASSUME IInv, IInv', [Next]_vars PROVE [Channel!Next]_(Channel!vars)
  OBVIOUS
<1> USE DEF ingress, egress, lives
<1> DEFINE sealed == {MessageOf(blob) : blob \in wire}
<1>1. CASE UNCHANGED <<wire, accepted>>
  BY <1>1 DEF Channel!vars
<1>2. ASSUME NEW i \in IngressTasks, IngressSeal(i)
      PROVE  [Channel!Next]_(Channel!vars)
  <2>1. accepted' = accepted
    BY <1>2 DEF IngressSeal
  <2>2. ASSUME NEW blob, wire' = wire \cup {blob}
        PROVE  \E m \in Channel!Messages : Channel!Seal(m)
    <3>1. blob \in wire' /\ blob \in Blobs /\ blob.seq \in 1..MaxSeq
      BY <2>2 DEF IInv, TypeOK, NumberInv
    <3>2. MessageOf(blob) \in Channel!Messages
      BY <3>1 DEF MessageOf, Blobs, Channel!Messages
    <3>3. sealed' = sealed \cup {MessageOf(blob)}
      BY <2>2
    <3> QED
      BY <2>1, <3>2, <3>3 DEF Channel!Seal
  <2>3. wire' = wire \/ \E blob : wire' = wire \cup {blob}
    BY <1>2 DEF IngressSeal
  <2> QED
    BY <1>1, <2>1, <2>2, <2>3 DEF Channel!Next
<1>3. ASSUME NEW e \in EgressTasks, EgressValidate(e)
      PROVE  [Channel!Next]_(Channel!vars)
  <2> DEFINE f == egressTask[e]
  <2>1. /\ f # NoFrame /\ f \in Frames /\ f.chan \in Channels /\ f.seq \in Nat /\ f.pdu \in Pdus
        /\ recvState[f.chan] \in Nat /\ wire' = wire
    BY <1>3 DEF EgressValidate, IInv, TypeOK, Frames
  <2>2. CASE f.seq <= recvState[f.chan]
    <3>1. accepted' = accepted
      BY <1>3, <2>1, <2>2 DEF EgressValidate
    <3> QED
      BY <1>1, <2>1, <3>1
  <2>3. CASE f.seq > recvState[f.chan]
    <3>1. accepted' = [accepted EXCEPT ![f.chan] = Append(accepted[f.chan], f)]
      BY <1>3, <2>1, <2>3 DEF EgressValidate
    <3>2. PICK blob \in wire : blob.chan = f.chan /\ blob.seq = f.seq /\ blob.pdu = f.pdu
      BY <2>1 DEF IInv, OpenedInv
    <3>3. MessageOf(blob) = f
      BY <2>1, <3>2 DEF MessageOf, Frames
    <3>4. f \in sealed
      BY <3>3
    <3>5. f \in Channel!Messages
      BY <2>1, <3>2 DEF IInv, NumberInv, Frames, Channel!Messages
    <3>6. f.seq > Channel!LastSeq(accepted[f.chan])
      BY <2>1, <2>3 DEF IInv, WindowInv, Channel!LastSeq
    <3>7. sealed' = sealed
      BY <2>1
    <3>8. Channel!Accept(f)
      BY <3>1, <3>4, <3>6, <3>7 DEF Channel!Accept
    <3> QED
      BY <3>5, <3>8 DEF Channel!Next
  <2> QED
    BY <2>1, <2>2, <2>3
<1>4. CASE EgressRestart
  BY <1>4 DEF EgressRestart, Channel!Next, Channel!Restart
<1>5. \/ UNCHANGED <<wire, accepted>>
      \/ \E i \in IngressTasks : IngressSeal(i)
      \/ \E e \in EgressTasks : EgressValidate(e)
      \/ EgressRestart
  BY DEF Next, vars, IngressNumber, EgressOpen, IngressInstall, EgressInstall, IngressRestart
<1> QED
  BY <1>1, <1>2, <1>3, <1>4, <1>5

\* The two gateways implement the abstract channel of OtChannel.
THEOREM Refinement == Spec => ChannelSpec
<1>1. Init => Channel!Init
  BY DEF Init, Channel!Init
<1> QED
  BY <1>1, ChannelStep, InvHolds, PTL DEF Spec, ChannelSpec, Channel!Spec
============================================================================
