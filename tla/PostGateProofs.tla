--------------------------- MODULE PostGateProofs ---------------------------
(***************************************************************************)
(* Proofs, for any set of threads and any number of calls, that the latch  *)
(* of PostGate is sticky, that waiters see a final outcome, that RUNNING   *)
(* is always owned, and that a reported stuck generator is fatal.          *)
(***************************************************************************)
EXTENDS PostGate, TLAPS

\* t is a known-answer test's call into the gate.
KatAtGate(t) == pc[t] = "gate" /\ caller[t] = "kat"

\* t executes the checks of a POST run: state RUNNING, outcome not stored yet.
Testing(t) == pc[t] \in {"kats", "postPass", "postFail"} \/ KatAtGate(t)

\* The program points at which a thread holds POST_LOCK.
HoldsPostLock(t) ==
    \/ Testing(t)
    \/ pc[t] \in {"gateLocked", "errorStore", "postCheck", "postBegin", "postReturn"}

\* POST_LOCK is held exactly by the thread that is inside a critical section.
LockInv == \A t \in Threads : HoldsPostLock(t) <=> postLock = t

\* IN_POST is set exactly while the thread is between its two stores and return.
InPostInv == \A t \in Threads : inPost[t] <=> Testing(t) \/ pc[t] = "postReturn"

\* Only an operation can be past the gate or on its slow path: a KAT is
\* admitted at its single load.
CallerInv ==
    \A t \in Threads :
        pc[t] \in {"gateReload", "gateLock", "gateLocked", "body"} \cup CrngPoints
            => caller[t] = "op"

\* What the thread's position says about POST_STATE.
StateInv ==
    \A t \in Threads :
        /\ Testing(t) => postState = "RUNNING"
        /\ pc[t] = "postBegin" => postState # "FAILED"
        /\ pc[t] = "postReturn" => postState \in {"PASSED", "FAILED"}
        /\ pc[t] \in {"gateLock", "gateLocked"} => postState # "NOT_RUN"
        /\ pc[t] = "errorReturn" => postState = "FAILED"
        /\ lateCall[t] => postState = "FAILED"

\* The inductive invariant.
IInv ==
    /\ TypeOK
    /\ LockInv
    /\ InPostInv
    /\ CallerInv
    /\ StateInv
    /\ LateCallRefused
    /\ RunningIsOwned
    /\ StuckGeneratorIsFatal

-----------------------------------------------------------------------------
USE PostGateAssumption

\* Every step keeps the types.
LEMMA TypeStep == TypeOK /\ [Next]_vars => TypeOK'
<1> SUFFICES ASSUME TypeOK, [Next]_vars PROVE TypeOK'
  OBVIOUS
<1> USE DEF TypeOK, Goto, latch, crng, thread, history, States, Points, GatePoints,
            CrngPoints, PostPoints, Acquire
<1>1. CASE UNCHANGED vars
  BY <1>1 DEF vars
<1>2. ASSUME NEW t \in Threads, CallOperation(t)
      PROVE  TypeOK'
  BY <1>2 DEF CallOperation
<1>3. ASSUME NEW t \in Threads, CallPost(t)
      PROVE  TypeOK'
  BY <1>3 DEF CallPost
<1>4. ASSUME NEW t \in Threads, KatCall(t)
      PROVE  TypeOK'
  BY <1>4 DEF KatCall
<1>5. ASSUME NEW t \in Threads, GateLoad(t)
      PROVE  TypeOK'
  BY <1>5 DEF GateLoad, Decide
<1>6. ASSUME NEW t \in Threads, GateReload(t)
      PROVE  TypeOK'
  BY <1>6 DEF GateReload, Decide
<1>7. ASSUME NEW t \in Threads, GateLock(t)
      PROVE  TypeOK'
  BY <1>7 DEF GateLock
<1>8. ASSUME NEW t \in Threads, GateLocked(t)
      PROVE  TypeOK'
  BY <1>8 DEF GateLocked, Decide
<1>9. ASSUME NEW t \in Threads, Body(t)
      PROVE  TypeOK'
  BY <1>9 DEF Body
<1>10. ASSUME NEW t \in Threads, NonceLock(t)
      PROVE  TypeOK'
  BY <1>10 DEF NonceLock
<1>11. ASSUME NEW t \in Threads, NonceCheck(t)
      PROVE  TypeOK'
  BY <1>11 DEF NonceCheck
<1>12. ASSUME NEW t \in Threads, ErrorLock(t)
      PROVE  TypeOK'
  BY <1>12 DEF ErrorLock
<1>13. ASSUME NEW t \in Threads, ErrorStore(t)
      PROVE  TypeOK'
  BY <1>13 DEF ErrorStore
<1>14. ASSUME NEW t \in Threads, ErrorReturn(t)
      PROVE  TypeOK'
  BY <1>14 DEF ErrorReturn
<1>15. ASSUME NEW t \in Threads, PostLock(t)
      PROVE  TypeOK'
  BY <1>15 DEF PostLock
<1>16. ASSUME NEW t \in Threads, PostCheck(t)
      PROVE  TypeOK'
  BY <1>16 DEF PostCheck
<1>17. ASSUME NEW t \in Threads, PostBegin(t)
      PROVE  TypeOK'
  BY <1>17 DEF PostBegin
<1>18. ASSUME NEW t \in Threads, KatsReturn(t)
      PROVE  TypeOK'
  BY <1>18 DEF KatsReturn
<1>19. ASSUME NEW t \in Threads, KatPanic(t)
      PROVE  TypeOK'
  BY <1>19 DEF KatPanic
<1>20. ASSUME NEW t \in Threads, PostStore(t)
      PROVE  TypeOK'
  BY <1>20 DEF PostStore
<1>21. ASSUME NEW t \in Threads, PostReturn(t)
      PROVE  TypeOK'
  BY <1>21 DEF PostReturn
<1> QED
  BY <1>1, <1>2, <1>3, <1>4, <1>5, <1>6, <1>7, <1>8, <1>9, <1>10, <1>11, <1>12,
     <1>13, <1>14, <1>15, <1>16, <1>17, <1>18, <1>19, <1>20, <1>21
     DEF Next, Work, Finished

\* TypeOK holds in every reachable state, for every number of threads.
THEOREM TypeCorrect == Spec => []TypeOK
<1>1. Init => TypeOK
  BY DEF Init, TypeOK, States, Points
<1> QED
  BY <1>1, TypeStep, PTL DEF Spec

\* Every step keeps the inductive invariant; a state change happens only in a
\* critical section, so no other thread can be inside one.
LEMMA InvStep == IInv /\ [Next]_vars => IInv'
<1> SUFFICES ASSUME IInv, [Next]_vars PROVE IInv'
  OBVIOUS
<1> USE DEF IInv, TypeOK, Goto, Acquire, latch, crng, thread, history, CrngPoints,
            LockInv, InPostInv, CallerInv, StateInv, LateCallRefused, RunningIsOwned,
            StuckGeneratorIsFatal, HoldsPostLock, Testing, KatAtGate
<1>t. TypeOK'
  BY TypeStep
<1>1. CASE UNCHANGED vars
  BY <1>1, <1>t DEF vars
<1>2. ASSUME NEW t \in Threads, CallOperation(t)
      PROVE  IInv'
  BY <1>2, <1>t DEF CallOperation
<1>3. ASSUME NEW t \in Threads, CallPost(t)
      PROVE  IInv'
  BY <1>3, <1>t DEF CallPost
<1>4. ASSUME NEW t \in Threads, KatCall(t)
      PROVE  IInv'
  BY <1>4, <1>t DEF KatCall
<1>5. ASSUME NEW t \in Threads, GateLoad(t)
      PROVE  IInv'
  BY <1>5, <1>t DEF GateLoad, Decide, admit
<1>6. ASSUME NEW t \in Threads, GateReload(t)
      PROVE  IInv'
  BY <1>6, <1>t DEF GateReload, Decide, admit
<1>7. ASSUME NEW t \in Threads, GateLock(t)
      PROVE  IInv'
  BY <1>7, <1>t DEF GateLock
<1>8. ASSUME NEW t \in Threads, GateLocked(t)
      PROVE  IInv'
  BY <1>8, <1>t DEF GateLocked, Decide, admit
<1>9. ASSUME NEW t \in Threads, Body(t)
      PROVE  IInv'
  BY <1>9, <1>t DEF Body
<1>10. ASSUME NEW t \in Threads, NonceLock(t)
      PROVE  IInv'
  BY <1>10, <1>t DEF NonceLock
<1>11. ASSUME NEW t \in Threads, NonceCheck(t)
      PROVE  IInv'
  BY <1>11, <1>t DEF NonceCheck
<1>12. ASSUME NEW t \in Threads, ErrorLock(t)
      PROVE  IInv'
  BY <1>12, <1>t DEF ErrorLock
<1>13. ASSUME NEW t \in Threads, ErrorStore(t)
      PROVE  IInv'
  BY <1>13, <1>t DEF ErrorStore
<1>14. ASSUME NEW t \in Threads, ErrorReturn(t)
      PROVE  IInv'
  BY <1>14, <1>t DEF ErrorReturn
<1>15. ASSUME NEW t \in Threads, PostLock(t)
      PROVE  IInv'
  BY <1>15, <1>t DEF PostLock
<1>16. ASSUME NEW t \in Threads, PostCheck(t)
      PROVE  IInv'
  BY <1>16, <1>t DEF PostCheck
<1>17. ASSUME NEW t \in Threads, PostBegin(t)
      PROVE  IInv'
  BY <1>17, <1>t DEF PostBegin
<1>18. ASSUME NEW t \in Threads, KatsReturn(t)
      PROVE  IInv'
  BY <1>18, <1>t DEF KatsReturn
<1>19. ASSUME NEW t \in Threads, KatPanic(t)
      PROVE  IInv'
  BY <1>19, <1>t DEF KatPanic
<1>20. ASSUME NEW t \in Threads, PostStore(t)
      PROVE  IInv'
  BY <1>20, <1>t DEF PostStore
<1>21. ASSUME NEW t \in Threads, PostReturn(t)
      PROVE  IInv'
  BY <1>21, <1>t DEF PostReturn
<1> QED
  BY <1>1, <1>2, <1>3, <1>4, <1>5, <1>6, <1>7, <1>8, <1>9, <1>10, <1>11, <1>12,
     <1>13, <1>14, <1>15, <1>16, <1>17, <1>18, <1>19, <1>20, <1>21
     DEF Next, Work, Finished

\* The inductive invariant holds in every reachable state.
LEMMA InvHolds == Spec => []IInv
<1>1. Init => IInv
  <2> SUFFICES ASSUME Init PROVE IInv
    OBVIOUS
  <2>1. TypeOK
    BY DEF Init, TypeOK, States, Points
  <2>2. \A t \in Threads : ~Testing(t) /\ ~HoldsPostLock(t) /\ ~inPost[t] /\ ~lateCall[t]
    BY DEF Init, Testing, HoldsPostLock, KatAtGate
  <2>3. LockInv /\ InPostInv /\ CallerInv /\ StateInv
    BY <2>2 DEF Init, LockInv, InPostInv, CallerInv, StateInv, CrngPoints
  <2>4. LateCallRefused /\ RunningIsOwned /\ StuckGeneratorIsFatal
    BY <2>2 DEF Init, LateCallRefused, RunningIsOwned, StuckGeneratorIsFatal
  <2> QED
    BY <2>1, <2>3, <2>4 DEF IInv
<1> QED
  BY <1>1, InvStep, PTL DEF Spec

\* FAILED is sticky until the process restarts (the comment at self_test.rs:63):
\* neither POST nor a conditional self-test failure ever clears it.
THEOREM StickyFailure == Spec => FailedIsSticky
<1>1. IInv /\ [Next]_vars => [postState = "FAILED" => postState' = "FAILED"]_postState
  <2> SUFFICES ASSUME IInv, [Next]_vars, postState = "FAILED"
               PROVE  postState' = "FAILED"
    OBVIOUS
  <2>1. ASSUME NEW t \in Threads, PostBegin(t) \/ PostStore(t) PROVE FALSE
    BY <2>1 DEF IInv, StateInv, Testing, Goto, PostBegin, PostStore
  <2> QED
    BY <2>1 DEF Next, Work, Finished, vars, latch, CallOperation, CallPost, KatCall, GateLoad,
                GateReload, GateLock, GateLocked, Decide, Body, NonceLock, NonceCheck, ErrorLock,
                ErrorStore, ErrorReturn, PostLock, PostCheck, KatsReturn, KatPanic, PostReturn
<1> QED
  BY <1>1, InvHolds, PTL DEF Spec, FailedIsSticky

\* An operation called in the error state is never admitted by require_post.
THEOREM ErrorStateRefuses == Spec => []LateCallRefused
<1>1. IInv => LateCallRefused
  BY DEF IInv
<1> QED
  BY <1>1, InvHolds, PTL

\* A caller that blocked on POST_LOCK sees the outcome of a finished run.
THEOREM WaitersSeeOutcome == Spec => []WaiterSeesOutcome
<1>1. IInv => WaiterSeesOutcome
  <2> SUFFICES ASSUME IInv, NEW t \in Threads, pc[t] = "gateLocked", ~panicked
               PROVE  postState \in {"PASSED", "FAILED"}
    BY DEF WaiterSeesOutcome
  <2>1. postLock = t /\ ~inPost[t]
    BY DEF IInv, LockInv, HoldsPostLock, InPostInv, Testing, KatAtGate
  <2>2. postState # "RUNNING"
    BY <2>1 DEF IInv, RunningIsOwned
  <2>3. postState # "NOT_RUN"
    BY DEF IInv, StateInv
  <2> QED
    BY <2>2, <2>3 DEF IInv, TypeOK, States
<1> QED
  BY <1>1, InvHolds, PTL

\* POST_STATE is RUNNING only under a thread that holds POST_LOCK and runs the
\* tests, or after a panic.
THEOREM RunningOwned == Spec => []RunningIsOwned
<1>1. IInv => RunningIsOwned
  BY DEF IInv
<1> QED
  BY <1>1, InvHolds, PTL

\* After generate_nonce_with_crng_check has reported a stuck generator the
\* module is in the error state for good.
THEOREM StuckFatal == Spec => []StuckGeneratorIsFatal
<1>1. IInv => StuckGeneratorIsFatal
  BY DEF IInv
<1> QED
  BY <1>1, InvHolds, PTL
=============================================================================
