------------------------------ MODULE PostGate ------------------------------
(***************************************************************************)
(* The FIPS 140-3 power-on self-test latch of rust/src/self_test.rs, the   *)
(* gate that every public entry point passes (require_post, built with the *)
(* feature fips_gate), and the continuous RNG test of rust/src/lib.rs that *)
(* drives the module into its error state.                                 *)
(*                                                                         *)
(* Any number of threads call gated operations and (re-)run POST at the    *)
(* same time.  A step is one access to shared state: a load or a store of  *)
(* the atomic POST_STATE, or taking or releasing POST_LOCK or PREV_NONCE.  *)
(* IN_POST is thread local.  Loads and stores of the one atomic are taken  *)
(* as sequentially consistent.                                             *)
(***************************************************************************)
EXTENDS Naturals

CONSTANTS
    Threads,    \* the threads of the process
    Nonces,     \* the values the RNG can draw
    MaxCalls,   \* how many calls (operations and POST runs) each thread makes
    NoThread,   \* "nobody holds the lock"
    NoNonce     \* PREV_NONCE = None

ASSUME PostGateAssumption ==
    /\ MaxCalls \in Nat
    /\ NoThread \notin Threads
    /\ NoNonce \notin Nonces

VARIABLES
    postState,  \* POST_STATE
    postLock,   \* holder of POST_LOCK
    inPost,     \* IN_POST, one flag per thread
    nonceLock,  \* holder of PREV_NONCE's mutex
    prevNonce,  \* the value PREV_NONCE protects
    pc,         \* where each thread is
    caller,     \* who called require_post: an operation ("op") or a KAT ("kat")
    nonce,      \* the nonce a thread has drawn
    calls,      \* calls each thread may still make
    \* History, read by the properties only:
    panicked,   \* the last POST run ended in a panic
    cleanCall,  \* the thread's call began with the module operational
    lateCall,   \* the thread's call began with the module in the error state
    refused,    \* the outcome of the thread's last gated call: it was refused
    stuckSeen   \* an operation has returned the stuck-generator error

latch == <<postState, postLock, inPost>>
crng == <<nonceLock, prevNonce, nonce, stuckSeen>>
thread == <<pc, caller, calls>>
history == <<panicked, cleanCall, lateCall, refused>>
vars == <<latch, crng, thread, history>>

States == {"NOT_RUN", "RUNNING", "PASSED", "FAILED"}

\* Program points, by the function they belong to.
GatePoints == {"gate", "gateReload", "gateLock", "gateLocked"}
CrngPoints == {"nonceLock", "nonceCheck", "errorLock", "errorStore", "errorReturn"}
PostPoints == {"postLock", "postCheck", "postBegin", "kats", "postPass", "postFail", "postReturn"}
Points == {"idle", "body"} \cup GatePoints \cup CrngPoints \cup PostPoints

Goto(t, from, to) == pc[t] = from /\ pc' = [pc EXCEPT ![t] = to]

Acquire(lock, t) == lock = NoThread /\ lock' = t

-----------------------------------------------------------------------------
Init ==
    /\ postState = "NOT_RUN"
    /\ postLock = NoThread
    /\ inPost = [t \in Threads |-> FALSE]
    /\ nonceLock = NoThread
    /\ prevNonce = NoNonce
    /\ nonce = [t \in Threads |-> NoNonce]
    /\ pc = [t \in Threads |-> "idle"]
    /\ caller = [t \in Threads |-> "op"]
    /\ calls = [t \in Threads |-> MaxCalls]
    /\ panicked = FALSE
    /\ cleanCall = [t \in Threads |-> FALSE]
    /\ lateCall = [t \in Threads |-> FALSE]
    /\ refused = [t \in Threads |-> FALSE]
    /\ stuckSeen = FALSE

\* A call into a gated public entry point; its first statement is require_post().
CallOperation(t) ==
    /\ calls[t] > 0
    /\ Goto(t, "idle", "gate")
    /\ calls' = [calls EXCEPT ![t] = @ - 1]
    /\ caller' = [caller EXCEPT ![t] = "op"]
    /\ cleanCall' = [cleanCall EXCEPT ![t] = (postState = "PASSED")]
    /\ lateCall' = [lateCall EXCEPT ![t] = (postState = "FAILED")]
    /\ refused' = [refused EXCEPT ![t] = FALSE]
    /\ UNCHANGED <<latch, crng, panicked>>

-----------------------------------------------------------------------------
(* require_post *)

\* The gate decision; RUNNING admits only the POST thread itself.
admit(state, in_post) == state = "PASSED" \/ (state = "RUNNING" /\ in_post)

\* require_post returns: an admitted caller goes on, a refused operation
\* returns NotOperational, and a refused KAT makes the POST run fail.
Decide(t, from, ok) ==
    /\ Goto(t, from, IF caller[t] = "op" THEN (IF ok THEN "body" ELSE "idle")
                                         ELSE (IF ok THEN "kats" ELSE "postFail"))
    /\ refused' = [refused EXCEPT ![t] = ~ok /\ caller[t] = "op"]
    /\ UNCHANGED <<inPost, crng, caller, calls, panicked, cleanCall, lateCall>>

\* On the POST thread itself the state is loaded once; elsewhere this is the
\* first of the two loads.
GateLoad(t) ==
    \/ /\ inPost[t]
       /\ Decide(t, "gate", admit(postState, TRUE))
       /\ UNCHANGED <<postState, postLock>>
    \/ /\ ~inPost[t]
       /\ Goto(t, "gate", IF postState = "RUNNING" THEN "gateLock" ELSE "gateReload")
       /\ UNCHANGED <<latch, crng, caller, calls, history>>

\* The second load, made without the lock when the first one was not RUNNING.
GateReload(t) ==
    /\ Decide(t, "gateReload", admit(postState, FALSE))
    /\ UNCHANGED <<postState, postLock>>

\* Fault: the waiter goes on without waiting for POST_LOCK.
GateLockSkipped(t) ==
    /\ Goto(t, "gateLock", "gateLocked")
    /\ UNCHANGED <<latch, crng, caller, calls, history>>

GateLock(t) ==
    /\ Goto(t, "gateLock", "gateLocked")
    /\ Acquire(postLock, t)
    /\ UNCHANGED <<postState, inPost, crng, caller, calls, history>>

GateLocked(t) ==
    /\ Decide(t, "gateLocked", admit(postState, FALSE))
    /\ postLock' = NoThread
    /\ UNCHANGED postState

-----------------------------------------------------------------------------
(* An admitted operation, generate_nonce_with_crng_check, enter_error_state *)

\* v8 operations derive their nonce and are done; v7 and streaming ones draw it.
Body(t) ==
    \/ /\ Goto(t, "body", "idle")
       /\ UNCHANGED <<latch, crng, caller, calls, history>>
    \/ /\ Goto(t, "body", "nonceLock")
       /\ \E n \in Nonces : nonce' = [nonce EXCEPT ![t] = n]
       /\ UNCHANGED <<latch, nonceLock, prevNonce, stuckSeen, caller, calls, history>>

NonceLock(t) ==
    /\ Goto(t, "nonceLock", "nonceCheck")
    /\ Acquire(nonceLock, t)
    /\ UNCHANGED <<latch, prevNonce, nonce, stuckSeen, caller, calls, history>>

\* A repeated draw enters the error state with PREV_NONCE still locked.
NonceCheck(t) ==
    /\ IF prevNonce = nonce[t]
       THEN /\ Goto(t, "nonceCheck", "errorLock")
            /\ UNCHANGED <<nonceLock, prevNonce, nonce>>
       ELSE /\ Goto(t, "nonceCheck", "idle")
            /\ prevNonce' = nonce[t]
            /\ nonceLock' = NoThread
            /\ nonce' = [nonce EXCEPT ![t] = NoNonce]
    /\ UNCHANGED <<latch, stuckSeen, caller, calls, history>>

\* Fault: enter_error_state stores without taking POST_LOCK.
ErrorStoreUnlocked(t) ==
    /\ Goto(t, "errorLock", "errorReturn")
    /\ postState' = "FAILED"
    /\ UNCHANGED <<postLock, inPost, crng, caller, calls, history>>

ErrorLock(t) ==
    /\ Goto(t, "errorLock", "errorStore")
    /\ Acquire(postLock, t)
    /\ UNCHANGED <<postState, inPost, crng, caller, calls, history>>

\* Fault: the byte stored is none of the four states.
ErrorStoreUnknown(t) ==
    /\ Goto(t, "errorStore", "errorReturn")
    /\ postState' = "ERROR"
    /\ postLock' = NoThread
    /\ UNCHANGED <<inPost, crng, caller, calls, history>>

\* The store, and the release of POST_LOCK when enter_error_state returns.
ErrorStore(t) ==
    /\ Goto(t, "errorStore", "errorReturn")
    /\ postState' = "FAILED"
    /\ postLock' = NoThread
    /\ UNCHANGED <<inPost, crng, caller, calls, history>>

ErrorReturn(t) ==
    /\ Goto(t, "errorReturn", "idle")
    /\ nonceLock' = NoThread
    /\ nonce' = [nonce EXCEPT ![t] = NoNonce]
    /\ stuckSeen' = TRUE
    /\ UNCHANGED <<latch, prevNonce, caller, calls, history>>

-----------------------------------------------------------------------------
(* run_power_on_self_tests *)

CallPost(t) ==
    /\ calls[t] > 0
    /\ Goto(t, "idle", "postLock")
    /\ calls' = [calls EXCEPT ![t] = @ - 1]
    /\ UNCHANGED <<latch, crng, caller, history>>

PostLock(t) ==
    /\ Goto(t, "postLock", "postCheck")
    /\ Acquire(postLock, t)
    /\ UNCHANGED <<postState, inPost, crng, caller, calls, history>>

\* Fault: a new run is started whatever the state is.
PostCheckSkipped(t) ==
    /\ Goto(t, "postCheck", "postBegin")
    /\ UNCHANGED <<latch, crng, caller, calls, history>>

\* FAILED is sticky: the run is refused.
PostCheck(t) ==
    /\ IF postState = "FAILED"
       THEN Goto(t, "postCheck", "idle") /\ postLock' = NoThread
       ELSE Goto(t, "postCheck", "postBegin") /\ UNCHANGED postLock
    /\ UNCHANGED <<postState, inPost, crng, caller, calls, history>>

\* Fault: IN_POST is not set on the POST thread.
PostBeginUnflagged(t) ==
    /\ Goto(t, "postBegin", "kats")
    /\ postState' = "RUNNING"
    /\ panicked' = FALSE
    /\ UNCHANGED <<postLock, inPost, crng, caller, calls, cleanCall, lateCall, refused>>

PostBegin(t) ==
    /\ Goto(t, "postBegin", "kats")
    /\ postState' = "RUNNING"
    /\ inPost' = [inPost EXCEPT ![t] = TRUE]
    /\ panicked' = FALSE
    /\ UNCHANGED <<postLock, crng, caller, calls, cleanCall, lateCall, refused>>

\* A known-answer test calls a gated entry point on the POST thread.
KatCall(t) ==
    /\ Goto(t, "kats", "gate")
    /\ caller' = [caller EXCEPT ![t] = "kat"]
    /\ UNCHANGED <<latch, crng, calls, history>>

\* The closure of checks returns Ok, or Err from any test or integrity check.
KatsReturn(t) ==
    /\ Goto(t, "kats", "postPass") \/ Goto(t, "kats", "postFail")
    /\ UNCHANGED <<latch, crng, caller, calls, history>>

\* A panicking KAT unwinds: the guards reset IN_POST and release POST_LOCK
\* (lock_post ignores the poisoning), and nothing stores an outcome.
KatPanic(t) ==
    /\ Goto(t, "kats", "idle")
    /\ inPost' = [inPost EXCEPT ![t] = FALSE]
    /\ postLock' = NoThread
    /\ panicked' = TRUE
    /\ UNCHANGED <<postState, crng, caller, calls, cleanCall, lateCall, refused>>

\* Fault: a failed run returns its error without latching it.
PostStoreOnlyPass(t) ==
    /\ \/ Goto(t, "postPass", "postReturn") /\ postState' = "PASSED"
       \/ Goto(t, "postFail", "postReturn") /\ UNCHANGED postState
    /\ UNCHANGED <<postLock, inPost, crng, caller, calls, history>>

PostStore(t) ==
    /\ \/ Goto(t, "postPass", "postReturn") /\ postState' = "PASSED"
       \/ Goto(t, "postFail", "postReturn") /\ postState' = "FAILED"
    /\ UNCHANGED <<postLock, inPost, crng, caller, calls, history>>

PostReturn(t) ==
    /\ Goto(t, "postReturn", "idle")
    /\ inPost' = [inPost EXCEPT ![t] = FALSE]
    /\ postLock' = NoThread
    /\ UNCHANGED <<postState, crng, caller, calls, history>>

-----------------------------------------------------------------------------
\* A step of a call in progress.
Work(t) ==
    \/ GateLoad(t) \/ GateReload(t) \/ GateLock(t) \/ GateLocked(t)
    \/ Body(t) \/ NonceLock(t) \/ NonceCheck(t)
    \/ ErrorLock(t) \/ ErrorStore(t) \/ ErrorReturn(t)
    \/ PostLock(t) \/ PostCheck(t) \/ PostBegin(t)
    \/ KatsReturn(t) \/ KatPanic(t) \/ PostStore(t) \/ PostReturn(t)

\* Every thread has made its calls.
Finished ==
    /\ \A t \in Threads : pc[t] = "idle" /\ calls[t] = 0
    /\ UNCHANGED vars

Next ==
    \/ \E t \in Threads : CallOperation(t) \/ CallPost(t) \/ KatCall(t) \/ Work(t)
    \/ Finished

Spec == Init /\ [][Next]_vars

\* The scheduler runs every thread that can run.  The checks of a POST run are
\* a finite straight line of calls, so they cannot go on calling for ever.
Fairness == \A t \in Threads : WF_vars(Work(t)) /\ SF_vars(KatsReturn(t))

FairSpec == Spec /\ Fairness

-----------------------------------------------------------------------------
(* Properties *)

TypeOK ==
    /\ postState \in States
    /\ postLock \in Threads \cup {NoThread}
    /\ inPost \in [Threads -> BOOLEAN]
    /\ nonceLock \in Threads \cup {NoThread}
    /\ prevNonce \in Nonces \cup {NoNonce}
    /\ nonce \in [Threads -> Nonces \cup {NoNonce}]
    /\ pc \in [Threads -> Points]
    /\ caller \in [Threads -> {"op", "kat"}]
    /\ calls \in [Threads -> Nat]
    /\ panicked \in BOOLEAN
    /\ cleanCall \in [Threads -> BOOLEAN]
    /\ lateCall \in [Threads -> BOOLEAN]
    /\ refused \in [Threads -> BOOLEAN]
    /\ stuckSeen \in BOOLEAN

\* FAILED is sticky until restart: no interleaving of POST runs and conditional
\* self-test failures ever takes the module out of the error state.
FailedIsSticky == [][postState = "FAILED" => postState' = "FAILED"]_postState

\* A gated operation called once the module is in the error state is never
\* admitted, whatever the other threads do between its loads.
LateCallRefused ==
    \A t \in Threads : lateCall[t] => pc[t] \notin {"body"} \cup CrngPoints

\* A caller that waited for POST_LOCK because POST was running finds the final
\* outcome of a run, or the state a panicked run left; never a run in progress.
WaiterSeesOutcome ==
    \A t \in Threads :
        pc[t] = "gateLocked" => postState \in {"PASSED", "FAILED"} \/ panicked

\* RUNNING means that one thread holds POST_LOCK and runs the tests with IN_POST
\* set, or that a run panicked: the state is never left behind by accident.
RunningIsOwned ==
    postState = "RUNNING" =>
        \/ panicked
        \/ \E t \in Threads : postLock = t /\ inPost[t]

\* Once an operation has reported a stuck generator the module is, and stays, in
\* the error state, even when the report raced a POST run that passed.
StuckGeneratorIsFatal == stuckSeen => postState = "FAILED"

\* Every call returns: a KAT never waits for the lock its own POST run holds, and
\* PREV_NONCE and POST_LOCK are never taken in opposite orders.
EveryCallReturns == \A t \in Threads : pc[t] # "idle" ~> pc[t] = "idle"

\* What the gate's comments promise: an operation called while the module is
\* operational is refused only when the module has failed (or a run panicked).
NoSpuriousRefusal ==
    [][\A t \in Threads :
         refused'[t] /\ ~refused[t] /\ cleanCall[t] => postState = "FAILED" \/ panicked]_vars
=============================================================================
