------------------------------ MODULE SafeStop ------------------------------
(***************************************************************************)
(* The software stop at work: SafeStateController composed with the mode   *)
(* manager, the call router, the mode-transition hooks, the stop-chain     *)
(* monitor and the behaviour-tree tick thread.                             *)
(*                                                                         *)
(* trigger() latches, runs the safe-state ladder over the outputs its rung *)
(* covers and enters FAULT, all under the controller's mutex.  Meanwhile   *)
(* operators call outputs and change modes, the tree ticks, the main loop  *)
(* follows the emergency-stop chain, the re-issue worker re-asserts safe   *)
(* values.  Each thread is given the operations it may perform (Ops).      *)
(***************************************************************************)
EXTENDS CallRouter

CONSTANTS Deployments,        \* the machines and configurations considered, by name
          Ops,                \* what each thread may do on each: OpNames
          Present,            \* the outputs each has
          Covered,            \* the outputs its planned rung drives; {} is rung none
          BeforeHookOutputs,  \* what its before_transition hooks call, by transition
          AfterHookOutputs,   \* the same for after_transition
          Losable             \* outputs whose device may become unreachable

OpNames == {"call", "mode", "stop", "clear", "tick", "chain", "reissue"}

ASSUME StopAssumption ==
    /\ Ops \in [Deployments -> [Threads -> SUBSET OpNames]]
    /\ Present \in [Deployments -> SUBSET Outputs]
    /\ Covered \in [Deployments -> SUBSET Outputs]
    /\ BeforeHookOutputs \in [Deployments -> [Modes \X Modes -> SUBSET Outputs]]
    /\ AfterHookOutputs \in [Deployments -> [Modes \X Modes -> SUBSET Outputs]]
    /\ Losable \in [Deployments -> SUBSET Outputs]

VARIABLES conf,      \* the deployment, read at start-up and never changed
          stopLock,  \* holder of SafeStateController::mutex_, or None
          task,      \* what each thread is doing
          todo,      \* outputs each thread's ladder or hook list has yet to call
          chain,     \* StopChainMonitor::current_.state
          safed,     \* outputs the ladder drove safe since the latch was engaged
          rearming,  \* threads that committed MANUAL -> AUTO, release_all() yet to run
          reasserted \* lost outputs re-asserted safe since they were lost

others == <<rearming, reasserted, conf>>
stopVars == <<stopLock, task, todo, chain, safed, rearming, reasserted, conf>>
vars == <<mode, modeLock, step, prev, req, latched, hookless,
          callStep, callKind, callDev, callOk, provLock, lost, admitted, cooling, out,
          stopLock, task, todo, chain, safed, rearming, reasserted, conf>>

callStateVars == <<callStep, callKind, callDev, callOk, provLock, lost, admitted, cooling, out>>
gateVars == <<mode, modeLock, step, prev, req, latched, hookless>>

Tasks == {"free", "tick", "ladder", "hold", "must_fault", "faulting"}

Init ==
    /\ conf \in Deployments
    /\ ModeInit
    /\ latched = FALSE
    /\ hookless = FALSE
    /\ RouterInit
    /\ stopLock = None
    /\ task = [t \in Threads |-> "free"]
    /\ todo = [t \in Threads |-> {}]
    /\ chain = "clear"
    /\ safed = {}
    /\ rearming = {}
    /\ reasserted = {}

TypeOK ==
    /\ conf \in Deployments
    /\ ModeTypeOK
    /\ RouterTypeOK
    /\ stopLock \in Threads \cup {None}
    /\ task \in [Threads -> Tasks]
    /\ todo \in [Threads -> SUBSET Outputs]
    /\ chain \in {"clear", "in_force", "unknown"}
    /\ safed \subseteq Outputs
    /\ rearming \subseteq Threads
    /\ reasserted \subseteq lost

RungNone == Covered[conf] = {}

\* Thread t is inside no call and no set_mode().
Quiet(t) == callStep[t] = "none" /\ step[t] = "idle"
Free(t, op) == task[t] = "free" /\ Quiet(t) /\ op \in Ops[conf][t]

Become(t, k) == task' = [task EXCEPT ![t] = k]

-----------------------------------------------------------------------------
\* Operators: POST /v0/call and POST /v0/mode.
OperatorCall(t, d) ==
    /\ Free(t, "call") /\ d \in Present[conf]
    /\ StartCall(t, "manual", d)
    /\ UNCHANGED <<gateVars, stopVars>>

OperatorMode(t, new) ==
    /\ Free(t, "mode")
    /\ Begin(t, new)
    /\ UNCHANGED <<callStateVars, stopVars>>

\* The tick thread: a tick starts if the mode read at the top of the loop is AUTO;
\* inside it the tree makes calls, whatever the mode has become; it ends, or
\* throws and requests FAULT.
TickStart(t) ==
    /\ Free(t, "tick")
    /\ modeLock = None /\ mode = "AUTO"
    /\ Become(t, "tick")
    /\ UNCHANGED <<gateVars, callStateVars, stopLock, todo, chain, safed, others>>

TreeCall(t, d) ==
    /\ task[t] = "tick" /\ Quiet(t) /\ d \in Present[conf]
    /\ StartCall(t, "tree", d)
    /\ UNCHANGED <<gateVars, stopVars>>

TickEnd(t) ==
    /\ task[t] = "tick" /\ Quiet(t)
    /\ \E k \in {"free", "must_fault"} : Become(t, k)
    /\ UNCHANGED <<gateVars, callStateVars, stopLock, todo, chain, safed, others>>

\* The re-issue worker re-asserts the safe state of a device that came back; it
\* takes no controller lock.
Reassert(t, d) ==
    /\ Free(t, "reissue") /\ d \in Covered[conf]
    /\ StartCall(t, "stop", d)
    /\ UNCHANGED <<gateVars, stopVars>>

-----------------------------------------------------------------------------
\* Steps of calls in progress.  A safe-state call that succeeds under the latch
\* counts its output as safe from then on.
CallStep(t) ==
    /\ CallProgress(t)
    /\ safed' = IF callStep[t] = "poll" /\ callKind[t] = "stop" /\ latched
                THEN safed \cup {callDev[t]} ELSE safed
    /\ reasserted' = IF callStep[t] = "poll" /\ callKind[t] = "stop" /\ callDev[t] \in lost
                     THEN reasserted \cup {callDev[t]} ELSE reasserted
    /\ UNCHANGED <<gateVars, stopLock, task, todo, chain, rearming, conf>>

\* Steps of set_mode() in progress, up to the before-callbacks and from the
\* re-check on; entering a hook list fetches the hooks that match the transition.
ModeGates(t) ==
    /\ HooklessGate(t) \/ EstopGate(t)
    /\ todo' = IF step'[t] = "before"
               THEN [todo EXCEPT ![t] = BeforeHookOutputs[conf][<<prev[t], req[t]>>]] ELSE todo
    /\ callOk' = [callOk EXCEPT ![t] = TRUE]
    /\ UNCHANGED <<callStep, callKind, callDev, provLock, lost, admitted, cooling, out,
                   stopLock, task, chain, safed, others>>

ModeCommit(t) ==
    /\ Commit(t) \/ HooklessGuard(t) \/ EstopGuard(t) \/ Write(t)
    /\ todo' = IF step'[t] = "after"
               THEN [todo EXCEPT ![t] = AfterHookOutputs[conf][<<prev[t], req[t]>>]] ELSE todo
    /\ rearming' = IF step'[t] = "after" /\ prev[t] = "MANUAL" /\ req[t] = "AUTO"
                   THEN rearming \cup {t} ELSE rearming
    /\ UNCHANGED <<callStateVars, stopLock, task, chain, safed, reasserted, conf>>

\* The first after-callback re-arms every lost device on MANUAL -> AUTO.
ReleaseAll(t) ==
    /\ t \in rearming
    /\ lost' = {}
    /\ reasserted' = {}
    /\ rearming' = rearming \ {t}
    /\ UNCHANGED <<gateVars, callStep, callKind, callDev, callOk, provLock, admitted, cooling,
                   out, stopLock, task, todo, chain, safed, conf>>

\* A read found the device unreachable and its loss edge was applied (DeviceLoss).
DeviceLost(d) ==
    /\ d \in Losable[conf] \ lost
    /\ lost' = lost \cup {d}
    /\ UNCHANGED <<gateVars, callStep, callKind, callDev, callOk, provLock, admitted, cooling,
                   out, stopVars>>

\* One call of a hook list.  A FAULT-entry hook the latch would refuse is skipped.
HookCall(t, d) ==
    LET k == IF req[t] = "FAULT" THEN "fault_hook" ELSE "hook"
        held == k = "fault_hook" /\ LatchRefuses(t)
    IN  /\ step[t] \in {"before", "after"} /\ callStep[t] = "none"
        /\ d \in todo[t] /\ t \notin rearming
        /\ todo' = [todo EXCEPT ![t] = @ \ {d}]
        /\ IF held THEN UNCHANGED callStateVars ELSE StartCall(t, k, d)
        /\ UNCHANGED <<gateVars, stopLock, task, chain, safed, others>>

\* A before_transition call with fail_on_error failed: the transition is vetoed.
HookVeto(t) ==
    /\ step[t] = "before" /\ callStep[t] = "none"
    /\ ~callOk[t] /\ req[t] # "FAULT"
    /\ BeforeHooks(t, FALSE)
    /\ todo' = [todo EXCEPT ![t] = {}]
    /\ UNCHANGED <<callStateVars, stopLock, task, chain, safed, others>>

HooksDone(t) ==
    /\ callStep[t] = "none" /\ todo[t] = {} /\ t \notin rearming
    /\ BeforeHooks(t, TRUE) \/ After(t)
    /\ UNCHANGED <<callStateVars, stopVars>>

-----------------------------------------------------------------------------
\* trigger(): latch, then the ladder, under the controller's mutex.
Trigger(t) ==
    /\ Free(t, "stop")
    /\ stopLock = None
    /\ stopLock' = t
    /\ latched' = TRUE
    /\ Become(t, "ladder")
    /\ todo' = [todo EXCEPT ![t] = Covered[conf]]
    /\ UNCHANGED <<modeVars, hookless, callStateVars, chain, safed, others>>

\* One call of the ladder; a failure does not stop the others.
LadderCall(t, d) ==
    /\ task[t] = "ladder" /\ callStep[t] = "none"
    /\ d \in todo[t]
    /\ todo' = [todo EXCEPT ![t] = @ \ {d}]
    /\ StartCall(t, "stop", d)
    /\ UNCHANGED <<gateVars, stopLock, task, chain, safed, others>>

\* A broken end of the ladder: the stop returns without requesting FAULT.
LadderDoneNoFault(t) ==
    /\ task[t] = "ladder" /\ callStep[t] = "none" /\ todo[t] = {}
    /\ Become(t, "free")
    /\ stopLock' = None
    /\ UNCHANGED <<gateVars, callStateVars, todo, chain, safed, others>>

\* The ladder is done; under rung none the FAULT entry's hooks are admitted.
LadderDone(t) ==
    /\ task[t] = "ladder" /\ callStep[t] = "none" /\ todo[t] = {}
    /\ Become(t, "must_fault")
    /\ admitted' = IF RungNone THEN t ELSE admitted
    /\ UNCHANGED <<gateVars, callStep, callKind, callDev, callOk, provLock, lost, cooling, out,
                   stopLock, todo, chain, safed, others>>

\* set_mode(FAULT), for trigger(), hold() and a tick that threw.
ForceFault(t) ==
    /\ task[t] = "must_fault" /\ Quiet(t)
    /\ Begin(t, "FAULT")
    /\ Become(t, "faulting")
    /\ UNCHANGED <<callStateVars, stopLock, todo, chain, safed, others>>


\* It returned; trigger() withdraws the admission and releases its mutex.
FaultDone(t) ==
    /\ task[t] = "faulting" /\ Quiet(t)
    /\ Become(t, "free")
    /\ IF stopLock = t
       THEN stopLock' = None /\ admitted' = None
       ELSE UNCHANGED <<stopLock, admitted>>
    /\ UNCHANGED <<gateVars, callStep, callKind, callDev, callOk, provLock, lost, cooling, out,
                   todo, chain, safed, others>>

-----------------------------------------------------------------------------
\* The main loop: update() records a changed stop-chain status ...
UpdateChain(t, new) ==
    /\ Free(t, "chain")
    /\ new # chain
    /\ chain' = new
    /\ Become(t, IF new = "clear" THEN "free" ELSE "hold")
    /\ UNCHANGED <<gateVars, callStateVars, stopLock, todo, safed, others>>

\* ... and hold() latches under the controller's mutex, runs no ladder and
\* requests FAULT outside it.
Hold(t) ==
    /\ task[t] = "hold"
    /\ stopLock = None
    /\ latched' = TRUE
    /\ Become(t, "must_fault")
    /\ UNCHANGED <<modeVars, hookless, callStateVars, stopLock, todo, chain, safed, others>>

\* A broken clear(): no stop-chain guard.
ClearUnguarded(t) ==
    /\ Free(t, "clear")
    /\ stopLock = None
    /\ latched' = FALSE
    /\ safed' = {}
    /\ UNCHANGED <<modeVars, hookless, callStateVars, stopLock, task, todo, chain, others>>

\* A broken clear(): it does not wait for a running trigger().
ClearUnlocked(t) ==
    /\ Free(t, "clear")
    /\ chain = "clear"
    /\ latched' = FALSE
    /\ safed' = {}
    /\ UNCHANGED <<modeVars, hookless, callStateVars, stopLock, task, todo, chain, others>>

\* clear(), refused while the stop chain is in force or unknown.
Clear(t) ==
    /\ Free(t, "clear")
    /\ stopLock = None
    /\ chain = "clear"
    /\ latched' = FALSE
    /\ safed' = {}
    /\ UNCHANGED <<modeVars, hookless, callStateVars, stopLock, task, todo, chain, others>>

Next ==
    \/ \E t \in Threads :
          \/ CallStep(t)
          \/ ModeGates(t) \/ ModeCommit(t) \/ ReleaseAll(t) \/ HookVeto(t) \/ HooksDone(t)
          \/ \E d \in Outputs : \/ OperatorCall(t, d) \/ TreeCall(t, d) \/ Reassert(t, d)
                                \/ HookCall(t, d) \/ LadderCall(t, d)
          \/ \E new \in Modes : OperatorMode(t, new)
          \/ TickStart(t) \/ TickEnd(t)
          \/ Trigger(t) \/ LadderDone(t) \/ ForceFault(t) \/ FaultDone(t)
          \/ \E new \in {"clear", "in_force", "unknown"} : UpdateChain(t, new)
          \/ Hold(t)
          \/ Clear(t)
    \/ \E d \in Outputs : DeviceLost(d) \/ (IntervalElapses(d) /\ UNCHANGED <<gateVars, stopVars>>)

Spec == Init /\ [][Next]_vars

\* What thread t does once it has started something.
Progress(t) ==
    \/ CallStep(t)
    \/ ModeGates(t) \/ ModeCommit(t) \/ ReleaseAll(t) \/ HookVeto(t) \/ HooksDone(t)
    \/ \E d \in Outputs : HookCall(t, d) \/ LadderCall(t, d)
    \/ LadderDone(t) \/ ForceFault(t) \/ FaultDone(t)
    \/ Hold(t)

\* A thread that has started something runs on, and a mutex does not starve one of
\* its waiters for ever, hence strong fairness; every provider call ends, by its
\* timeout if need be.  Nobody is obliged to start anything, and a tick may make
\* calls for as long as it likes.
Fairness == \A t \in Threads : SF_vars(Progress(t))

FairSpec == Spec /\ Fairness

-----------------------------------------------------------------------------
\* From the moment the ladder has driven an output safe until the latch is
\* cleared, nothing else drives it: not a call that was already waiting for the
\* provider lock, not the tree, not a mode hook (call_router.cpp: "without this
\* check an in-flight actuating call would land after the safe state was applied";
\* safe_state.cpp: "the ladder above is the single safe-state authority").
SafeStateHolds ==
    \A d \in safed : latched /\ out[d] = "safe"

\* While the observed stop chain is in force or unknown the latch is engaged,
\* except between the main loop's update() and the hold() it leads to; a clear()
\* cannot slip in (runtime.cpp update_stop_chain, stop_chain.cpp clear_refusal).
ChainHoldsLatch ==
    chain # "clear" /\ (\A t \in Threads : task[t] # "hold") => latched

\* FAULT-entry hooks are admitted through the latch only on the thread of a
\* running stop whose ladder planned no rung, and only while that stop runs and
\* the latch is engaged (safe_state.cpp trigger, HookAdmission).
AdmissionScoped ==
    admitted # None => stopLock = admitted /\ RungNone /\ latched

\* The bookkeeping of a stop is in order: every variable has its type, and hooks are
\* admitted only by the stop that runs (safe_state.cpp trigger, clear).
SafeStopInv == TypeOK /\ AdmissionScoped

\* Once a lost device has been re-asserted safe the tree sends it nothing until an
\* operator re-enters AUTO, not even a call that was waiting for the provider lock
\* when the device was lost (call_router.cpp, the loss check under the lock;
\* device_loss_latch.hpp).
TreeStaysOff ==
    [][ \A t \in Threads :
          callKind[t] = "tree" /\ callStep[t] = "send" /\ callStep'[t] # "send" =>
              callDev[t] \notin reasserted ]_vars


\* A pressed stop leaves AUTO, or an operator has cleared the latch and gone back
\* there since.
StopLeavesAuto ==
    stopLock # None ~> (mode # "AUTO" \/ ~latched)

=============================================================================
