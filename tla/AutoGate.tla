------------------------------ MODULE AutoGate ------------------------------
(***************************************************************************)
(* Who may be in AUTO: ModeManager composed with the two things that must  *)
(* keep a machine out of it.                                               *)
(*                                                                         *)
(*  - The refuse-hookless gate (runtime/actuation_gate.cpp).  AUTO is      *)
(*    refused while the live device inventory has actuating outputs and no *)
(*    AUTO -> FAULT hook is declared.  A provider restart may publish such *)
(*    an inventory at any moment; the restart worker then re-checks and    *)
(*    forces FAULT.                                                        *)
(*  - The software stop (SafeStateController).  AUTO is refused while its  *)
(*    latch is engaged; trigger() and hold() latch first and request FAULT *)
(*    afterwards.                                                          *)
(*                                                                         *)
(* Both checks race set_mode() calls of other threads.  The safe-state     *)
(* ladder that trigger() runs between the two does not touch the mode and  *)
(* is left to SafeStop.                                                    *)
(***************************************************************************)
EXTENDS ModeManager

CONSTANT Restarter  \* the provider-restart worker; one restart at a time

ASSUME RestarterAssumption == Restarter \in Threads

VARIABLES task,      \* what each thread is doing around set_mode()
          stopLock   \* holder of SafeStateController::mutex_, or None

vars == <<mode, modeLock, step, prev, req, latched, hookless, task, stopLock>>

Tasks == {"free", "check_mode", "evaluate", "must_fault", "faulting"}

Init ==
    /\ ModeInit
    /\ latched \in BOOLEAN      \* attach_latch_store() may restore the latch
    /\ hookless \in BOOLEAN
    /\ task = [t \in Threads |-> "free"]
    /\ stopLock = None

TypeOK ==
    /\ ModeTypeOK
    /\ task \in [Threads -> Tasks]
    /\ stopLock \in Threads \cup {None}

Become(t, k) == task' = [task EXCEPT ![t] = k]

Free(t) == task[t] = "free" /\ step[t] = "idle"

-----------------------------------------------------------------------------
\* A caller with nothing else to do asks for any mode.
Request(t, new) ==
    /\ Free(t) /\ t # Restarter
    /\ Begin(t, new)
    /\ UNCHANGED <<task, stopLock>>

\* One step of a set_mode() in progress.
Continue(t) ==
    /\ SetModeStep(t)
    /\ UNCHANGED <<task, stopLock>>

\* restart_provider() publishes the replacement's devices, which may make the
\* inventory fail the hookless gate or pass it again.
CommitDevices ==
    /\ Free(Restarter)
    /\ hookless' \in BOOLEAN
    /\ Become(Restarter, "check_mode")
    /\ UNCHANGED <<modeVars, latched, stopLock>>

\* A missing re-check after the restart (the code before #233).
CheckModeMissing ==
    /\ task[Restarter] = "check_mode"
    /\ Become(Restarter, "free")
    /\ UNCHANGED <<modeVars, latched, hookless, stopLock>>

\* enforce_hookless_gate_in_auto(): current_mode(), which waits for the mode
\* mutex ...
CheckMode ==
    /\ task[Restarter] = "check_mode"
    /\ modeLock = None
    /\ Become(Restarter, IF mode = "AUTO" THEN "evaluate" ELSE "free")
    /\ UNCHANGED <<modeVars, latched, hookless, stopLock>>

\* ... then the gate on the live registry ...
Evaluate ==
    /\ task[Restarter] = "evaluate"
    /\ Become(Restarter, IF hookless THEN "must_fault" ELSE "free")
    /\ UNCHANGED <<modeVars, latched, hookless, stopLock>>

\* ... then set_mode(FAULT), here and at the end of trigger() and hold().
ForceFault(t) ==
    /\ task[t] = "must_fault"
    /\ Begin(t, "FAULT")
    /\ Become(t, "faulting")
    /\ UNCHANGED stopLock

\* That set_mode() returned; trigger() now releases its mutex.
FaultDone(t) ==
    /\ task[t] = "faulting" /\ step[t] = "idle"
    /\ Become(t, "free")
    /\ stopLock' = IF stopLock = t THEN None ELSE stopLock
    /\ UNCHANGED <<modeVars, latched, hookless>>

\* trigger() holds its mutex from the latch to the end of the FAULT entry.
Trigger(t) ==
    /\ Free(t) /\ t # Restarter
    /\ stopLock = None
    /\ latched' = TRUE
    /\ stopLock' = t
    /\ Become(t, "must_fault")
    /\ UNCHANGED <<modeVars, hookless>>

\* hold() releases the mutex before it requests FAULT, and requests it even if
\* the latch was already engaged.
Hold(t) ==
    /\ Free(t) /\ t # Restarter
    /\ stopLock = None
    /\ latched' = TRUE
    /\ Become(t, "must_fault")
    /\ UNCHANGED <<modeVars, hookless, stopLock>>

\* clear(), when its guard agrees: the latch goes, the mode stays.
Clear(t) ==
    /\ Free(t) /\ t # Restarter
    /\ stopLock = None
    /\ latched' = FALSE
    /\ UNCHANGED <<modeVars, hookless, task, stopLock>>

Next ==
    \/ \E t \in Threads :
          \/ \E new \in Modes : Request(t, new)
          \/ Continue(t)
          \/ ForceFault(t)
          \/ FaultDone(t)
          \/ Trigger(t)
          \/ Hold(t)
          \/ Clear(t)
    \/ CommitDevices
    \/ CheckMode
    \/ Evaluate

Spec == Init /\ [][Next]_vars

\* What a thread does once it has started something.
Proceed(t) ==
    \/ Continue(t)
    \/ ForceFault(t)
    \/ FaultDone(t)
    \/ t = Restarter /\ (CheckMode \/ Evaluate)

\* A thread that has started a call runs on, and a mutex does not starve one of
\* its waiters for ever (hence strong fairness: a waiter is enabled whenever the
\* mode mutex is free).  Nobody is obliged to start a new request.
Fairness == \A t \in Threads : SF_vars(Proceed(t))

FairSpec == Spec /\ Fairness

-----------------------------------------------------------------------------
\* Thread t has a FAULT request that has not yet taken effect.
FaultPending(t) ==
    \/ task[t] = "must_fault"
    \/ task[t] = "faulting" /\ step[t] \notin {"idle", "after"}

\* While the inventory fails the hookless gate the machine is not in AUTO,
\* unless the restart that published that inventory is about to see it and force
\* FAULT (actuation_gate.cpp enforce_hookless_gate_in_auto, runtime.cpp
\* restart_provider: "either it sees this inventory and refuses AUTO, or AUTO was
\* already written and this re-check sees it").
NoUnsafeAuto ==
    mode = "AUTO" /\ hookless =>
        task[Restarter] \in {"check_mode", "evaluate"} \/ FaultPending(Restarter)

\* While the software stop's latch is engaged the machine is not in AUTO, unless
\* a stop is still on its way into FAULT (safe_state.cpp trigger, hold;
\* actuation_gate.cpp install_estop_auto_gate).
NoAutoWhileLatched ==
    mode = "AUTO" /\ latched =>
        \E t \in Threads \ {Restarter} : FaultPending(t)

\* A request for FAULT returns only after it has written FAULT or has seen the
\* machine in FAULT, whatever commits while its before-callbacks run
\* (mode_manager.hpp: "A request for FAULT always ends in FAULT").
FaultNeverRefused ==
    [][ \A t \in Threads :
          req[t] = "FAULT" /\ step[t] # "idle" /\ step'[t] = "idle" =>
              step[t] = "after" \/ mode = "FAULT" ]_vars

\* AUTO is entered only from MANUAL, and FAULT left only into MANUAL, however
\* two requests interleave (mode_manager.cpp set_mode, is_valid_transition).
RecoverThroughManual ==
    [][ /\ mode' = "AUTO" /\ mode # "AUTO" => mode = "MANUAL"
        /\ mode = "FAULT" /\ mode' # "FAULT" => mode' = "MANUAL" ]_vars

\* The after-callbacks of a transition are told the mode it really replaced
\* (mode_manager.cpp, #528), which the device-loss re-arm, the after_transition
\* hooks and the run journal all match on.
AfterSeesReplacedMode ==
    [][ \A t \in Threads :
          step[t] = "write" /\ step'[t] = "after" => prev'[t] = mode /\ mode' = req[t] ]_vars

\* A FAULT request, once made, puts the machine in FAULT
\* (mode_manager.hpp set_mode).
FaultReached ==
    (\E t \in Threads : step[t] \notin {"idle", "after"} /\ req[t] = "FAULT")
        ~> mode = "FAULT"

\* A machine in AUTO on an inventory that fails the hookless gate, or under an
\* engaged latch, leaves AUTO (or the condition is lifted).
UnsafeAutoEnds ==
    mode = "AUTO" /\ (hookless \/ latched) ~> (mode # "AUTO" \/ ~(hookless \/ latched))

-----------------------------------------------------------------------------
(* The inductive invariant behind the safety properties above.             *)

\* The mode mutex is held exactly by a thread between its re-check and its
\* write (mode_manager.cpp set_mode, second section).
LockHeldByCommitter ==
    \A t \in Threads : step[t] \in LockedSteps <=> modeLock = t

\* What the re-check established stays true until the write, because the mutex
\* is held: the mode replaced is the one read, by a legal transition.
CommitStillValid ==
    \A t \in Threads :
        step[t] \in LockedSteps => prev[t] = mode /\ ValidTransition(mode, req[t])

\* A thread that must force FAULT does nothing else, and only the restart worker
\* re-checks the inventory.
TasksInOrder ==
    \A t \in Threads :
        /\ task[t] \in {"check_mode", "evaluate", "must_fault"} => step[t] = "idle"
        /\ task[t] \in {"check_mode", "evaluate"} => t = Restarter
        /\ task[t] = "faulting" /\ step[t] # "idle" => req[t] = "FAULT"
        /\ task[t] = "free" /\ t = Restarter => step[t] = "idle"

\* An AUTO entry that passed the hookless guard holds the mutex, so a restart that
\* then publishes a hookless inventory has not read the mode yet.
HooklessWindow ==
    \A t \in Threads :
        hookless /\ step[t] \in {"estop_guard", "write"} /\ req[t] = "AUTO" =>
            task[Restarter] = "check_mode"

\* An AUTO entry that passed the latch guard holds the mutex, so a stop that then
\* latches has not committed FAULT yet.
LatchWindow ==
    \A t \in Threads :
        latched /\ step[t] = "write" /\ req[t] = "AUTO" =>
            \E s \in Threads \ {Restarter} : FaultPending(s)

\* The parts together are inductive: every step of every thread keeps them
\* (mode_manager.cpp set_mode, actuation_gate.cpp, safe_state.cpp trigger/hold).
AutoGateInv ==
    /\ TypeOK
    /\ LockHeldByCommitter
    /\ CommitStillValid
    /\ TasksInOrder
    /\ HooklessWindow
    /\ LatchWindow
    /\ NoUnsafeAuto
    /\ NoAutoWhileLatched

=============================================================================
