-------------------------- MODULE AutoGate_proofs --------------------------
(***************************************************************************)
(* Proofs about AutoGate for any set of threads.  AutoGateInv is inductive; *)
(* the two AUTO invariants and the action properties follow from it.       *)
(***************************************************************************)
EXTENDS AutoGate, TLAPS

\* The atomic steps of set_mode(), by the state they leave behind: what the
\* invariant's proof needs of all of them.
LEMMA BeginFacts ==
    ASSUME AutoGateInv, NEW t \in Threads, NEW new \in Modes, Begin(t, new)
    PROVE  /\ modeLock = None
           /\ step[t] = "idle"
           /\ mode' = mode /\ modeLock' = modeLock
           /\ latched' = latched /\ hookless' = hookless
           /\ ModeTypeOK'
           /\ \A s \in Threads \ {t} : /\ step'[s] = step[s]
                                       /\ prev'[s] = prev[s]
                                       /\ req'[s] = req[s]
           /\ \/ step'[t] = "idle" /\ (new = "FAULT" => mode = "FAULT")
              \/ step'[t] = "hookless_gate" /\ req'[t] = new
  BY DEF AutoGateInv, TypeOK, ModeTypeOK, Begin, Return, ValidTransition, Modes, Steps

\* Type correctness of every step.
LEMMA TypeStep ==
    ASSUME AutoGateInv, [Next]_vars
    PROVE  TypeOK'
  <1> USE DEF AutoGateInv, TypeOK
  <1>1. ASSUME NEW t \in Threads, Continue(t) PROVE TypeOK'
    BY <1>1 DEF Continue, SetModeStep, HooklessGate, EstopGate, BeforeHooks, Commit,
       HooklessGuard, EstopGuard, Write, After, Return, Goto, GotoFrom, ModeTypeOK, Modes, Steps
  <1>2. ASSUME NEW t \in Threads, NEW new \in Modes, Request(t, new) PROVE TypeOK'
    BY <1>2, BeginFacts DEF Request
  <1>3. ASSUME NEW t \in Threads, ForceFault(t) PROVE TypeOK'
    BY <1>3, BeginFacts DEF ForceFault, Become, Tasks, Modes
  <1>4. ASSUME NEW t \in Threads, FaultDone(t) \/ Trigger(t) \/ Hold(t) \/ Clear(t) PROVE TypeOK'
    BY <1>4 DEF FaultDone, Trigger, Hold, Clear, Become, Tasks, ModeTypeOK, modeVars
  <1>5. CASE CommitDevices \/ CheckMode \/ Evaluate
    BY <1>5, RestarterAssumption DEF CommitDevices, CheckMode, Evaluate, Become, Tasks, ModeTypeOK, modeVars
  <1>6. CASE UNCHANGED vars
    BY <1>6 DEF vars, ModeTypeOK
  <1> QED BY <1>1, <1>2, <1>3, <1>4, <1>5, <1>6 DEF Next

\* A step of a set_mode() in progress.  The thread holds or does not hold the mode
\* mutex as LockHeldByCommitter says, and only its own entries change.
LEMMA ContinueStep ==
    ASSUME AutoGateInv, NEW t \in Threads, Continue(t), TypeOK'
    PROVE  AutoGateInv'
  <1> USE NoneAssumption DEF AutoGateInv, TypeOK, ModeTypeOK, Continue
  <1>1. CASE HooklessGate(t) \/ EstopGate(t) \/ \E pass \in BOOLEAN : BeforeHooks(t, pass)
    <2> USE <1>1 DEF HooklessGate, EstopGate, BeforeHooks, HooklessRefuses, EstopRefuses, Return, Goto
    <2>1. LockHeldByCommitter' /\ CommitStillValid'
      BY DEF LockHeldByCommitter, CommitStillValid, LockedSteps
    <2>2. TasksInOrder'
      BY DEF TasksInOrder
    <2>3. HooklessWindow' /\ LatchWindow'
      BY DEF HooklessWindow, LatchWindow, FaultPending, TasksInOrder
    <2>4. NoUnsafeAuto' /\ NoAutoWhileLatched'
      BY RestarterAssumption DEF NoUnsafeAuto, NoAutoWhileLatched, FaultPending, TasksInOrder
    <2> QED BY <2>1, <2>2, <2>3, <2>4
  <1>2. CASE Commit(t)
    <2> USE <1>2 DEF Commit, Return, GotoFrom
    <2>1. LockHeldByCommitter'
      BY DEF LockHeldByCommitter, LockedSteps
    <2>2. CommitStillValid'
      BY DEF CommitStillValid, LockHeldByCommitter, LockedSteps, ValidTransition
    <2>3. TasksInOrder'
      BY DEF TasksInOrder
    <2>4. HooklessWindow' /\ LatchWindow'
      BY DEF HooklessWindow, LatchWindow, FaultPending, TasksInOrder, LockHeldByCommitter, LockedSteps
    <2>5. NoUnsafeAuto' /\ NoAutoWhileLatched'
      BY RestarterAssumption
         DEF NoUnsafeAuto, NoAutoWhileLatched, FaultPending, TasksInOrder, ValidTransition
    <2> QED BY <2>1, <2>2, <2>3, <2>4, <2>5
  <1>3. CASE HooklessGuard(t) \/ EstopGuard(t)
    <2> USE <1>3 DEF HooklessGuard, EstopGuard, HooklessRefuses, EstopRefuses, Return, Goto
    <2>1. LockHeldByCommitter' /\ CommitStillValid'
      BY DEF LockHeldByCommitter, CommitStillValid, LockedSteps
    <2>2. TasksInOrder'
      BY DEF TasksInOrder
    <2>3. HooklessWindow' /\ LatchWindow'
      BY DEF HooklessWindow, LatchWindow, FaultPending, TasksInOrder
    <2>4. NoUnsafeAuto' /\ NoAutoWhileLatched'
      BY RestarterAssumption DEF NoUnsafeAuto, NoAutoWhileLatched, FaultPending, TasksInOrder
    <2> QED BY <2>1, <2>2, <2>3, <2>4
  <1>4. CASE Write(t)
    <2> USE <1>4 DEF Write, Goto
    <2>1. LockHeldByCommitter' /\ CommitStillValid'
      BY DEF LockHeldByCommitter, CommitStillValid, LockedSteps
    <2>2. TasksInOrder'
      BY DEF TasksInOrder
    <2>3. HooklessWindow' /\ LatchWindow'
      BY DEF HooklessWindow, LatchWindow, LockHeldByCommitter, LockedSteps
    <2>4. NoUnsafeAuto' /\ NoAutoWhileLatched'
      BY RestarterAssumption
         DEF NoUnsafeAuto, NoAutoWhileLatched, HooklessWindow, LatchWindow, FaultPending, TasksInOrder
    <2> QED BY <2>1, <2>2, <2>3, <2>4
  <1>5. CASE After(t)
    <2> USE <1>5 DEF After, Return
    <2>1. LockHeldByCommitter' /\ CommitStillValid'
      BY DEF LockHeldByCommitter, CommitStillValid, LockedSteps
    <2>2. TasksInOrder'
      BY DEF TasksInOrder
    <2>3. HooklessWindow' /\ LatchWindow'
      BY DEF HooklessWindow, LatchWindow, FaultPending
    <2>4. NoUnsafeAuto' /\ NoAutoWhileLatched'
      BY RestarterAssumption DEF NoUnsafeAuto, NoAutoWhileLatched, FaultPending
    <2> QED BY <2>1, <2>2, <2>3, <2>4
  <1> QED BY <1>1, <1>2, <1>3, <1>4, <1>5 DEF SetModeStep

\* The steps that start a set_mode() call.
LEMMA StartStep ==
    ASSUME AutoGateInv, NEW t \in Threads, TypeOK',
           (\E new \in Modes : Request(t, new)) \/ ForceFault(t)
    PROVE  AutoGateInv'
  <1> USE NoneAssumption, RestarterAssumption DEF AutoGateInv, TypeOK, ModeTypeOK
  <1>1. ASSUME NEW new \in Modes, Request(t, new) PROVE AutoGateInv'
    <2> USE <1>1, BeginFacts DEF Request, Free
    <2>1. LockHeldByCommitter' /\ CommitStillValid'
      BY DEF LockHeldByCommitter, CommitStillValid, LockedSteps
    <2>2. TasksInOrder'
      BY DEF TasksInOrder
    <2>3. HooklessWindow' /\ LatchWindow'
      BY DEF HooklessWindow, LatchWindow, FaultPending
    <2>4. NoUnsafeAuto' /\ NoAutoWhileLatched'
      BY DEF NoUnsafeAuto, NoAutoWhileLatched, FaultPending
    <2> QED BY <2>1, <2>2, <2>3, <2>4
  <1>2. CASE ForceFault(t)
    <2>0. /\ Begin(t, "FAULT") /\ "FAULT" \in Modes
          /\ task[t] = "must_fault" /\ task' = [task EXCEPT ![t] = "faulting"]
      BY <1>2 DEF ForceFault, Become, Modes
    <2> USE <2>0, BeginFacts
    <2>1. LockHeldByCommitter' /\ CommitStillValid'
      BY DEF LockHeldByCommitter, CommitStillValid, LockedSteps
    <2>2. TasksInOrder'
      BY DEF TasksInOrder
    <2>3. HooklessWindow' /\ LatchWindow'
      BY DEF HooklessWindow, LatchWindow, FaultPending, LockHeldByCommitter, LockedSteps
    <2>4. NoUnsafeAuto' /\ NoAutoWhileLatched'
      BY DEF NoUnsafeAuto, NoAutoWhileLatched, FaultPending
    <2> QED BY <2>1, <2>2, <2>3, <2>4
  <1> QED BY <1>1, <1>2

\* The steps of the stop controller and of the restart worker outside set_mode().
LEMMA TaskStep ==
    ASSUME AutoGateInv, NEW t \in Threads, TypeOK',
           \/ FaultDone(t) \/ Trigger(t) \/ Hold(t) \/ Clear(t)
           \/ CommitDevices \/ CheckMode \/ Evaluate
    PROVE  AutoGateInv'
  <1> USE NoneAssumption, RestarterAssumption
      DEF AutoGateInv, TypeOK, ModeTypeOK, modeVars, Become, Free
  <1>0. LockHeldByCommitter' /\ CommitStillValid'
    BY DEF LockHeldByCommitter, CommitStillValid, FaultDone, Trigger, Hold, Clear,
           CommitDevices, CheckMode, Evaluate
  <1>1. CASE FaultDone(t)
    BY <1>0, <1>1 DEF FaultDone, TasksInOrder, HooklessWindow, LatchWindow, NoUnsafeAuto,
                      NoAutoWhileLatched, FaultPending
  <1>2. CASE Trigger(t) \/ Hold(t)
    BY <1>0, <1>2 DEF Trigger, Hold, TasksInOrder, HooklessWindow, LatchWindow, NoUnsafeAuto,
                      NoAutoWhileLatched, FaultPending
  <1>3. CASE Clear(t)
    BY <1>0, <1>3 DEF Clear, TasksInOrder, HooklessWindow, LatchWindow, NoUnsafeAuto,
                      NoAutoWhileLatched, FaultPending
  <1>4. CASE CommitDevices
    BY <1>0, <1>4 DEF CommitDevices, TasksInOrder, HooklessWindow, LatchWindow, NoUnsafeAuto,
                      NoAutoWhileLatched, FaultPending
  <1>5. CASE CheckMode
    BY <1>0, <1>5 DEF CheckMode, TasksInOrder, HooklessWindow, LatchWindow, NoUnsafeAuto,
                      NoAutoWhileLatched, FaultPending, LockHeldByCommitter, LockedSteps
  <1>6. CASE Evaluate
    BY <1>0, <1>6 DEF Evaluate, TasksInOrder, HooklessWindow, LatchWindow, NoUnsafeAuto,
                      NoAutoWhileLatched, FaultPending
  <1> QED BY <1>1, <1>2, <1>3, <1>4, <1>5, <1>6

\* The runtime starts in the invariant.
LEMMA InitInv == Init => AutoGateInv
  BY NoneAssumption, RestarterAssumption
  DEF Init, ModeInit, AutoGateInv, TypeOK, ModeTypeOK, Modes, Steps, Tasks, LockHeldByCommitter,
      CommitStillValid, TasksInOrder, HooklessWindow, LatchWindow, NoUnsafeAuto,
      NoAutoWhileLatched, LockedSteps

\* Every step of every thread keeps it.
LEMMA NextInv == AutoGateInv /\ [Next]_vars => AutoGateInv'
  <1> SUFFICES ASSUME AutoGateInv, [Next]_vars PROVE AutoGateInv'
    OBVIOUS
  <1>0. TypeOK'
    BY TypeStep
  <1>1. ASSUME NEW t \in Threads, Continue(t) PROVE AutoGateInv'
    BY <1>0, <1>1, ContinueStep
  <1>2. ASSUME NEW t \in Threads, (\E new \in Modes : Request(t, new)) \/ ForceFault(t)
        PROVE  AutoGateInv'
    BY <1>0, <1>2, StartStep
  <1>3. ASSUME NEW t \in Threads, FaultDone(t) \/ Trigger(t) \/ Hold(t) \/ Clear(t)
        PROVE  AutoGateInv'
    BY <1>0, <1>3, TaskStep
  <1>4. CASE CommitDevices \/ CheckMode \/ Evaluate
    BY <1>0, <1>4, TaskStep, RestarterAssumption
  <1>5. CASE UNCHANGED vars
    BY <1>5 DEF vars, AutoGateInv, TypeOK, ModeTypeOK, LockHeldByCommitter, CommitStillValid,
       TasksInOrder, HooklessWindow, LatchWindow, NoUnsafeAuto, NoAutoWhileLatched, FaultPending
  <1> QED BY <1>1, <1>2, <1>3, <1>4, <1>5 DEF Next

-----------------------------------------------------------------------------
\* AutoGateInv holds throughout, for any number of threads calling set_mode()
\* (mode_manager.cpp), stopping the machine (safe_state.cpp) and restarting
\* providers (runtime.cpp restart_provider).
THEOREM AutoGateInvariant == Spec => []AutoGateInv
  BY InitInv, NextInv, PTL DEF Spec

\* Every variable keeps its type.
THEOREM TypeCorrect == Spec => []TypeOK
  <1>1. AutoGateInv => TypeOK
    BY DEF AutoGateInv
  <1> QED BY <1>1, AutoGateInvariant, PTL

\* A machine whose inventory fails the hookless gate is not in AUTO, unless the
\* restart that published it is about to force FAULT (#233, #239).
THEOREM HooklessSafety == Spec => []NoUnsafeAuto
  <1>1. AutoGateInv => NoUnsafeAuto
    BY DEF AutoGateInv
  <1> QED BY <1>1, AutoGateInvariant, PTL

\* A machine whose stop latch is engaged is not in AUTO, unless a stop is on its
\* way into FAULT (#481).
THEOREM LatchSafety == Spec => []NoAutoWhileLatched
  <1>1. AutoGateInv => NoAutoWhileLatched
    BY DEF AutoGateInv
  <1> QED BY <1>1, AutoGateInvariant, PTL

\* The actions that write the mode: exactly Write, from the mode the committing
\* thread recorded, by a legal transition.
LEMMA ModeStep ==
    ASSUME AutoGateInv, [Next]_vars, mode' # mode
    PROVE  \E t \in Threads : mode' = req[t] /\ prev[t] = mode /\ ValidTransition(mode, req[t])
  <1>1. PICK t \in Threads : Write(t)
    BY DEF Next, vars, Request, Continue, SetModeStep, ForceFault, FaultDone, Trigger, Hold, Clear,
           CommitDevices, CheckMode, Evaluate, Begin, HooklessGate, EstopGate, BeforeHooks, Commit,
           HooklessGuard, EstopGuard, After, modeVars
  <1> QED BY <1>1 DEF Write, AutoGateInv, CommitStillValid, LockedSteps

\* However requests interleave, AUTO is entered only from MANUAL and FAULT is left
\* only into MANUAL (mode_manager.cpp is_valid_transition and the re-check).
THEOREM Recovery == Spec => RecoverThroughManual
  <1>1. AutoGateInv /\ [Next]_vars =>
          [ /\ mode' = "AUTO" /\ mode # "AUTO" => mode = "MANUAL"
            /\ mode = "FAULT" /\ mode' # "FAULT" => mode' = "MANUAL" ]_vars
    <2> SUFFICES ASSUME AutoGateInv, [Next]_vars, mode' # mode
                 PROVE  /\ mode' = "AUTO" => mode = "MANUAL"
                        /\ mode = "FAULT" => mode' = "MANUAL"
      OBVIOUS
    <2> QED BY ModeStep DEF ValidTransition
  <1> QED BY <1>1, AutoGateInvariant, PTL DEF Spec, RecoverThroughManual

\* The after-callbacks are told the mode their transition replaced (#528).
THEOREM AfterCallbacks == Spec => AfterSeesReplacedMode
  <1>1. AutoGateInv /\ [Next]_vars =>
          [ \A t \in Threads :
              step[t] = "write" /\ step'[t] = "after" => prev'[t] = mode /\ mode' = req[t] ]_vars
    <2> SUFFICES ASSUME AutoGateInv, Next, NEW t \in Threads,
                        step[t] = "write", step'[t] = "after"
                 PROVE  prev'[t] = mode /\ mode' = req[t]
      BY DEF vars
    <2>1. Write(t)
      BY DEF AutoGateInv, TypeOK, ModeTypeOK, Next, Request, Continue, SetModeStep, ForceFault,
             FaultDone, Trigger, Hold, Clear, CommitDevices, CheckMode, Evaluate, Begin, HooklessGate,
             EstopGate, BeforeHooks, Commit, HooklessGuard, EstopGuard, After, Return, Goto,
             GotoFrom, modeVars, Write
    <2> QED BY <2>1 DEF Write, Goto, AutoGateInv, CommitStillValid, LockedSteps
  <1> QED BY <1>1, AutoGateInvariant, PTL DEF Spec, AfterSeesReplacedMode

\* A FAULT request is never refused (mode_manager.hpp: "A request for FAULT always
\* ends in FAULT").
THEOREM FaultAccepted == Spec => FaultNeverRefused
  <1>1. AutoGateInv /\ [Next]_vars =>
          [ \A t \in Threads :
              req[t] = "FAULT" /\ step[t] # "idle" /\ step'[t] = "idle" =>
              step[t] = "after" \/ mode = "FAULT" ]_vars
    <2> SUFFICES ASSUME AutoGateInv, Next, NEW t \in Threads,
                        req[t] = "FAULT", step[t] # "idle", step'[t] = "idle"
                 PROVE  step[t] = "after" \/ mode = "FAULT"
      BY DEF vars
    <2>1. Commit(t) \/ After(t)
      BY DEF AutoGateInv, TypeOK, ModeTypeOK, Next, Request, Continue, SetModeStep, ForceFault,
             FaultDone, Trigger, Hold, Clear, CommitDevices, CheckMode, Evaluate, Begin, HooklessGate,
             EstopGate, BeforeHooks, Commit, HooklessGuard, EstopGuard, After, Return, Goto,
             GotoFrom, modeVars, Write, HooklessRefuses, EstopRefuses
    <2> QED BY <2>1 DEF Commit, After, Return, GotoFrom, ValidTransition, AutoGateInv, TypeOK, ModeTypeOK
  <1> QED BY <1>1, AutoGateInvariant, PTL DEF Spec, FaultNeverRefused

=============================================================================
