---------------------------- MODULE ModeManager ----------------------------
(***************************************************************************)
(* automation::ModeManager: the runtime mode and the set_mode() protocol.  *)
(*                                                                         *)
(* set_mode() is called from many threads: HTTP handlers, the behaviour-   *)
(* tree tick thread, the provider-restart worker, the software stop and    *)
(* the main loop.  It takes the mode mutex twice, and runs the registered  *)
(* before-callbacks between the two sections with no lock held.  Each step *)
(* of a call is an action here, so every interleaving of calls is a        *)
(* behaviour.  The callbacks are the ones the runtime installs: the        *)
(* refuse-hookless gate, the software-stop gate and the configured hooks,  *)
(* the two gates again as commit guards under the mutex, and the           *)
(* after-callbacks.                                                        *)
(***************************************************************************)

CONSTANTS Threads,  \* the threads that may call set_mode()
          None      \* no thread

ASSUME NoneAssumption == None \notin Threads

VARIABLES mode,      \* current_mode_
          modeLock,  \* holder of ModeManager::mutex_, or None
          step,      \* where each thread is inside set_mode()
          prev,      \* previous_mode of each thread's call
          req,       \* new_mode of each thread's call
          latched,   \* what IActuationLatch::is_engaged() reads
          hookless   \* evaluate_hookless_auto_gate().refused on the live registry

modeVars == <<mode, modeLock, step, prev, req>>

Modes == {"IDLE", "MANUAL", "AUTO", "FAULT"}

Steps == {"idle", "hookless_gate", "estop_gate", "before", "commit",
          "hookless_guard", "estop_guard", "write", "after"}

\* The steps at which the caller holds the mode mutex.
LockedSteps == {"hookless_guard", "estop_guard", "write"}

ModeInit ==
    /\ mode = "IDLE"
    /\ modeLock = None
    /\ step = [t \in Threads |-> "idle"]
    /\ prev = [t \in Threads |-> "IDLE"]
    /\ req = [t \in Threads |-> "IDLE"]

ModeTypeOK ==
    /\ mode \in Modes
    /\ modeLock \in Threads \cup {None}
    /\ step \in [Threads -> Steps]
    /\ prev \in [Threads -> Modes]
    /\ req \in [Threads -> Modes]
    /\ latched \in BOOLEAN
    /\ hookless \in BOOLEAN

ValidTransition(from, to) ==
    \/ from = to
    \/ to = "FAULT"
    \/ from = "FAULT" /\ to = "MANUAL"
    \/ from = "MANUAL" /\ to \in {"AUTO", "IDLE"}
    \/ from \in {"AUTO", "IDLE"} /\ to = "MANUAL"

-----------------------------------------------------------------------------
\* set_mode() of thread t returns, accepted or refused; its locals are dead from
\* here on.
Return(t) ==
    /\ step' = [step EXCEPT ![t] = "idle"]
    /\ prev' = [prev EXCEPT ![t] = "IDLE"]
    /\ req' = [req EXCEPT ![t] = "IDLE"]

Goto(t, s) ==
    /\ step' = [step EXCEPT ![t] = s]
    /\ UNCHANGED <<prev, req>>

\* The same, with previous_mode set to the mode the transition commits from.
GotoFrom(t, s, p) ==
    /\ step' = [step EXCEPT ![t] = s]
    /\ prev' = [prev EXCEPT ![t] = p]
    /\ UNCHANGED req

\* First locked section: a request for the current mode is a no-op, an invalid
\* one is refused, any other goes on to the before-callbacks.
Begin(t, new) ==
    /\ step[t] = "idle"
    /\ modeLock = None
    /\ \/ mode = new /\ Return(t)
       \/ ~ValidTransition(mode, new) /\ Return(t)
       \/ /\ mode # new /\ ValidTransition(mode, new)
          /\ step' = [step EXCEPT ![t] = "hookless_gate"]
          /\ prev' = [prev EXCEPT ![t] = mode]
          /\ req' = [req EXCEPT ![t] = new]
    /\ UNCHANGED <<mode, modeLock, latched, hookless>>

\* The gates' shared check: it objects only to AUTO.
HooklessRefuses(new) == new = "AUTO" /\ hookless
EstopRefuses(new) == new = "AUTO" /\ latched

\* The first before-callback; a refused AUTO entry runs no hooks.
HooklessGate(t) ==
    /\ step[t] = "hookless_gate"
    /\ IF HooklessRefuses(req[t]) THEN Return(t) ELSE Goto(t, "estop_gate")
    /\ UNCHANGED <<mode, modeLock, latched, hookless>>

\* The second before-callback.
EstopGate(t) ==
    /\ step[t] = "estop_gate"
    /\ IF EstopRefuses(req[t]) THEN Return(t) ELSE Goto(t, "before")
    /\ UNCHANGED <<mode, modeLock, latched, hookless>>

\* The before_transition hooks.  A failing call (pass = FALSE) vetoes the
\* transition, except into FAULT, where the failure is logged and ignored.
BeforeHooks(t, pass) ==
    /\ step[t] = "before"
    /\ IF pass \/ req[t] = "FAULT" THEN Goto(t, "commit") ELSE Return(t)
    /\ UNCHANGED <<mode, modeLock, latched, hookless>>

\* A broken re-check: FAULT is refused like any other request when another
\* transition committed while its before-callbacks ran (the code before #528).
CommitRefusesFault(t) ==
    /\ step[t] = "commit"
    /\ modeLock = None
    /\ IF mode # prev[t]
       THEN Return(t) /\ UNCHANGED modeLock
       ELSE /\ Goto(t, IF req[t] = "FAULT" THEN "write" ELSE "hookless_guard")
            /\ modeLock' = t
    /\ UNCHANGED <<mode, latched, hookless>>

\* Second locked section, up to the guards.  If another transition committed
\* meanwhile, FAULT goes on from the mode that is current now (or is done when
\* that is FAULT) and any other request is refused.
Commit(t) ==
    LET overtaken == mode # prev[t]
        refused == \/ overtaken /\ req[t] # "FAULT"
                   \/ ~ValidTransition(mode, req[t])
        already == overtaken /\ req[t] = "FAULT" /\ mode = "FAULT"
    IN  /\ step[t] = "commit"
        /\ modeLock = None
        /\ IF refused \/ already
           THEN Return(t) /\ UNCHANGED modeLock
           ELSE /\ GotoFrom(t, IF req[t] = "FAULT" THEN "write" ELSE "hookless_guard", mode)
                /\ modeLock' = t
        /\ UNCHANGED <<mode, latched, hookless>>

\* A missing guard: the inventory is judged by the before-callback only (the
\* code before #239).
HooklessGuardMissing(t) ==
    /\ step[t] = "hookless_guard"
    /\ Goto(t, "estop_guard")
    /\ UNCHANGED <<mode, modeLock, latched, hookless>>

\* The commit guards, under the mode mutex.
HooklessGuard(t) ==
    /\ step[t] = "hookless_guard"
    /\ IF HooklessRefuses(req[t])
       THEN Return(t) /\ modeLock' = None
       ELSE Goto(t, "estop_guard") /\ UNCHANGED modeLock
    /\ UNCHANGED <<mode, latched, hookless>>

EstopGuard(t) ==
    /\ step[t] = "estop_guard"
    /\ IF EstopRefuses(req[t])
       THEN Return(t) /\ modeLock' = None
       ELSE Goto(t, "write") /\ UNCHANGED modeLock
    /\ UNCHANGED <<mode, latched, hookless>>

\* current_mode_ = new_mode, then the mutex is released.
Write(t) ==
    /\ step[t] = "write"
    /\ mode' = req[t]
    /\ modeLock' = None
    /\ Goto(t, "after")
    /\ UNCHANGED <<latched, hookless>>

\* The after-callbacks, with no lock held; a failing one is only logged.
After(t) ==
    /\ step[t] = "after"
    /\ Return(t)
    /\ UNCHANGED <<mode, modeLock, latched, hookless>>

SetModeStep(t) ==
    \/ HooklessGate(t)
    \/ EstopGate(t)
    \/ \E pass \in BOOLEAN : BeforeHooks(t, pass)
    \/ Commit(t)
    \/ HooklessGuard(t)
    \/ EstopGuard(t)
    \/ Write(t)
    \/ After(t)

=============================================================================
