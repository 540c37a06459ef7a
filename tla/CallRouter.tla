----------------------------- MODULE CallRouter -----------------------------
(***************************************************************************)
(* control::CallRouter::execute_call(), one action per point at which a    *)
(* call reads or writes state another thread may change.                   *)
(*                                                                         *)
(* A call reads the mode up to three times, the software stop's latch and  *)
(* the device-loss latch before it queues on its provider's lock, and both *)
(* latches again once it has the lock.  The mode is not read again.  What  *)
(* is judged from the request and the registry alone (handle, provider,    *)
(* function, argument coercion and validation) is one choice, made where   *)
(* the registry is read: the call is well formed or it is refused.         *)
(*                                                                         *)
(* An output is one actuating function of one device; functions declared   *)
(* READ pass both latches and are of no interest here.  Outputs of one     *)
(* provider share its lock.                                                *)
(***************************************************************************)
EXTENDS ModeManager

CONSTANTS Outputs,        \* actuating functions
          Providers,
          ProviderOf,     \* [Outputs -> Providers]
          AllowedModes,   \* [Outputs -> SUBSET Modes]; {} allows every mode
          RateLimited,    \* the outputs that declare min_interval_ms
          ManualOverride  \* manual_gating_policy is OVERRIDE, not BLOCK

ASSUME RouterAssumption ==
    /\ ProviderOf \in [Outputs -> Providers]
    /\ AllowedModes \in [Outputs -> SUBSET Modes]
    /\ RateLimited \subseteq Outputs
    /\ ManualOverride \in BOOLEAN
    /\ None \notin Outputs \cup Providers

VARIABLES callStep,   \* where each thread is inside execute_call()
          callKind,   \* the origin flags of each thread's request
          callDev,    \* the output each thread's request is for
          callOk,     \* whether each thread's last hook call succeeded
          provLock,   \* holder of each provider's lock, or None
          lost,       \* the outputs DeviceLossLatch::is_latched() reports
          admitted,   \* fault_entry_hook_thread_: whose FAULT hooks pass the latch
          cooling,    \* outputs dispatched to less than min_interval_ms ago
          out         \* what each output was last commanded to

CallSteps == {"none", "idle_gate", "manual_gate", "resolve", "latch", "loss", "lock",
              "relatch", "reloss", "interval", "send", "poll"}

\* The steps at which the caller holds its provider's lock.
LockedCallSteps == {"relatch", "reloss", "interval", "send", "poll"}

\* "manual" is POST /v0/call, "tree" a behaviour-tree node, "hook" and
\* "fault_hook" a mode-transition hook (into FAULT), "stop" a safe-state call.
Kinds == {"manual", "tree", "hook", "fault_hook", "stop"}

\* What a command leaves an output at: the ladder's value, a FAULT hook's, or
\* whatever an operator, the tree or another hook asked for.
Effect(k) == CASE k = "stop" -> "safe" [] k = "fault_hook" -> "hooked" [] OTHER -> "driven"

RouterInit ==
    /\ callStep = [t \in Threads |-> "none"]
    /\ callKind = [t \in Threads |-> "manual"]
    /\ callDev = [t \in Threads |-> None]
    /\ callOk = [t \in Threads |-> TRUE]
    /\ provLock = [p \in Providers |-> None]
    /\ lost = {}
    /\ admitted = None
    /\ cooling = {}
    /\ out = [d \in Outputs |-> "driven"]

RouterTypeOK ==
    /\ callStep \in [Threads -> CallSteps]
    /\ callKind \in [Threads -> Kinds]
    /\ callDev \in [Threads -> Outputs \cup {None}]
    /\ callOk \in [Threads -> BOOLEAN]
    /\ provLock \in [Providers -> Threads \cup {None}]
    /\ lost \subseteq Outputs
    /\ admitted \in Threads \cup {None}
    /\ cooling \subseteq RateLimited
    /\ out \in [Outputs -> {"safe", "hooked", "driven"}]

-----------------------------------------------------------------------------
\* latch_holds(): safe-state calls are exempt, and so is a FAULT-entry hook on the
\* one thread the stop admits.
LatchHolds(t) ==
    /\ latched
    /\ callKind[t] # "stop"
    /\ ~(callKind[t] = "fault_hook" /\ admitted = t)

\* latch_refuses(), asked before a FAULT-entry hook call is made at all.
LatchRefuses(t) == latched /\ admitted # t

\* The loss latch holds only the tree's calls.
LossHolds(t) == callKind[t] = "tree" /\ callDev[t] \in lost

\* execute_call() is entered.  A safe-state call skips every mode gate.
StartCall(t, k, d) ==
    /\ callStep[t] = "none"
    /\ callStep' = [callStep EXCEPT ![t] = IF k = "stop" THEN "resolve" ELSE "idle_gate"]
    /\ callKind' = [callKind EXCEPT ![t] = k]
    /\ callDev' = [callDev EXCEPT ![t] = d]
    /\ UNCHANGED <<callOk, provLock, lost, admitted, cooling, out>>

CallGoto(t, s) ==
    /\ callStep' = [callStep EXCEPT ![t] = s]
    /\ UNCHANGED <<callKind, callDev, callOk>>

\* execute_call() returns r; its request is dead from here on.  Of the callers
\* modelled here only a hook outside FAULT entry acts on a failure.
CallReturn(t, r) ==
    /\ callStep' = [callStep EXCEPT ![t] = "none"]
    /\ callKind' = [callKind EXCEPT ![t] = "manual"]
    /\ callDev' = [callDev EXCEPT ![t] = None]
    /\ callOk' = [callOk EXCEPT ![t] = r \/ callKind[t] # "hook"]

Lock(t) == provLock' = [provLock EXCEPT ![ProviderOf[callDev[t]]] = t]
Unlock(t) == provLock' = [provLock EXCEPT ![ProviderOf[callDev[t]]] = None]

\* is_idle(), under the mode mutex.
IdleGate(t) ==
    /\ callStep[t] = "idle_gate"
    /\ modeLock = None
    /\ IF mode = "IDLE" THEN CallReturn(t, FALSE)
       ELSE CallGoto(t, IF callKind[t] = "manual" THEN "manual_gate" ELSE "resolve")
    /\ UNCHANGED <<provLock, lost, admitted, cooling, out>>

\* Manual calls only: current_mode() again.
ManualGate(t) ==
    /\ callStep[t] = "manual_gate"
    /\ modeLock = None
    /\ IF mode = "AUTO" /\ ~ManualOverride THEN CallReturn(t, FALSE) ELSE CallGoto(t, "resolve")
    /\ UNCHANGED <<provLock, lost, admitted, cooling, out>>

\* Handle, provider, device, function and arguments are resolved or not; then
\* allowed_modes, where declared, against the mode read a third time.
Resolve(t, wellFormed) ==
    LET allowed == AllowedModes[callDev[t]]
        judged == callKind[t] # "stop" /\ allowed # {}
    IN  /\ callStep[t] = "resolve"
        /\ judged => modeLock = None
        /\ IF ~wellFormed \/ (judged /\ mode \notin allowed)
           THEN CallReturn(t, FALSE) ELSE CallGoto(t, "latch")
        /\ UNCHANGED <<provLock, lost, admitted, cooling, out>>

CheckLatch(t) ==
    /\ callStep[t] = "latch"
    /\ IF LatchHolds(t) THEN CallReturn(t, FALSE)
       ELSE CallGoto(t, IF callKind[t] = "tree" THEN "loss" ELSE "lock")
    /\ UNCHANGED <<provLock, lost, admitted, cooling, out>>

CheckLoss(t) ==
    /\ callStep[t] = "loss"
    /\ IF LossHolds(t) THEN CallReturn(t, FALSE) ELSE CallGoto(t, "lock")
    /\ UNCHANGED <<provLock, lost, admitted, cooling, out>>

LockProvider(t) ==
    /\ callStep[t] = "lock"
    /\ provLock[ProviderOf[callDev[t]]] = None
    /\ Lock(t)
    /\ CallGoto(t, "relatch")
    /\ UNCHANGED <<lost, admitted, cooling, out>>

\* A missing re-check: a call that waited for the lock is sent all the same.
RecheckLatchMissing(t) ==
    /\ callStep[t] = "relatch"
    /\ CallGoto(t, IF callKind[t] = "tree" THEN "reloss" ELSE "interval")
    /\ UNCHANGED <<provLock, lost, admitted, cooling, out>>

RecheckLatch(t) ==
    /\ callStep[t] = "relatch"
    /\ IF LatchHolds(t) THEN CallReturn(t, FALSE) /\ Unlock(t)
       ELSE /\ CallGoto(t, IF callKind[t] = "tree" THEN "reloss" ELSE "interval")
            /\ UNCHANGED provLock
    /\ UNCHANGED <<lost, admitted, cooling, out>>

\* A missing re-check: the device went unreachable while the call waited.
RecheckLossMissing(t) ==
    /\ callStep[t] = "reloss"
    /\ CallGoto(t, "interval")
    /\ UNCHANGED <<provLock, lost, admitted, cooling, out>>

RecheckLoss(t) ==
    /\ callStep[t] = "reloss"
    /\ IF LossHolds(t) THEN CallReturn(t, FALSE) /\ Unlock(t)
       ELSE CallGoto(t, "interval") /\ UNCHANGED provLock
    /\ UNCHANGED <<lost, admitted, cooling, out>>

\* min_interval_ms: too soon is refused, except for a safe-state call; a call that
\* goes on is recorded before it is sent.
CheckInterval(t) ==
    LET d == callDev[t]
    IN  /\ callStep[t] = "interval"
        /\ IF d \in cooling /\ callKind[t] # "stop"
           THEN CallReturn(t, FALSE) /\ Unlock(t) /\ UNCHANGED cooling
           ELSE /\ CallGoto(t, "send")
                /\ cooling' = cooling \cup ({d} \cap RateLimited)
                /\ UNCHANGED provLock
        /\ UNCHANGED <<lost, admitted, out>>

\* provider->call(): carried out and answered, or failed.  A failed call (a lost
\* session, a timeout) may have reached the device all the same, and is not
\* followed by a poll.
Send(t, answered, reached) ==
    /\ callStep[t] = "send"
    /\ answered => reached
    /\ out' = IF reached THEN [out EXCEPT ![callDev[t]] = Effect(callKind[t])] ELSE out
    /\ IF answered THEN CallGoto(t, "poll") /\ UNCHANGED provLock
       ELSE CallReturn(t, FALSE) /\ Unlock(t)
    /\ UNCHANGED <<lost, admitted, cooling>>

\* poll_device_now(), still under the provider lock, which is then released.
PostCallPoll(t) ==
    /\ callStep[t] = "poll"
    /\ CallReturn(t, TRUE)
    /\ Unlock(t)
    /\ UNCHANGED <<lost, admitted, cooling, out>>

\* min_interval_ms elapses for output d.
IntervalElapses(d) ==
    /\ d \in cooling
    /\ cooling' = cooling \ {d}
    /\ UNCHANGED <<callStep, callKind, callDev, callOk, provLock, lost, admitted, out>>

CallProgress(t) ==
    \/ IdleGate(t)
    \/ ManualGate(t)
    \/ \E wellFormed \in BOOLEAN : Resolve(t, wellFormed)
    \/ CheckLatch(t)
    \/ CheckLoss(t)
    \/ LockProvider(t)
    \/ RecheckLatch(t)
    \/ RecheckLoss(t)
    \/ CheckInterval(t)
    \/ \E answered, reached \in BOOLEAN : Send(t, answered, reached)
    \/ PostCallPoll(t)

=============================================================================
