----------------------------- MODULE Supervisor -----------------------------
(***************************************************************************)
(* Provider supervision: ProviderSupervisor's crash accounting, the main   *)
(* loop of Runtime::run that drives it, and the restart worker that runs   *)
(* Runtime::restart_provider, one restart at a time, beside the loop.      *)
(*                                                                         *)
(* Clock values are kept relative: the time left until next_restart_time,  *)
(* and the time since process_start_time, capped where the code's          *)
(* comparisons no longer tell values apart.  Only the loop writes the      *)
(* supervisor's state.                                                     *)
(***************************************************************************)
EXTENDS Naturals, Sequences

CONSTANTS Order,        \* config.providers, in order
          Policies,     \* which sets of providers may have their restart policy enabled
          MaxAttempts,  \* restart_policy.max_attempts
          Backoff,      \* restart_policy.backoff_ms, in ticks
          ProbeInterval,\* kCircuitProbeInterval, in ticks
          ResetWindow,  \* restart_policy.success_reset_ms, in ticks
          None

Providers == {Order[i] : i \in DOMAIN Order}

ASSUME SupervisorAssumption ==
    /\ Order \in Seq(Providers)
    /\ Policies \subseteq SUBSET Providers
    /\ MaxAttempts \in Nat \ {0}
    /\ Backoff \in Seq(Nat) /\ Backoff # <<>>
    /\ ProbeInterval \in Nat \ {0}
    /\ ResetWindow \in Nat \ {0}
    /\ None \notin Providers

VARIABLES enabled,   \* providers whose restart policy is enabled, fixed by the config
          at,        \* the provider the loop looks at next, 0 at its top
          stopping,  \* the shutdown signal has been raised
          avail,     \* provider->is_available()
          old,       \* a process of the registered provider runs
          new,       \* the process a restart has started runs
          attempts,  \* attempt_count, up to MaxAttempts + 1
          circuit,   \* circuit_open
          detected,  \* crash_detected
          wait,      \* time until next_restart_time
          uptime,    \* time since process_start_time, None before a heartbeat
          restart,   \* the restart in flight
          healthy,   \* how long the provider has really been available
          started    \* restarts from the budget since it was stable

supVars == <<attempts, circuit, detected, wait, uptime>>
vars == <<enabled, at, stopping, avail, old, new, supVars, restart, healthy, started>>

NoRestart == [id |-> None, probe |-> FALSE, step |-> "none"]

Cap == MaxAttempts + 1

Min(a, b) == IF a < b THEN a ELSE b

TypeOK ==
    /\ enabled \in Policies
    /\ at \in 0..(Len(Order) + 2)
    /\ stopping \in BOOLEAN
    /\ avail \in [Providers -> BOOLEAN]
    /\ old \in [Providers -> BOOLEAN]
    /\ new \in [Providers -> BOOLEAN]
    /\ attempts \in [Providers -> 0..Cap]
    /\ circuit \in [Providers -> BOOLEAN]
    /\ detected \in [Providers -> BOOLEAN]
    /\ wait \in [Providers -> Nat]
    /\ uptime \in [Providers -> (0..ResetWindow) \cup {None}]
    /\ restart \in [id : Providers, probe : BOOLEAN,
                    step : {"stop", "start", "swap", "return", "ok", "failed"}]
                   \cup {NoRestart}
    /\ healthy \in [Providers -> 0..ResetWindow]
    /\ started \in [Providers -> Nat]

Init ==
    /\ enabled \in Policies
    /\ at = 0
    /\ stopping = FALSE
    /\ avail = [p \in Providers |-> TRUE]
    /\ old = [p \in Providers |-> TRUE]
    /\ new = [p \in Providers |-> FALSE]
    /\ attempts = [p \in Providers |-> 0]
    /\ circuit = [p \in Providers |-> FALSE]
    /\ detected = [p \in Providers |-> FALSE]
    /\ wait = [p \in Providers |-> 0]
    /\ uptime = [p \in Providers |-> None]
    /\ restart = NoRestart
    /\ healthy = [p \in Providers |-> 0]
    /\ started = [p \in Providers |-> 0]

-----------------------------------------------------------------------------
(* ProviderSupervisor.                                                     *)

\* A broken record_crash: the uptime window outlives the crash.
RecordCrashKeepsUptime(p) ==
    /\ attempts' = [attempts EXCEPT ![p] = Min(attempts[p] + 1, Cap)]
    /\ uptime' = uptime
    /\ IF attempts[p] + 1 > MaxAttempts
       THEN /\ circuit' = [circuit EXCEPT ![p] = TRUE]
            /\ wait' = [wait EXCEPT ![p] = ProbeInterval]
       ELSE /\ wait' = [wait EXCEPT ![p] = Backoff[Min(attempts[p] + 1, Len(Backoff))]]
            /\ UNCHANGED circuit

\* record_crash, for a provider whose policy is enabled.
RecordCrash(p) ==
    /\ attempts' = [attempts EXCEPT ![p] = Min(attempts[p] + 1, Cap)]
    /\ uptime' = [uptime EXCEPT ![p] = None]
    /\ IF attempts[p] + 1 > MaxAttempts
       THEN /\ circuit' = [circuit EXCEPT ![p] = TRUE]
            /\ wait' = [wait EXCEPT ![p] = ProbeInterval]
       ELSE /\ wait' = [wait EXCEPT ![p] = Backoff[Min(attempts[p] + 1, Len(Backoff))]]
            /\ UNCHANGED circuit

\* A broken should_probe: an open circuit is never probed.
ShouldProbeClosed(p) == p \in enabled /\ ~circuit[p] /\ wait[p] = 0

ShouldRestart(p) == p \in enabled /\ ~circuit[p] /\ wait[p] = 0
ShouldProbe(p) == p \in enabled /\ circuit[p] /\ wait[p] = 0

\* record_heartbeat, then should_mark_recovered and record_success.
Heartbeat(p) ==
    LET up == IF uptime[p] = None THEN 0 ELSE uptime[p]
        recovered == p \in enabled /\ ~circuit[p] /\ attempts[p] # 0 /\ up >= ResetWindow
    IN
    /\ uptime' = [uptime EXCEPT ![p] = up]
    /\ IF recovered
       THEN /\ attempts' = [attempts EXCEPT ![p] = 0]
            /\ detected' = [detected EXCEPT ![p] = FALSE]
            /\ wait' = [wait EXCEPT ![p] = 0]
       ELSE UNCHANGED <<attempts, detected, wait>>
    /\ UNCHANGED circuit

\* A broken record_probe_result: a probe that succeeds leaves the circuit open.
RecordProbeStaysOpen(p, restarted) ==
    IF restarted
    THEN /\ detected' = [detected EXCEPT ![p] = FALSE]
         /\ UNCHANGED <<circuit, wait>>
    ELSE /\ wait' = [wait EXCEPT ![p] = ProbeInterval]
         /\ UNCHANGED <<circuit, detected>>

\* record_probe_result.
RecordProbe(p, restarted) ==
    IF restarted
    THEN /\ circuit' = [circuit EXCEPT ![p] = FALSE]
         /\ detected' = [detected EXCEPT ![p] = FALSE]
         /\ UNCHANGED wait
    ELSE /\ wait' = [wait EXCEPT ![p] = ProbeInterval]
         /\ UNCHANGED <<circuit, detected>>

-----------------------------------------------------------------------------
(* The main loop of Runtime::run.                                          *)

procVars == <<avail, old, new, healthy>>

\* The top: collect a finished restart, then leave on the shutdown signal.
LoopTop ==
    /\ at = 0
    /\ IF restart.step \in {"ok", "failed"}
       THEN /\ restart' = NoRestart
            /\ IF restart.probe
               THEN RecordProbe(restart.id, restart.step = "ok")
               ELSE UNCHANGED <<circuit, detected, wait>>
       ELSE UNCHANGED <<restart, circuit, detected, wait>>
    /\ at' = IF stopping THEN Len(Order) + 1 ELSE 1
    /\ UNCHANGED <<enabled, stopping, procVars, attempts, uptime, started>>

Advance == at' = IF at = Len(Order) THEN 0 ELSE at + 1

Looking(p) == at \in DOMAIN Order /\ p = Order[at] /\ restart.id # p

\* A restart runs on the worker thread, one at a time.
StartRestart(p, probe) ==
    /\ restart = NoRestart
    /\ restart' = [id |-> p, probe |-> probe, step |-> "stop"]
    /\ started' = IF probe THEN started ELSE [started EXCEPT ![p] = @ + 1]

\* The provider whose restart is in flight is skipped.
CheckRestarting ==
    /\ at \in DOMAIN Order /\ restart.id = Order[at]
    /\ Advance
    /\ UNCHANGED <<enabled, stopping, procVars, supVars, restart, started>>

CheckHealthy(p) ==
    /\ Looking(p) /\ avail[p]
    /\ Heartbeat(p)
    /\ Advance
    /\ UNCHANGED <<enabled, stopping, procVars, restart, started>>

\* Circuit open: a probe when one is due, and nothing else.
CheckOpen(p) ==
    /\ Looking(p) /\ ~avail[p] /\ circuit[p]
    /\ \/ ShouldProbe(p) /\ StartRestart(p, TRUE)
       \/ ~(ShouldProbe(p) /\ restart = NoRestart) /\ UNCHANGED <<restart, started>>
    /\ Advance
    /\ UNCHANGED <<enabled, stopping, procVars, supVars>>

\* A crash seen for the first time is recorded; with no backoff its restart starts
\* in the same iteration.
CheckNewCrash(p) ==
    /\ Looking(p) /\ ~avail[p] /\ ~circuit[p] /\ ~detected[p]
    /\ \/ /\ p \notin enabled
          /\ circuit' = [circuit EXCEPT ![p] = TRUE]
          /\ detected' = [detected EXCEPT ![p] = TRUE]
          /\ UNCHANGED <<attempts, wait, uptime, restart, started>>
       \/ /\ p \in enabled
          /\ RecordCrash(p)
          /\ IF circuit'[p] \/ wait'[p] # 0 \/ restart # NoRestart
             THEN detected' = [detected EXCEPT ![p] = TRUE] /\ UNCHANGED <<restart, started>>
             ELSE StartRestart(p, FALSE) /\ UNCHANGED detected
    /\ Advance
    /\ UNCHANGED <<enabled, stopping, procVars>>

\* A crash already recorded is restarted when its backoff is over.
CheckDown(p) ==
    /\ Looking(p) /\ ~avail[p] /\ ~circuit[p] /\ detected[p]
    /\ \/ /\ ShouldRestart(p) /\ StartRestart(p, FALSE)
          /\ detected' = [detected EXCEPT ![p] = FALSE]
       \/ ~(ShouldRestart(p) /\ restart = NoRestart) /\ UNCHANGED <<detected, restart, started>>
    /\ Advance
    /\ UNCHANGED <<enabled, stopping, procVars, attempts, circuit, wait, uptime>>

\* Leaving the loop: the restart in flight is waited for before the teardown.
AwaitRestart ==
    /\ at = Len(Order) + 1
    /\ restart.step \in {"none", "ok", "failed"}
    /\ at' = Len(Order) + 2
    /\ UNCHANGED <<enabled, stopping, procVars, supVars, restart, started>>

-----------------------------------------------------------------------------
(* Runtime::restart_provider, on the worker thread.                        *)

To(step) == restart' = [restart EXCEPT !.step = step]

workerKeeps == <<enabled, at, stopping, supVars, started>>


\* The registered provider is stopped first; what survives the kill fails the
\* attempt.
RestartStop ==
    LET p == restart.id IN
    /\ restart.step = "stop"
    /\ \/ old' = [old EXCEPT ![p] = FALSE] /\ To("start")
       \/ old[p] /\ UNCHANGED old /\ To("failed")
    /\ UNCHANGED <<workerKeeps, avail, new, healthy>>

\* The replacement's process is spawned.
RestartSpawn ==
    LET p == restart.id IN
    /\ restart.step = "start"
    /\ new' = [new EXCEPT ![p] = TRUE]
    /\ To("swap")
    /\ UNCHANGED <<workerKeeps, avail, old, healthy>>

\* A handshake, discovery, timeout or ownership failure discards the replacement:
\* its destructor stops it and ignores what survives.
RestartDiscard ==
    LET p == restart.id IN
    /\ restart.step = "swap"
    /\ new' = [new EXCEPT ![p] = FALSE]
    /\ To("failed")
    /\ UNCHANGED <<workerKeeps, avail, old, healthy>>

\* The inventory is committed and the handle swapped; the checks after it do not
\* fail the restart.
RestartSwap ==
    LET p == restart.id IN
    /\ restart.step = "swap"
    /\ new' = [new EXCEPT ![p] = FALSE]
    /\ old' = [old EXCEPT ![p] = TRUE]
    /\ avail' = [avail EXCEPT ![p] = TRUE]
    /\ To("return")
    /\ UNCHANGED <<workerKeeps, healthy>>

RestartReturn ==
    /\ restart.step = "return"
    /\ To("ok")
    /\ UNCHANGED <<workerKeeps, procVars>>

-----------------------------------------------------------------------------
(* The environment.                                                        *)

\* The provider dies, or its session is marked unhealthy while it still runs.
Crash(p) ==
    /\ avail[p]
    /\ avail' = [avail EXCEPT ![p] = FALSE]
    /\ old' \in {old, [old EXCEPT ![p] = FALSE]}
    /\ healthy' = [healthy EXCEPT ![p] = 0]
    /\ UNCHANGED <<enabled, at, stopping, new, supVars, restart, started>>

\* Time passes while the loop sleeps or has ended: a pass over the providers makes
\* no blocking call, so it takes no time on a tick's scale.  A provider that has been
\* available for the whole window starts with a new budget.
Tick ==
    /\ at \notin DOMAIN Order
    /\ wait' = [p \in Providers |-> IF wait[p] = 0 THEN 0 ELSE wait[p] - 1]
    /\ uptime' = [p \in Providers |->
         IF uptime[p] = None THEN None ELSE Min(uptime[p] + 1, ResetWindow)]
    /\ healthy' = [p \in Providers |->
         IF avail[p] THEN Min(healthy[p] + 1, ResetWindow) ELSE 0]
    /\ started' = [p \in Providers |->
         IF healthy'[p] = ResetWindow THEN 0 ELSE started[p]]
    /\ UNCHANGED <<enabled, at, stopping, avail, old, new, attempts, circuit, detected,
                   restart>>

SignalShutdown ==
    /\ ~stopping
    /\ stopping' = TRUE
    /\ UNCHANGED <<enabled, at, procVars, supVars, restart, started>>

-----------------------------------------------------------------------------
Check(p) == CheckHealthy(p) \/ CheckOpen(p) \/ CheckNewCrash(p) \/ CheckDown(p)

Loop == LoopTop \/ CheckRestarting \/ (\E p \in Providers : Check(p)) \/ AwaitRestart

Restart ==
    RestartStop \/ RestartSpawn \/ RestartDiscard \/ RestartSwap \/ RestartReturn

Next ==
    \/ Loop \/ Restart \/ Tick \/ SignalShutdown
    \/ \E p \in Providers : Crash(p)

Spec == Init /\ [][Next]_vars

\* The loop and the worker run, every call of the restart has a timeout, and the
\* sleep of every iteration lets time pass: strong fairness, because Tick is
\* disabled during each pass.
Fairness == WF_vars(Loop) /\ WF_vars(Restart) /\ SF_vars(Tick)

FairSpec == Spec /\ Fairness

-----------------------------------------------------------------------------
\* Between two stretches of ResetWindow in which the provider was really available,
\* no more than max_attempts restarts are made from the budget, however its
\* crashes, failed restarts and probes fall (docs/providers.md: "Circuit opens after
\* `max_attempts` consecutive failures").
BudgetKept == \A p \in Providers : started[p] <= MaxAttempts


\* A provider whose policy is disabled is never restarted, by the budget or by a
\* probe, although its circuit opens (provider_supervisor.cpp should_probe).
DisabledStaysDown == \A p \in Providers \ enabled : restart.id # p

\* Restarts are made only as the policy allows (provider_supervisor.cpp should_restart,
\* should_probe, record_crash), and every variable has its type.
SupervisorInv == TypeOK /\ BudgetKept /\ DisabledStaysDown

\* Every supervised provider that is down is eventually restarted, or a restart of
\* it tried: one that keeps failing does not keep the others from their turn, and
\* an open circuit is probed for ever.
DownIsRetried ==
    \A p \in Providers : (p \in enabled /\ ~avail[p]) ~> (restart.id = p \/ avail[p] \/ stopping)

\* A provider that stays up is forgiven: its crash streak ends and its circuit is
\* closed.
StableIsForgiven ==
    \A p \in Providers :
        (<>[](p \in enabled /\ avail[p])) => []<>(stopping \/ (attempts[p] = 0 /\ ~circuit[p]))

=============================================================================
