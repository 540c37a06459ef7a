----------------------------- MODULE Inventory ------------------------------
(***************************************************************************)
(* The device inventory from start-up through provider restarts: discovery *)
(* of what a provider process declares, the ownership check over all the   *)
(* providers, and the publication of a replacement in several steps that a *)
(* call, a poll or the safe-state ladder on another thread sees one by     *)
(* one.                                                                    *)
(*                                                                         *)
(* A process is numbered within its provider; a published device remembers *)
(* which process declared it.  A process serves until it ends or its       *)
(* session breaks, and never again.  Restarts come one at a time.  Calls,  *)
(* polls and ladders only read the inventory and do not meet, so one of    *)
(* them at a time is enough.                                               *)
(***************************************************************************)
EXTENDS Ladder, FiniteSets

CONSTANTS Providers, Names, Claims,
          Listings,   \* what a process may list: sets of [name, claims, functions]
          Safeties,   \* safety.safe_state: records of [hooks, setpoints, zero]
          FaultHooks, \* the calls of the AUTO -> FAULT hooks
          Requests,   \* the calls an operator makes
          BehindStop, \* safety.stop_chain.devices
          MaxProcs    \* bound: processes of each provider

Functions == DOMAIN Specs
Handles == Providers \X Names
Calls == [provider : Providers, name : Names, id : Nat, function : Functions \cup {""}, fits : SUBSET Functions]

ASSUME InventoryAssumption ==
    /\ MaxProcs \in [Providers -> Nat \ {0}]
    /\ \A l \in Listings : /\ l \subseteq [name : Names, claims : SUBSET Claims, functions : SUBSET Functions]
                           /\ \A d, e \in l : d.name = e.name => d = e
                           /\ \A d \in l : \A f, g \in d.functions : Specs[f].id = Specs[g].id => f = g
    /\ \A s \in Safeties : \A c \in s.hooks \cup s.setpoints : c \in Calls
    /\ \A c \in FaultHooks \cup Requests : c \in Calls
    /\ BehindStop \subseteq Handles

VARIABLES safety,     \* safety.safe_state, fixed by the configuration
          phase,      \* of Runtime::initialize
          processes,  \* how many processes each provider has had
          serving,    \* the one that serves, 0 for none
          handle,     \* the one in ProviderRegistry
          published,  \* DeviceRegistry
          plan,       \* poll_configs_
          restart,    \* restart_provider: where it is, the provider and what was found
          reported,   \* what the last preflight could not dispatch or found uncovered
          call,       \* execute_call, for an operator or for the ladder
          poll,       \* poll_once
          ladder      \* run_ladder: where it is, its rung, the outputs it planned for, the
                      \* devices it wants, the calls to make, what they did

inventory == <<processes, serving, handle, published, plan>>
threads == <<call, poll, ladder>>
vars == <<safety, phase, inventory, restart, reported, threads>>

Device(d, proc) == [name |-> d.name, claims |-> d.claims, functions |-> d.functions, proc |-> proc]
IsDevice(d, p) == /\ d.name \in Names /\ d.claims \subseteq Claims /\ d.functions \subseteq Functions
                  /\ d.proc \in 1..processes[p]
NoDevice == [name |-> "none", claims |-> {}, functions |-> {}, proc |-> 0]

NoRestart == [at |-> "none", provider |-> "none", found |-> {}]
NoCall == [at |-> "none", req |-> {}, proc |-> 0, dev |-> NoDevice]
NoPoll == [at |-> "none", provider |-> "none", proc |-> 0, dev |-> NoDevice, seen |-> 0]
NoLadder == [at |-> "none", kind |-> "none", against |-> {}, wanted |-> {}, todo |-> {}, driven |-> {}, results |-> {}]

TypeOK ==
    /\ safety \in Safeties
    /\ phase \in {"providers", "cache", "outputs", "up", "failed"}
    /\ \A p \in Providers :
          /\ processes[p] \in 0..MaxProcs[p]
          /\ {serving[p], handle[p]} \subseteq 0..processes[p]
          /\ \A d \in published[p] \cup plan[p] : IsDevice(d, p)
          /\ \A d, e \in published[p] : d.name = e.name => d = e
    /\ restart.at \in {"none", "stop", "inspect", "validate", "commit", "drop", "add", "swap", "preflight"}
    /\ call.at \in {"none", "resolve", "send"} /\ poll.at \in {"none", "provider", "read"}
    /\ ladder.at \in {"none", "list", "calls"} /\ ladder.results \subseteq Results

Init ==
    /\ safety \in Safeties
    /\ phase = "providers"
    /\ processes = [p \in Providers |-> 0]
    /\ serving = processes /\ handle = processes
    /\ published = [p \in Providers |-> {}] /\ plan = published
    /\ restart = NoRestart /\ reported = [calls |-> {}, outputs |-> {}]
    /\ call = NoCall /\ poll = NoPoll /\ ladder = NoLadder

-----------------------------------------------------------------------------
(* What a process declares, and the checks over it.                        *)

\* inspect_provider_devices: of what is listed, the devices whose description comes.
Inspected(proc) == {{Device(d, proc) : d \in ds} : ds \in UNION {SUBSET l : l \in Listings}}

\* validate_ownership_claims, over devices with their providers.
ClaimsDistinct(owned) == \A a, b \in owned : a.dev.claims \cap b.dev.claims # {} => a = b

All(devices) == UNION {{[provider |-> p, dev |-> d] : d \in devices[p]} : p \in Providers}

\* A broken ownership check: the replacement is looked at alone.
ReplacementValidAlone(p, found) == ClaimsDistinct({[provider |-> p, dev |-> d] : d \in found})

\* validate_ownership_claims_after_provider_replacement: of the inventory as it would be.
ReplacementValid(p, found) == ClaimsDistinct(All([published EXCEPT ![p] = found]))

\* validate_call: the device is there, the selectors resolve and the arguments fit.
Dispatchable(c, devices) ==
    \E d \in devices[c.provider] : d.name = c.name /\ ResolveFunction(c, d.functions) \cap c.fits # {}

\* A broken coverage report: a declared call counts whether or not it can be dispatched.
UncoveredDeclared(kind, devices) ==
    LET outputs == Outputs(All(devices))
    IN  CASE kind = "hooks" -> Uncovered(outputs, safety.hooks)
          [] kind = "setpoints" -> Uncovered(outputs, safety.setpoints)
          [] kind = "zero" -> {o \in outputs : ~ZeroArgs(o.function)}
          [] kind = "none" -> outputs

\* SafeStateController::uncovered_functions: the outputs the rung would not drive.
UncoveredFunctions(kind, devices) ==
    LET outputs == Outputs(All(devices))
        fit(calls) == {c \in calls : Dispatchable(c, devices)}
    IN  CASE kind = "hooks" -> Uncovered(outputs, fit(safety.hooks))
          [] kind = "setpoints" -> Uncovered(outputs, fit(safety.setpoints))
          [] kind = "zero" -> {o \in outputs : ~ZeroArgs(o.function) \/ ~Dispatchable(ZeroCall(o), devices)}
          [] kind = "none" -> outputs

\* preflight_declared_calls: the declared calls that cannot be dispatched, and the outputs
\* that no AUTO -> FAULT hook drives.
Preflight(devices) ==
    [calls   |-> {c \in safety.hooks \cup safety.setpoints \cup FaultHooks : ~Dispatchable(c, devices)},
     outputs |-> IF FaultHooks = {} THEN {}
                 ELSE Uncovered(Outputs(All(devices)), {c \in FaultHooks : Dispatchable(c, devices)})]

-----------------------------------------------------------------------------
(* Start-up, on one thread.                                                *)

\* A provider is started, discovered and registered.
BringUp(p) ==
    /\ phase = "providers" /\ handle[p] = 0
    /\ processes' = [processes EXCEPT ![p] = 1]
    /\ serving' = [serving EXCEPT ![p] = 1]
    /\ handle' = [handle EXCEPT ![p] = 1]
    /\ \E found \in Inspected(1) : published' = [published EXCEPT ![p] = found]
    /\ UNCHANGED <<safety, phase, plan, restart, reported, threads>>

\* Every provider is up: the ownership check, then the preflight.
CheckOwnership ==
    /\ phase = "providers" /\ \A p \in Providers : handle[p] # 0
    /\ phase' = IF ClaimsDistinct(All(published)) THEN "cache" ELSE "failed"
    /\ reported' = IF ClaimsDistinct(All(published)) THEN Preflight(published) ELSE reported
    /\ UNCHANGED <<safety, inventory, restart, threads>>

\* A stage failed or the start-up deadline has passed.
StartupFails ==
    /\ phase \in {"providers", "cache", "outputs"} /\ ladder = NoLadder
    /\ phase' = "failed"
    /\ UNCHANGED <<safety, inventory, restart, reported, threads>>

\* StateCache::initialize.
InitCache ==
    /\ phase = "cache"
    /\ plan' = published
    /\ phase' = "outputs"
    /\ UNCHANGED <<safety, processes, serving, handle, published, restart, reported, threads>>

\* safety.on_startup is leave; the later stages leave the inventory alone.
LeaveOutputs ==
    /\ phase = "outputs" /\ ladder = NoLadder
    /\ phase' = "up"
    /\ UNCHANGED <<safety, inventory, restart, reported, threads>>

-----------------------------------------------------------------------------
(* restart_provider.                                                       *)

\* The main loop found the provider not available.
BeginRestart(p) ==
    /\ phase = "up" /\ restart.at = "none" /\ serving[p] # handle[p] /\ processes[p] < MaxProcs[p]
    /\ restart' = [at |-> "stop", provider |-> p, found |-> {}]
    /\ UNCHANGED <<safety, phase, inventory, reported, threads>>

\* Any step up to the ownership check may fail; a replacement already started is destroyed.
RestartFails ==
    /\ restart.at \in {"stop", "inspect", "validate"}
    /\ serving' = [serving EXCEPT ![restart.provider] = 0]
    /\ restart' = NoRestart
    /\ UNCHANGED <<safety, phase, processes, handle, published, plan, reported, threads>>

\* The old process and all it started are gone, and the replacement is up.
StartReplacement ==
    /\ restart.at = "stop"
    /\ processes' = [processes EXCEPT ![restart.provider] = @ + 1]
    /\ serving' = [serving EXCEPT ![restart.provider] = processes'[restart.provider]]
    /\ restart' = [restart EXCEPT !.at = "inspect"]
    /\ UNCHANGED <<safety, phase, handle, published, plan, reported, threads>>

\* inspect_provider_devices of the replacement.
Inspect ==
    /\ restart.at = "inspect"
    /\ \E found \in Inspected(processes[restart.provider]) : restart' = [restart EXCEPT !.at = "validate", !.found = found]
    /\ UNCHANGED <<safety, phase, inventory, reported, threads>>


\* Publication: the devices, the poll plan, the handle, the preflight.
Following(at) ==
    CASE at = "validate" -> "commit" [] at = "commit" -> "drop" [] at = "drop" -> "add" [] at = "add" -> "swap"
      [] at = "swap" -> "preflight" [] at = "preflight" -> "none"

Advance == restart' = IF Following(restart.at) = "none" THEN NoRestart ELSE [restart EXCEPT !.at = Following(restart.at)]

\* The last check before publication.
Validate ==
    /\ restart.at = "validate" /\ ReplacementValid(restart.provider, restart.found)
    /\ Advance
    /\ UNCHANGED <<safety, phase, inventory, reported, threads>>

\* commit_provider_devices with replace_existing, under the registry's lock.
ReplaceDevices(p, found) == found

\* The replacement's devices are published.
Commit ==
    /\ restart.at = "commit"
    /\ published' = [published EXCEPT ![restart.provider] = ReplaceDevices(restart.provider, restart.found)]
    /\ Advance
    /\ UNCHANGED <<safety, phase, processes, serving, handle, plan, reported, threads>>

\* rebuild_poll_configs: the old configs go, then those of the published devices come.
Rebuild ==
    /\ \/ restart.at = "drop" /\ plan' = [plan EXCEPT ![restart.provider] = {}]
       \/ restart.at = "add" /\ plan' = [plan EXCEPT ![restart.provider] = published[restart.provider]]
    /\ Advance
    /\ UNCHANGED <<safety, phase, processes, serving, handle, published, reported, threads>>

\* ProviderRegistry::add_provider.
Swap ==
    /\ restart.at = "swap"
    /\ handle' = [handle EXCEPT ![restart.provider] = processes[restart.provider]]
    /\ Advance
    /\ UNCHANGED <<safety, phase, processes, serving, published, plan, reported, threads>>

\* The preflight against what is published now; the hookless gate after it is AutoGate's.
PreflightAgain ==
    /\ restart.at = "preflight"
    /\ reported' = Preflight(published)
    /\ Advance
    /\ UNCHANGED <<safety, phase, inventory, threads>>

-----------------------------------------------------------------------------
(* A call, a poll and the ladder.                                          *)

Available(p) == handle[p] # 0 /\ serving[p] = handle[p]

Quiet == call = NoCall /\ poll = NoPoll /\ ladder = NoLadder

\* execute_call: the provider first ...
GetProvider(c) == call' = [NoCall EXCEPT !.at = "resolve", !.req = c, !.proc = handle[c.provider]]

\* An operator's call.
OperatorCall(c) ==
    /\ phase = "up" /\ Quiet /\ Available(c.provider)
    /\ GetProvider(c)
    /\ UNCHANGED <<safety, phase, inventory, restart, reported, poll, ladder>>

\* A call of the ladder has returned.
Outcome(result, driven) ==
    ladder' = IF ladder = NoLadder THEN ladder
              ELSE [ladder EXCEPT !.results = @ \cup {result}, !.driven = @ \cup driven]

\* ... then the device and the function on it, and the arguments ...
Resolve ==
    /\ call.at = "resolve"
    /\ IF Dispatchable(call.req, published)
       THEN /\ call' = [call EXCEPT !.at = "send",
                                   !.dev = CHOOSE d \in published[call.req.provider] : d.name = call.req.name]
            /\ UNCHANGED ladder
       ELSE call' = NoCall /\ Outcome("config", {})
    /\ UNCHANGED <<safety, phase, inventory, restart, reported, poll>>

\* ... then it is sent, and is answered or fails.
Send(ok) ==
    /\ call.at = "send" /\ (ok => call.proc = serving[call.req.provider])
    /\ call' = NoCall
    /\ IF ok
       THEN Outcome("ok", {[provider |-> call.req.provider, name |-> call.req.name, proc |-> call.proc, function |-> f] :
                             f \in ResolveFunction(call.req, call.dev.functions)})
       ELSE Outcome("run", {})
    /\ UNCHANGED <<safety, phase, inventory, restart, reported, poll>>

\* run_ladder for some of the devices: the rung, planned over the whole inventory.
PlanLadder(wanted) ==
    LET outputs == Outputs(All(published))
        kind == PlannedKind(safety, outputs)
        calls == CASE kind = "hooks" -> safety.hooks [] kind = "setpoints" -> safety.setpoints [] OTHER -> {}
    IN  /\ Quiet
        /\ ladder' = [NoLadder EXCEPT
                         !.at = IF kind = "zero" THEN "list" ELSE "calls", !.kind = kind, !.wanted = wanted,
                         !.against = {o \in outputs : <<o.provider, o.name>> \in wanted},
                         !.todo = {c \in calls : <<c.provider, c.name>> \in wanted}]
        /\ UNCHANGED <<safety, phase, inventory, restart, reported, call, poll>>

\* devices_reported_missing: the provider answers, and says a device not registered is
\* unreachable.
MayBeMissing == {h \in Handles : Available(h[1]) /\ \A d \in published[h[1]] : d.name # h[2]}

\* apply_startup_outputs: not the devices their provider reports missing, nor those behind
\* a stop chain in force.
StartupLadder ==
    /\ phase = "outputs"
    /\ \E missing \in SUBSET MayBeMissing, behind \in {{}, BehindStop} : PlanLadder(Handles \ (missing \cup behind))

\* trigger() for every device, reassert_for() for one that has returned.
RunLadder ==
    /\ phase = "up"
    /\ \E wanted \in {Handles} \cup {{h} : h \in Handles} : PlanLadder(wanted)

\* The zero rung reads the inventory once more.
ListOutputs ==
    LET outputs == {o \in Outputs(All(published)) : <<o.provider, o.name>> \in ladder.wanted}
    IN  /\ ladder.at = "list"
        /\ ladder' = [ladder EXCEPT !.at = "calls", !.against = outputs, !.todo = {ZeroCall(o) : o \in outputs}]
        /\ UNCHANGED <<safety, phase, inventory, restart, reported, call, poll>>

\* run_call, run_zero_call: one at a time, and a failure does not stop the others.
LadderCall(c) ==
    /\ ladder.at = "calls" /\ call = NoCall
    /\ LET rest == [ladder EXCEPT !.todo = @ \ {c}]
           fails(cause) == ladder' = [rest EXCEPT !.results = @ \cup {cause}] /\ UNCHANGED call
       IN  IF ladder.kind = "zero" /\ ~ZeroArgs(c.function) THEN fails("config")
           ELSE IF Available(c.provider) THEN GetProvider(c) /\ ladder' = rest
           ELSE fails("run")
    /\ UNCHANGED <<safety, phase, inventory, restart, reported, poll>>

LadderOver == ladder.at = "calls" /\ ladder.todo = {} /\ call = NoCall

\* It returns its verdict; start-up goes on.
LadderReturns ==
    /\ LadderOver
    /\ ladder' = NoLadder
    /\ phase' = "up"
    /\ UNCHANGED <<safety, inventory, restart, reported, call, poll>>

\* poll_once and poll_device_now: a copy of the plan first ...
CopyPlan(p, d) ==
    /\ phase = "up" /\ Quiet
    /\ poll' = [at |-> "provider", provider |-> p, proc |-> 0, dev |-> d, seen |-> handle[p]]
    /\ UNCHANGED <<safety, phase, inventory, restart, reported, call, ladder>>

\* ... then the provider, which may not be available.
PollProvider ==
    /\ poll.at = "provider"
    /\ poll' = IF Available(poll.provider) THEN [poll EXCEPT !.at = "read", !.proc = handle[poll.provider]] ELSE NoPoll
    /\ UNCHANGED <<safety, phase, inventory, restart, reported, call, ladder>>

\* read_signals.
Read ==
    /\ poll.at = "read"
    /\ poll' = NoPoll
    /\ UNCHANGED <<safety, phase, inventory, restart, reported, call, ladder>>

\* A process ends, or its session breaks.
ProcessEnds(p) ==
    /\ phase \in {"outputs", "up"} /\ serving[p] # 0
    /\ serving' = [serving EXCEPT ![p] = 0]
    /\ UNCHANGED <<safety, phase, processes, handle, published, plan, restart, reported, threads>>

Next ==
    \/ \E p \in Providers : BringUp(p) \/ BeginRestart(p) \/ ProcessEnds(p) \/ \E d \in plan[p] : CopyPlan(p, d)
    \/ CheckOwnership \/ StartupFails \/ InitCache \/ LeaveOutputs
    \/ RestartFails \/ StartReplacement \/ Inspect \/ Validate \/ Commit \/ Rebuild \/ Swap \/ PreflightAgain
    \/ \E c \in Requests : OperatorCall(c)
    \/ Resolve \/ (\E ok \in BOOLEAN : Send(ok))
    \/ StartupLadder \/ RunLadder \/ ListOutputs \/ (\E c \in ladder.todo : LadderCall(c)) \/ LadderReturns
    \/ PollProvider \/ Read

Spec == Init /\ [][Next]_vars

-----------------------------------------------------------------------------
\* Once the runtime is up every claim belongs to one device of one provider, through every
\* restart (ownership_validation.cpp: "Each anolis.claim key must belong to exactly one
\* device").
ClaimsUnique == phase \in {"cache", "outputs", "up"} => ClaimsDistinct(All(published))

\* A call that a process takes was resolved and checked against the functions that very
\* process declared, though execute_call() looks up the provider and the device apart and
\* a restart may publish between them.
CallMatchesProcess == call.at = "send" /\ call.proc = serving[call.req.provider] => call.dev.proc = call.proc

\* A poll that copied its plan with a process already registered asks that process only for
\* devices it declared (restart_provider: "subsequent reads and post-call refreshes observe
\* the replacement device inventory immediately after publication").
PollMatchesProcess ==
    poll.at = "read" /\ poll.proc = serving[poll.provider] /\ poll.seen = poll.proc => poll.dev.proc = poll.proc

\* When the ladder reports the safe state achieved by setpoints or by zeroing, every output
\* it was asked to drive was driven by a call that went through, on the process that declared
\* it, though the plan and each call read an inventory that a restart may change; an output
\* no longer published as it was planned is excused (safe_state.cpp: "Setpoints apply only if
\* they cover every actuating output (fail closed)").
VerdictIsTrue ==
    LadderOver /\ ladder.kind \in {"setpoints", "zero"} /\ Verdict(ladder.kind, ladder.results) =>
        ladder.against \cap Outputs(All(published)) \subseteq ladder.driven

\* The coverage that GET /v0/runtime/status reports for the rung is what the rung does: when
\* no call fails for a reason of the moment, the ladder drives exactly the outputs not
\* reported uncovered (safe_state.cpp uncovered_functions: "judged the way it would run").
CoverageIsTrue ==
    LadderOver /\ "run" \notin ladder.results =>
        LET outputs == ladder.against \cap Outputs(All(published))
        IN  outputs \cap ladder.driven = outputs \ UncoveredFunctions(ladder.kind, published)

\* A declared call that the inventory cannot dispatch was named by the last preflight,
\* except while a restart is on its way from publishing to the preflight.
UndispatchableReported ==
    phase \in {"outputs", "up"} /\ restart.at \notin {"drop", "add", "swap", "preflight"} => Preflight(published) = reported

\* What is published has one owner per claim and its gaps were reported
\* (ownership_validation.cpp, runtime.cpp preflight_declared_calls), and every variable
\* has its type.
InventoryInv == TypeOK /\ ClaimsUnique /\ UndispatchableReported


=============================================================================
