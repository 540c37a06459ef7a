----------------------------- MODULE Automation -----------------------------
(***************************************************************************)
(* The behaviour-tree runtime at work: its tick loop and run status, the   *)
(* nodes that turn a parameter into calls, and the router's last checks on *)
(* a call, against an operator who posts the parameter, changes the mode   *)
(* and makes calls of their own.                                           *)
(*                                                                         *)
(* Two trees.  "pulse": GetParameterInt64, RequestedPulseWindow,           *)
(* EmitOnChangeOrInterval on its output, CallDevice.  "level":             *)
(* GetParameter, BuildArgsJson, EmitOnChangeOrInterval on the arguments,   *)
(* CallDevice.  Time is kept as ages in ticks.  set_mode() is one step     *)
(* here; AutoGate has its interleavings.                                   *)
(***************************************************************************)
EXTENDS Arguments

CONSTANTS Configs,            \* configurations tried, see below
          MaxQueued, Delay, Pulse,  \* ports of RequestedPulseWindow
          KeepAlive, MinSpacing,    \* ports of EmitOnChangeOrInterval
          MinInterval,        \* min_interval_ms of the function
          Limit,              \* max_consecutive_call_failures
          MaxPosts            \* bound: posts of the parameter

ASSUME AutomationAssumption ==
    /\ \A c \in Configs : /\ c.tree \in {"pulse", "level"}
                         /\ c.policy \in {"repeat", "stop"}
                         /\ c.spec.type \in {"int64", "uint64", "double"}
                         /\ c.ptype \in {"int64", "double"}
                         /\ c.posts \subseteq Int /\ c.calls \subseteq Int
    /\ {MaxQueued, Pulse, Limit} \subseteq Nat \ {0}
    /\ {Delay, KeepAlive, MinSpacing, MinInterval, MaxPosts} \subseteq Nat

VARIABLES config,     \* tree, on_terminal policy, the function's argument specification,
                      \* the parameter's type, and the numbers the operator writes
          mode,
          param,      \* the parameter: its value and the number written for it
          loop,       \* the tick thread: where it is, and was_auto
          run,        \* the run status
          pulse,      \* RequestedPulseWindowNode
          emit,       \* EmitOnChangeOrIntervalNode
          call,       \* the call the tick is about to make: JSON and number meant
          sinceCall,  \* age of last_dispatch_
          out,        \* what the device was last sent, the number meant, and how long ago
          posts,      \* how often the operator posted
          owed,       \* presses made less pulses started
          streak      \* failed tree calls in a row in this stay in AUTO

vars == <<config, mode, param, loop, run, pulse, emit, call, sinceCall, out, posts, owed, streak>>
operator == <<param, posts>>
nodes == <<pulse, emit, owed>>

NoCall == [json |-> Refused, meant |-> 0]
CleanRun == [last |-> "IDLE", ended |-> FALSE, errors |-> FALSE, failures |-> 0]
Oldest == IF KeepAlive < MinSpacing THEN MinSpacing ELSE KeepAlive

\* The parameter's bounds lie within the numbers a double holds exactly.
Definition == [type |-> config.ptype, max |-> MaxExactDouble - 2,
               min |-> IF config.tree = "pulse" THEN 0 ELSE 2 - MaxExactDouble]

TypeOK ==
    /\ config \in Configs
    /\ mode \in {"MANUAL", "AUTO", "FAULT"}
    /\ param.value.type = config.ptype /\ param.value.num \in Definition.min..Definition.max
    /\ loop \in [at : {"sample", "tick", "call", "fault", "faulted"}, wasAuto : BOOLEAN]
    /\ run \in [last : {"IDLE", "SUCCESS", "FAILURE"}, ended : BOOLEAN, errors : BOOLEAN, failures : 0..Limit]
    /\ pulse \in [ready : BOOLEAN, last : Int64, queued : 0..MaxQueued, running : BOOLEAN, start : -Pulse..Delay]
    /\ emit.age \in 0..Oldest
    /\ loop.at = "call" <=> call # NoCall
    /\ sinceCall \in 0..MinInterval
    /\ posts \in 0..MaxPosts

Init ==
    /\ config \in Configs
    /\ mode = "MANUAL"
    /\ \E n \in {0, 2} : param = [value |-> Value(config.ptype, n), meant |-> n]
    /\ loop = [at |-> "sample", wasAuto |-> FALSE]
    /\ run = CleanRun
    /\ pulse = [ready |-> FALSE, last |-> 0, queued |-> 0, running |-> FALSE, start |-> 0]
    /\ emit = [has |-> FALSE, key |-> NoCall.json, age |-> 0]
    /\ call = NoCall
    /\ sinceCall = MinInterval
    /\ out = [num |-> 0, meant |-> 0, age |-> MinInterval]
    /\ posts = 0 /\ owed = 0 /\ streak = 0

-----------------------------------------------------------------------------
(* The operator.                                                           *)

Written(n) == Value(IF n % 2 = 0 THEN "integer" ELSE "float", n)

\* POST /v0/parameters and ParameterManager::set, of a number within the parameter's type.
Post(n) ==
    /\ posts < MaxPosts /\ (n % 2 = 0 => n \in Fits(config.ptype))
    /\ LET v == PostParameter(config.ptype, Written(n)) IN
       /\ v # Refused /\ ParameterValid(Definition, v) /\ v # param.value
       /\ param' = [value |-> v, meant |-> n]
       /\ owed' = IF n > param.meant THEN owed + (n - param.meant) \div 2 ELSE owed
    /\ posts' = posts + 1
    /\ UNCHANGED <<config, mode, loop, run, pulse, emit, call, sinceCall, out, streak>>

SetMode(new) ==
    /\ new # mode /\ (mode = "FAULT" => new = "MANUAL") /\ (new = "AUTO" => mode = "MANUAL")
    /\ mode' = new
    /\ streak' = 0
    /\ UNCHANGED <<config, operator, loop, run, nodes, call, sinceCall, out>>

-----------------------------------------------------------------------------
(* The end of execute_call(): arguments, then min_interval_ms.             *)


\* A call that passes is recorded before it is sent; a safe-state call always passes.
Dispatch(safe, sent, meant) ==
    /\ safe \/ sinceCall >= MinInterval
    /\ sinceCall' = 0
    /\ out' = [num |-> sent.num, meant |-> meant, age |-> 0]

\* The call is refused, by its arguments, the interval or any gate before them, and
\* nothing is recorded.  CallRouter has the gates.
Refuse == UNCHANGED <<sinceCall, out>>

\* POST /v0/call in MANUAL, in any type of number that can hold the one written.
ManualCall(type, n) ==
    /\ mode = "MANUAL" /\ n \in Fits(type) /\ (type = "double" => Abs(n) <= MaxExactDouble)
    /\ LET sent == Admit(config.spec, DecodeValue(type, Written(n))) IN sent # Refused /\ Dispatch(FALSE, sent, n)
    /\ UNCHANGED <<config, mode, operator, loop, run, nodes, call, streak>>

\* A call of the software stop's ladder.
SafeCall ==
    /\ Dispatch(TRUE, Value(config.spec.type, 0), 0)
    /\ UNCHANGED <<config, mode, operator, loop, run, nodes, call, streak>>

-----------------------------------------------------------------------------
(* The nodes.                                                              *)

\* The requests that may still be taken on; the running one counts.
Room(p, running) == MaxQueued - p.queued - (IF running THEN 1 ELSE 0)

\* The presses since the last tick; the first value, and one that drops, are a baseline.
Presses(p, request) == IF p.ready /\ request > p.last THEN (request - p.last) \div 2 ELSE 0

\* RequestedPulseWindowNode::tick.  "start" is start_ms_ less the time now.
PulseTick(p, request) ==
    LET running == p.running /\ p.start > -Pulse
        room == Room(p, running)
        new == Presses(p, request)
        queued == p.queued + (IF room < 0 THEN 0 ELSE IF new < room THEN new ELSE room)
        next == ~running /\ queued > 0
    IN [ready |-> TRUE, last |-> request,
        queued |-> IF next THEN queued - 1 ELSE queued,
        running |-> running \/ next,
        start |-> IF next THEN Delay ELSE IF running THEN p.start ELSE 0]

Active(p) == p.running /\ p.start <= 0 /\ p.start > -Pulse

\* A broken EmitOnChangeOrInterval: no keepalive.
EmitsOnChange(e, key) == ~e.has \/ (key # e.key /\ e.age >= MinSpacing)

\* EmitOnChangeOrIntervalNode::tick.
Emits(e, key) ==
    \/ ~e.has
    \/ key # e.key /\ e.age >= MinSpacing
    \/ KeepAlive > 0 /\ e.age >= KeepAlive

-----------------------------------------------------------------------------
(* The tick loop.                                                          *)

\* A broken tick loop: every round starts a new run.
NewRunEachRound == TRUE

\* Entering AUTO starts a new run.
NewRun == ~loop.wasAuto

\* Under on_terminal: stop a run whose root has returned ticks no more.
Over(r) == r.ended

\* The head of a round: is this AUTO, is it a new run, has the run ended?
Sample ==
    /\ loop.at = "sample"
    /\ IF mode # "AUTO"
       THEN loop' = [loop EXCEPT !.wasAuto = FALSE] /\ UNCHANGED run
       ELSE /\ run' = IF NewRun THEN CleanRun ELSE run
            /\ loop' = [at |-> IF Over(run') THEN "sample" ELSE "tick", wasAuto |-> TRUE]
    /\ UNCHANGED <<config, mode, operator, nodes, call, sinceCall, out, streak>>

\* The tick returned: the status is recorded, and may end the run.
Record(status) ==
    /\ run' = [run EXCEPT !.last = status, !.ended = @ \/ config.policy = "stop",
                          !.failures = IF status = "SUCCESS" /\ loop.at = "call" THEN 0 ELSE
                                       IF status = "FAILURE" /\ loop.at = "call" THEN @ + 1 ELSE @]
    /\ loop' = [loop EXCEPT !.at = "sample"]

\* The tree up to its call: what to send, and whether to send it this tick.
Tick ==
    /\ loop.at = "tick"
    /\ LET p == PulseTick(pulse, GetTyped("int64", param.value).num)
           level == IF Active(p) THEN 2 ELSE 0
       IN \E json \in IF config.tree = "pulse" THEN {Value("integer", level)}
                      ELSE BuildArg(IF config.spec.type = "double" THEN "double" ELSE "int64",
                                    GetParameter(param.value)) :
             /\ IF config.tree = "pulse" THEN pulse' = p ELSE UNCHANGED pulse
             /\ owed' = IF pulse'.running /\ (~pulse.running \/ pulse.start <= -Pulse) THEN owed - 1 ELSE owed
             /\ \/ json = Refused /\ UNCHANGED <<emit, call>> /\ Record("FAILURE")
                \/ json # Refused /\ ~Emits(emit, json) /\ UNCHANGED <<emit, call>> /\ Record("SUCCESS")
                \/ /\ json # Refused /\ Emits(emit, json)
                   /\ emit' = [has |-> TRUE, key |-> json, age |-> 0]
                   /\ call' = [json |-> json, meant |-> IF config.tree = "pulse" THEN level ELSE param.meant]
                   /\ loop' = [loop EXCEPT !.at = "call"]
                   /\ UNCHANGED run
    /\ UNCHANGED <<config, mode, operator, sinceCall, out, streak>>

\* CallDevice failed: record_call_result counts it, and throws at the limit.
CallFailed ==
    /\ IF run.failures + 1 < Limit THEN Record("FAILURE")
       ELSE /\ run' = [run EXCEPT !.failures = Limit]
            /\ loop' = [loop EXCEPT !.at = "fault"]
    /\ streak' = IF mode = "AUTO" THEN streak + 1 ELSE streak

\* CallDeviceNode's call, refused, failing or done.  A call that fails may have been applied.
Call ==
    /\ loop.at = "call"
    /\ LET sent == Admit(config.spec, FromJson(call.json)) IN
       \/ Refuse /\ CallFailed
       \/ /\ sent # Refused
          /\ \/ Dispatch(FALSE, sent, call.meant) /\ Record("SUCCESS") /\ streak' = 0
             \/ /\ \/ Dispatch(FALSE, sent, call.meant)
                   \/ Dispatch(FALSE, Value("double", out.num), out.meant)
                /\ CallFailed
    /\ call' = NoCall
    /\ UNCHANGED <<config, mode, operator, nodes>>

\* The tick threw: the error is recorded and FAULT requested.
Fault ==
    /\ loop.at = "fault"
    /\ run' = [run EXCEPT !.errors = TRUE, !.last = "FAILURE"]
    /\ mode' = "FAULT"
    /\ streak' = 0
    /\ loop' = [loop EXCEPT !.at = "faulted"]
    /\ UNCHANGED <<config, operator, nodes, call, sinceCall, out>>

\* Out of AUTO the run is over, even if AUTO is entered again before the next round.
Faulted ==
    /\ loop.at = "faulted"
    /\ loop' = [at |-> "sample", wasAuto |-> mode = "AUTO" /\ loop.wasAuto]
    /\ UNCHANGED <<config, mode, operator, run, nodes, call, sinceCall, out, streak>>

\* BTRuntime::status, without the stall heuristic.
Status ==
    CASE run.errors /\ run.last = "FAILURE" -> "failed"
      [] mode = "AUTO" /\ run.ended -> IF run.last = "SUCCESS" THEN "completed" ELSE "failed"
      [] mode # "AUTO" -> "idle"
      [] OTHER -> "running"

Up(age, most) == IF age < most THEN age + 1 ELSE most

Clock ==
    /\ sinceCall' = Up(sinceCall, MinInterval)
    /\ out' = [out EXCEPT !.age = Up(@, MinInterval)]
    /\ emit' = [emit EXCEPT !.age = Up(@, Oldest)]
    /\ pulse' = [pulse EXCEPT !.start = IF pulse.running /\ @ > -Pulse THEN @ - 1 ELSE @]
    /\ UNCHANGED <<config, mode, operator, loop, run, owed, call, streak>>

Next ==
    \/ \E n \in config.posts : Post(n)
    \/ \E n \in config.calls, type \in {"int64", "uint64", "double"} : ManualCall(type, n)
    \/ \E new \in {"MANUAL", "AUTO", "FAULT"} : SetMode(new)
    \/ SafeCall
    \/ Sample \/ Tick \/ Call \/ Fault \/ Faulted
    \/ Clock

Spec == Init /\ [][Next]_vars

\* The tick thread runs and time passes; nobody is obliged to do anything else.
FairSpec == Spec /\ WF_vars(Sample \/ Tick \/ Call \/ Fault \/ Faulted) /\ WF_vars(Clock)

-----------------------------------------------------------------------------


\* The queue of RequestedPulseWindow stays within max_queued, the running pulse included,
\* and a pulse starts only for a press: the counter's first value, and a counter that
\* drops, start none (bt_nodes.hpp).
PulsesAsked == pulse.queued + (IF pulse.running THEN 1 ELSE 0) <= MaxQueued /\ owed >= 0

\* The tree's calls never fail more than max_consecutive_call_failures times in a row
\* within one stay in AUTO (docs/configuration-schema.md).
StreakFaults == streak <= Limit

\* A run reported completed makes no call (configuration-schema.md: "stop ends the run: no
\* more ticks or calls, and execution_status is completed or failed").
CompletedIsQuiet == Status = "completed" => loop.at \notin {"tick", "call"}

\* Pulses are bounded by the presses, failures by the limit, and an ended run is still
\* (bt_nodes.cpp, bt_runtime.cpp); every variable has its type.
AutomationInv == TypeOK /\ PulsesAsked /\ StreakFaults /\ CompletedIsQuiet

\* In AUTO that lasts, the last pulse's end reaches the device: a change that the interval
\* refused is sent again by the keepalive.
PulseEndArrives ==
    config.tree = "pulse" /\ config.policy = "repeat" /\ <>[](mode = "AUTO") => <>[](out.num = 0 \/ Active(pulse))

=============================================================================
