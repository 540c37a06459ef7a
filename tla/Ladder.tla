------------------------------- MODULE Ladder -------------------------------
(***************************************************************************)
(* The safe-state ladder as a function of the inventory and the            *)
(* configuration (control/safe_state.cpp): which outputs there are, which  *)
(* rung is planned, which calls it makes and what its verdict is.          *)
(*                                                                         *)
(* A declared call selects a function by id (0 for none), by name ("" for  *)
(* none) or by both, and carries arguments that fit some functions.  An    *)
(* output is an actuating function of a published device.                  *)
(***************************************************************************)
EXTENDS Naturals

CONSTANT Specs  \* of each function: [id, category, args : sets of [required, type, hasZero]]

ASSUME SpecsAssumption ==
    \A f \in DOMAIN Specs :
        /\ Specs[f].id \in Nat \ {0}
        /\ Specs[f].category \in {"ACTUATE", "READ", "UNSPECIFIED"}
        /\ \A a \in Specs[f].args : a \in [required : BOOLEAN, type : {"number", "other"}, hasZero : BOOLEAN]

\* actuating_functions_for, of devices with their providers: only a function tagged ACTUATE.
Outputs(owned) ==
    UNION {{[provider |-> o.provider, name |-> o.dev.name, proc |-> o.dev.proc, function |-> f] :
               f \in {g \in o.dev.functions : Specs[g].category = "ACTUATE"}} : o \in owned}

\* resolve_function_spec: by id first, and a name beside it must agree.
ResolveFunction(c, functions) ==
    {f \in functions : IF c.id # 0 THEN c.id = Specs[f].id /\ c.function \in {"", f} ELSE c.function = f}

\* A broken setpoint_matches: one setpoint stands for its whole device.
SetpointMatchesDevice(c, o) == c.provider = o.provider /\ c.name = o.name

\* setpoint_matches.
SetpointMatches(c, o) ==
    /\ c.provider = o.provider /\ c.name = o.name
    /\ c.id # 0 => c.id = Specs[o.function].id
    /\ c.function # "" => c.function = o.function
    /\ c.id # 0 \/ c.function # ""

\* planned_safe_state_kind: setpoints only if they cover every output.
PlannedKind(safety, outputs) ==
    IF safety.hooks # {} THEN "hooks"
    ELSE IF safety.setpoints # {} /\ (\A o \in outputs : \E c \in safety.setpoints : SetpointMatches(c, o))
    THEN "setpoints"
    ELSE IF safety.zero THEN "zero" ELSE "none"

\* build_zero_args: every required argument is a number, and there is one.
ZeroArgs(f) ==
    LET required == {a \in Specs[f].args : a.required}
    IN  required # {} /\ \A a \in required : a.type = "number"

\* run_zero_call; the router then refuses a zero outside the argument's range.
ZeroCall(o) ==
    [provider |-> o.provider, name |-> o.name, id |-> Specs[o.function].id, function |-> o.function,
     fits |-> {f \in {o.function} : ZeroArgs(f) /\ \A a \in Specs[f].args : a.required => a.hasZero}]

\* What a call of the ladder came to; cause_of() tells a refusal the configuration fixes from
\* a failure of the moment.
Results == {"ok", "run", "config"}

\* run_ladder's safe_state_achieved, of the results of the calls it made.
Verdict(kind, results) == kind # "none" /\ results = {"ok"}

\* uncovered_actuating_functions: outputs that none of the calls, as far as it can be
\* dispatched, drives.
Uncovered(outputs, dispatchable) == {o \in outputs : \A c \in dispatchable : ~SetpointMatches(c, o)}
=============================================================================
