---------------------------- MODULE MCAutomation ----------------------------
(***************************************************************************)
(* Four-bit integers and doubles exact to 4: -8..7, 0..15, and 5 is not a  *)
(* double.  Numbers are in halves.  A pulse tree on either policy, and a   *)
(* level tree on each type of parameter and argument.                      *)
(***************************************************************************)
EXTENDS Automation

Spec64(type, min, max) == [type |-> type, min |-> min, max |-> max]

MCPulses == {[tree |-> "pulse", policy |-> p, spec |-> Spec64("int64", 0, 6), ptype |-> "int64",
              posts |-> {0, 2, 6}, calls |-> {2}] : p \in {"repeat", "stop"}}

MCLevels == {[tree |-> "level", policy |-> "repeat", spec |-> s, ptype |-> t,
              posts |-> {-6, 3, 6, 10}, calls |-> {-6, 3, 8, 10, 16, 30}] :
                 s \in {Spec64("int64", -2, 14), Spec64("uint64", 0, 30), Spec64("double", -16, 30)},
                 t \in {"int64", "double"}}

MCConfigs == MCPulses \cup MCLevels
=============================================================================
