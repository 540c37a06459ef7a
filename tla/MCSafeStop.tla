----------------------------- MODULE MCSafeStop -----------------------------
(* Instances of SafeStop.  Each deployment pits some threads against each  *)
(* other over one output; d1 is free of restrictions, d2 is rate-limited   *)
(* and may be called in MANUAL only.                                       *)
EXTENDS SafeStop

CONSTANTS op, caller, tree, main, d1, d2, p1

OneProvider == [d \in Outputs |-> p1]
ManualD2 == [d \in Outputs |-> IF d = d2 THEN {"MANUAL"} ELSE {}]

\* A * -> FAULT hook, as docs/automation.md recommends, and hooks into AUTO too.
FaultHooks(D) == [m \in Modes \X Modes |-> IF m[2] = "FAULT" THEN D ELSE {}]
AutoHooks(D) == [m \in Modes \X Modes |-> IF m[2] \in {"AUTO", "FAULT"} THEN D ELSE {}]
NoHooks == [m \in Modes \X Modes |-> {}]

\* "stop": a stop with a rung against a caller and the tree.
\* "chain": stop, clear and the stop chain against a caller and the re-issue worker.
\* "none": a stop with no rung against mode changes and a tree that may fault.
\* "loss": the tree against mode changes and the re-issue worker, devices lost.
\* "live": a stop with a rung against the tree.
\* "hooks": a stop with no rung against the tree.
Given == [c \in Deployments |-> IF c = "chain" THEN {d2} ELSE {d1}]

Roles == [c \in Deployments |-> [t \in Threads |->
    CASE t = op -> (CASE c \in {"stop", "chain"} -> {"mode", "stop", "clear"}
                      [] c \in {"live", "hooks"} -> {"mode", "stop"}
                      [] c = "none" -> {"stop"}
                      [] OTHER -> {"mode"})
      [] t = caller -> (CASE c = "stop" -> {"call"}
                          [] c = "chain" -> {"call", "reissue"}
                          [] c = "none" -> {"mode", "clear"}
                          [] c = "loss" -> {"reissue"}
                          [] OTHER -> {})
      [] t = tree -> IF c = "chain" THEN {} ELSE {"tick"}
      [] t = main -> IF c = "chain" THEN {"chain"} ELSE {}]]

Rung == [c \in Deployments |-> IF c \in {"none", "hooks"} THEN {} ELSE Given[c]]

Before == [c \in Deployments |-> CASE c = "none" -> AutoHooks(Given[c])
                                   [] c = "loss" -> NoHooks
                                   [] OTHER -> FaultHooks(Given[c])]

After_ == [c \in Deployments |-> NoHooks]

Dark == [c \in Deployments |-> IF c = "loss" THEN Given[c] ELSE {}]
=============================================================================
