---------------------------- MODULE MCTelemetry -----------------------------
(* Two producers, two SSE clients for one slot, and the sink.              *)
EXTENDS Telemetry

SomeEmissions == {[kind |-> "availability", scope |-> "a"], [kind |-> "mode", scope |-> "b"]}

\* A subscription is given its own size; the sink's is the one that overflows here.
QueueSizes == [s \in Subscribers |-> IF s = Sink THEN 1 ELSE 2]
=============================================================================
