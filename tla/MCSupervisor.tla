---------------------------- MODULE MCSupervisor ----------------------------
(* A small instance of Supervisor: two providers, the backoff is zero      *)
(* for a first restart, and the second provider is supervised or not.      *)
EXTENDS Supervisor

CONSTANTS p1, p2

TwoProviders == <<p1, p2>>
NoDelayFirst == <<0, 1>>
=============================================================================
