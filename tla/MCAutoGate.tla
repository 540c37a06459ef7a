----------------------------- MODULE MCAutoGate -----------------------------
(* AutoGate with the restart worker and two other threads, each of which    *)
(* takes every role: operator, software stop, stop chain.                   *)
EXTENDS AutoGate

CONSTANTS r, a, b
=============================================================================
