---------------------------- MODULE MCStopChain -----------------------------
(* The poll loop and a post-call poll, a status and one device.            *)
EXTENDS StopChain

MCPolls == [loop |-> Signals, call |-> {Status}]
MCAnswers == [status |-> {[bool |-> TRUE, quality |-> "OK"]},
              device |-> {[bool |-> TRUE, quality |-> q] : q \in {"OK", "UNSPECIFIED"}}]
=============================================================================
