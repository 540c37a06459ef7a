---------------------------- MODULE MCLatchStore ----------------------------
(* LatchStore is finite as it stands.                                      *)
EXTENDS LatchStore
=============================================================================
