---------------------------- MODULE MCRunJournal ----------------------------
(* Instances of RunJournal: see the cfg files for the bounds.              *)
EXTENDS RunJournal
=============================================================================
