-------------------------- MODULE LatchStore_proofs --------------------------
(***************************************************************************)
(* Proofs about LatchStore: what save() and remove() report is durable.    *)
(***************************************************************************)
EXTENDS LatchStore, TLAPS

\* The first start satisfies the invariant.
LEMMA StoreInit == Init => StoreInv
<1> SUFFICES ASSUME Init
             PROVE  StoreInv
  OBVIOUS
<1>1. TypeOK
  BY DEF Init, TypeOK, Phases
<1>2. SavingIsEngaged /\ UnlinkingIsUnsaved /\ SyncsTheChange /\ SavedIsDurable /\ RemovedIsDurable
  BY DEF Init, SavingIsEngaged, Saving, UnlinkingIsUnsaved, SyncsTheChange, SavedIsDurable,
         RemovedIsDurable
<1>3. SyncedDirExists
  BY DEF Init, SyncedDirExists
<1> QED
  BY <1>1, <1>2, <1>3 DEF StoreInv

\* Every system call of save() and remove(), every crash and every start keeps it.
LEMMA StoreNext == StoreInv /\ [Next]_vars => StoreInv'
<1> SUFFICES ASSUME StoreInv, [Next]_vars
             PROVE  StoreInv'
  OBVIOUS
<1> USE DEF StoreInv, TypeOK, Phases, SavingIsEngaged, Saving, UnlinkingIsUnsaved, SyncsTheChange,
        SavedIsDurable, RemovedIsDurable, SyncedDirExists
<1>1. CASE Engage
  BY <1>1 DEF Engage
<1>2. CASE MakeDir
  <2>1. /\ phase' \in {"write_tmp", "ladder"} /\ cleared = "no" /\ dir' \in BOOLEAN
        /\ dirSynced' \in BOOLEAN
        /\ UNCHANGED <<latched, file, maybe, saved, cleared, restored>>
    BY <1>2 DEF MakeDir
  <2>2. SyncedDirExists'
    BY <1>2 DEF MakeDir
  <2>3. dirSynced => dirSynced'
    BY <1>2 DEF MakeDir
  <2> QED
    BY <2>1, <2>2, <2>3
<1>3. CASE WriteTmp
  BY <1>3 DEF WriteTmp, Advance
<1>4. CASE SyncTmp
  BY <1>4 DEF SyncTmp, Advance
<1>5. CASE Rename
  BY <1>5 DEF Rename
<1>6. CASE SyncRename
  <2>1. file = "record" /\ cleared' = "no" /\ phase' = "ladder" /\ file' = file
    BY <1>6 DEF SyncRename
  <2>2. CASE maybe' = {file} /\ saved' = Reported
    <3>1. maybe' = {"record"}
      BY <2>1, <2>2
    <3> QED
      BY <1>6, <2>1, <2>2, <3>1 DEF SyncRename, Reported
  <2>3. CASE UNCHANGED <<maybe, saved>>
    BY <1>6, <2>1, <2>3 DEF SyncRename
  <2> QED
    BY <1>6, <2>2, <2>3 DEF SyncRename
<1>7. CASE FinishEngage
  BY <1>7 DEF FinishEngage
<1>8. CASE ClearLatch
  BY <1>8 DEF ClearLatch
<1>9. CASE Unlink
  BY <1>9 DEF Unlink
<1>10. CASE SyncUnlink
  BY <1>10 DEF SyncUnlink
<1>11. CASE Crash
  BY <1>11 DEF Crash
<1>12. CASE PowerCut
  <2>1. /\ file' \in {"absent", "record"} /\ maybe' = {file'} /\ dir' \in BOOLEAN
        /\ dirSynced' = dir' /\ phase' = "down"
        /\ UNCHANGED <<latched, saved, cleared, restored>>
    BY <1>12 DEF PowerCut
  <2>2. dirSynced => dir' /\ file' \in maybe
    BY <1>12 DEF PowerCut
  <2>3. saved = "durable" => dirSynced' /\ file' = "record"
    <3>1. saved = "durable" => dirSynced /\ maybe = {"record"}
      OBVIOUS
    <3> QED
      BY <2>1, <2>2, <3>1
  <2>4. cleared = "removed" => file' = "absent"
    BY <1>12 DEF PowerCut
  <2>5. SavedIsDurable' /\ RemovedIsDurable'
    BY <2>1, <2>3, <2>4
  <2> QED
    BY <2>1, <2>2, <2>5
<1>13. CASE Restart
  BY <1>13 DEF Restart
<1>14. CASE UNCHANGED vars
  BY <1>14 DEF vars
<1> QED
  BY <1>1, <1>2, <1>3, <1>4, <1>5, <1>6, <1>7, <1>8, <1>9, <1>10, <1>11, <1>12,
     <1>13, <1>14 DEF Next

\* What save() and remove() report is on stable storage, always.
THEOREM StoreInvariant == Spec => []StoreInv
  BY StoreInit, StoreNext, PTL DEF Spec

\* Only a start leaves the state "down", and it reads the file as it is then.
LEMMA OnlyRestartStarts ==
  ASSUME [Next]_vars, phase = "down", phase' = "idle"
  PROVE  Restart
  BY DEF Next, vars, Engage, MakeDir, WriteTmp, SyncTmp, Advance, Rename, SyncRename,
         FinishEngage, ClearLatch, Unlink, SyncUnlink, Crash, PowerCut, Restart

\* A stop that save() reported saved, into a durable directory, comes back latched
\* after every crash and power cut.
THEOREM SavedSurvives == Spec => SavedLatchSurvives
<1>1. StoreInv /\ [Next]_vars =>
        [phase = "down" /\ phase' = "idle" /\ saved = "durable" => latched']_vars
  BY OnlyRestartStarts DEF Restart, StoreInv, TypeOK, SavedIsDurable
<1> QED
  BY <1>1, StoreInvariant, PTL DEF Spec, SavedLatchSurvives

\* A stop whose file remove() unlinked, with success reported, never comes back.
THEOREM RemovedSurvives == Spec => RemovalSurvives
<1>1. StoreInv /\ [Next]_vars =>
        [phase = "down" /\ phase' = "idle" /\ cleared = "removed"
         => restored' # "record"]_vars
  BY OnlyRestartStarts DEF Restart, StoreInv, TypeOK, RemovedIsDurable
<1> QED
  BY <1>1, StoreInvariant, PTL DEF Spec, RemovalSurvives
=============================================================================
