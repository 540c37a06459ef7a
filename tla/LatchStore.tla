----------------------------- MODULE LatchStore -----------------------------
(***************************************************************************)
(* The software stop's latch on disk (control/latch_store.cpp) and the     *)
(* controller code that drives it (SafeStateController trigger, hold,      *)
(* clear and attach_latch_store), through crashes and power cuts.          *)
(*                                                                         *)
(* The controller's mutex serialises the operations, so one operation is   *)
(* in progress at a time; each system call of it is a step that may fail.  *)
(* A crash of the process loses memory only.  A power cut also loses any   *)
(* change to a directory that was not synced since: the entry may then be  *)
(* in any state it had since the last sync.  A torn record reads as        *)
(* unreadable, hence as latched, so the record's bytes are not modelled.   *)
(***************************************************************************)

VARIABLES phase,     \* the operation in progress, at the step it is about to take
          latched,   \* latched_
          dir,       \* estop/ exists
          dirSynced, \* ... and its own entry is on stable storage
          file,      \* what the latch file's name refers to now
          maybe,     \* what it may refer to after a power cut
          saved,     \* whether save() reported success for the engaged latch, and
                     \* whether the directory's own entry was durable then
          cleared,   \* remove() reported success since: it unlinked the file, or found none
          restored   \* PersistedLatch::State the last start read

vars == <<phase, latched, dir, dirSynced, file, maybe, saved, cleared, restored>>

Phases == {"idle", "mkdir", "write_tmp", "sync_tmp", "rename", "sync_rename", "ladder",
           "unlink", "sync_unlink", "down"}

Init ==
    /\ phase = "idle"
    /\ latched = FALSE
    /\ dir \in BOOLEAN
    /\ dirSynced = dir
    /\ file = "absent"
    /\ maybe = {"absent"}
    /\ saved = "no"
    /\ cleared = "no"
    /\ restored = "absent"

TypeOK ==
    /\ phase \in Phases
    /\ latched \in BOOLEAN /\ dir \in BOOLEAN /\ dirSynced \in BOOLEAN
    /\ saved \in {"no", "entry_unsynced", "durable"}
    /\ cleared \in {"no", "none_found", "removed"}
    /\ file \in {"absent", "record"}
    /\ maybe \subseteq {"absent", "record"} /\ file \in maybe
    /\ restored \in {"absent", "record", "unreadable"}

\* A step that only moves the operation on, or fails: save() returns false, which
\* is logged, and the ladder runs all the same.
Advance(from, to) ==
    /\ phase = from
    /\ phase' \in {to, "ladder"}
    /\ UNCHANGED <<latched, dir, dirSynced, file, maybe, saved, cleared, restored>>

-----------------------------------------------------------------------------
\* trigger(), or hold() when not yet latched: latched_ is set first.
Engage ==
    /\ phase = "idle"
    /\ phase' = "mkdir"
    /\ latched' = TRUE
    /\ cleared' = "no"
    /\ UNCHANGED <<dir, dirSynced, file, maybe, saved, restored>>

\* create_directories(): the new directory's own entry is not synced.
MakeDir ==
    /\ phase = "mkdir"
    /\ \/ /\ phase' = "write_tmp"
          /\ dir' = TRUE
          /\ dirSynced' = (dir /\ dirSynced)
       \/ phase' = "ladder" /\ UNCHANGED <<dir, dirSynced>>
    /\ UNCHANGED <<latched, file, maybe, saved, cleared, restored>>

WriteTmp == Advance("write_tmp", "sync_tmp")
SyncTmp == Advance("sync_tmp", "rename")

Rename ==
    /\ phase = "rename"
    /\ \/ /\ phase' = "sync_rename"
          /\ file' = "record"
          /\ maybe' = maybe \cup {"record"}
       \/ phase' = "ladder" /\ UNCHANGED <<file, maybe>>
    /\ UNCHANGED <<latched, dir, dirSynced, saved, cleared, restored>>

\* What a save() that reports success has made of the latch.
Reported == IF dirSynced THEN "durable" ELSE "entry_unsynced"

\* A broken save(): success is reported without syncing the directory.
SyncRenameSkipped ==
    /\ phase = "sync_rename"
    /\ phase' = "ladder"
    /\ saved' = Reported
    /\ UNCHANGED <<latched, dir, dirSynced, file, maybe, cleared, restored>>

\* sync_path(dir): the rename is durable, save() returns true.
SyncRename ==
    /\ phase = "sync_rename"
    /\ phase' = "ladder"
    /\ \/ maybe' = {file} /\ saved' = Reported
       \/ UNCHANGED <<maybe, saved>>
    /\ UNCHANGED <<latched, dir, dirSynced, file, cleared, restored>>

\* The ladder and the FAULT entry; then trigger() or hold() returns.
FinishEngage ==
    /\ phase = "ladder"
    /\ phase' = "idle"
    /\ UNCHANGED <<latched, dir, dirSynced, file, maybe, saved, cleared, restored>>

\* clear(): latched_ is reset, then the file removed.
ClearLatch ==
    /\ phase = "idle"
    /\ phase' = "unlink"
    /\ latched' = FALSE
    /\ saved' = "no"
    /\ UNCHANGED <<dir, dirSynced, file, maybe, cleared, restored>>

\* remove(): a missing file is success and nothing to sync; a failure is logged.
Unlink ==
    /\ phase = "unlink"
    /\ \/ /\ file = "absent"
          /\ phase' = "idle"
          /\ cleared' = IF cleared = "removed" THEN cleared ELSE "none_found"
          /\ UNCHANGED <<file, maybe>>
       \/ /\ file = "record"
          /\ phase' = "sync_unlink"
          /\ file' = "absent" /\ maybe' = maybe \cup {"absent"}
          /\ cleared' = "no"
       \/ phase' = "idle" /\ UNCHANGED <<file, maybe, cleared>>
    /\ UNCHANGED <<latched, dir, dirSynced, saved, restored>>

SyncUnlink ==
    /\ phase = "sync_unlink"
    /\ phase' = "idle"
    /\ \/ maybe' = {file} /\ cleared' = "removed"
       \/ UNCHANGED <<maybe, cleared>>
    /\ UNCHANGED <<latched, dir, dirSynced, file, saved, restored>>

-----------------------------------------------------------------------------
\* The process dies at any step; the file system keeps what it was told.
Crash ==
    /\ phase # "down"
    /\ phase' = "down"
    /\ UNCHANGED <<latched, dir, dirSynced, file, maybe, saved, cleared, restored>>

\* Power is lost at any step; unsynced entries go back to some earlier state.
PowerCut ==
    /\ phase' = "down"
    /\ \/ file' \in maybe /\ UNCHANGED dir
       \/ ~dirSynced /\ dir' = FALSE /\ file' = "absent"
    /\ dirSynced' = dir'
    /\ maybe' = {file'}
    /\ UNCHANGED <<latched, saved, cleared, restored>>

\* A broken start: a file that cannot be checked counts as no file.
RestartFailsOpen ==
    /\ phase = "down"
    /\ phase' = "idle"
    /\ restored' \in {file, "absent"}
    /\ latched' = (restored' = "record")
    /\ UNCHANGED <<dir, dirSynced, file, maybe, saved, cleared>>

\* A broken start: without a latch file it falls back on the temporary file that a
\* save cut short may have left.
RestartReadsTmp ==
    /\ phase = "down"
    /\ phase' = "idle"
    /\ restored' \in {file, "record", "unreadable"}
    /\ latched' = (restored' # "absent")
    /\ UNCHANGED <<dir, dirSynced, file, maybe, saved, cleared>>

\* attach_latch_store(): absent starts unlatched, a record or a file that cannot
\* be checked or read starts latched.
Restart ==
    /\ phase = "down"
    /\ phase' = "idle"
    /\ restored' \in {file, "unreadable"}
    /\ latched' = (restored' # "absent")
    /\ UNCHANGED <<dir, dirSynced, file, maybe, saved, cleared>>

Next ==
    \/ Engage \/ MakeDir \/ WriteTmp \/ SyncTmp \/ Rename \/ SyncRename \/ FinishEngage
    \/ ClearLatch \/ Unlink \/ SyncUnlink
    \/ Crash \/ PowerCut \/ Restart

Spec == Init /\ [][Next]_vars

-----------------------------------------------------------------------------
\* A stop that save() reported saved, into an estop/ directory that was itself on
\* stable storage, comes back latched after any crash or power cut until it is
\* deliberately cleared (safe_state.cpp trigger: "a crash or restart mid-ladder
\* still comes back latched").
SavedLatchSurvives ==
    [][ phase = "down" /\ phase' = "idle" /\ saved = "durable" => latched' ]_vars

\* Once remove() has unlinked the file and reported success, no later start finds
\* a record of that stop (latch_store.cpp remove: the directory is synced).
RemovalSurvives ==
    [][ phase = "down" /\ phase' = "idle" /\ cleared = "removed"
        => restored' # "record" ]_vars

-----------------------------------------------------------------------------
(* The parts of the inductive invariant.                                   *)

\* The steps of save().
Saving == {"mkdir", "write_tmp", "sync_tmp", "rename", "sync_rename"}

\* Between an engage and the end of its ladder nothing is cleared.
SavingIsEngaged == phase \in Saving \cup {"ladder"} => cleared = "no"

\* clear() forgets the save before it touches the file.
UnlinkingIsUnsaved == phase \in {"unlink", "sync_unlink"} => saved = "no"

\* Each directory sync makes durable what its system call just did.
SyncsTheChange ==
    /\ phase = "sync_rename" => file = "record"
    /\ phase = "sync_unlink" => file = "absent"

\* A save into a durable directory leaves nothing but the record for a power cut to
\* bring back.
SavedIsDurable == saved = "durable" => maybe = {"record"} /\ dirSynced

\* A reported removal leaves nothing.
RemovedIsDurable == cleared = "removed" => maybe = {"absent"}

\* Only an estop/ directory that exists is durable.
SyncedDirExists == dirSynced => dir

\* The inductive invariant of latch_store.cpp's save and remove: what they report
\* is on stable storage, at every step of every operation.
StoreInv ==
    /\ TypeOK
    /\ SavingIsEngaged
    /\ UnlinkingIsUnsaved
    /\ SyncsTheChange
    /\ SavedIsDurable
    /\ RemovedIsDurable
    /\ SyncedDirExists

=============================================================================
