------------------------------ MODULE MCFiles ------------------------------
(***************************************************************************)
(* Files for TLC, on their way into a snapshot and out of it: the backups  *)
(* of MCBackup and the restores of MCRestore.  A backup and a restore have *)
(* no state in common but snapshots, which do not change: one of them is   *)
(* at work, the other has nothing to do.                                   *)
(***************************************************************************)
EXTENDS MCBackup, MCRestore

NoBackup == NoWalkOut /\ NoFiles
NoRestore == NoWalk /\ NoEntries

MCFilesInit == (MCBackupInit /\ NoRestore) \/ (NoBackup /\ MCRestoreInit)
MCFilesNext ==
    \/ MCBackupNext /\ UNCHANGED <<walkVars, entryVars>>
    \/ MCRestoreNext /\ UNCHANGED <<reuseVars, backupVars>>
MCFilesSpec == MCFilesInit /\ [][MCFilesNext]_<<reuseVars, backupVars, walkVars, entryVars>>
=============================================================================
