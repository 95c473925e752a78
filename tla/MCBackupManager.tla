-------------------------- MODULE MCBackupManager --------------------------
(* The instance of BackupManager that TLC checks: one BackupNow at a time  *)
(* beside the schedule, one bucket, one passphrase.                        *)
EXTENDS BackupManager

(* Bound: the settings change, or the process starts again after a crash   *)
(* or a restore; not both.                                                 *)
EditsOrRestarts ==
    \/ edits = 0
    \/ restarts = 0 /\ admin.pc \notin {"replace", "replacing", "exit"}
=============================================================================
