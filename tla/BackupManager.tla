--------------------------- MODULE BackupManager ---------------------------
(***************************************************************************)
(* Encrypted offsite backups: internal/backup/backup.go on the backups     *)
(* table (internal/store/backup.go), with the settings handlers that call  *)
(* it (internal/handler/template.go: S3SettingsUpdate,                     *)
(* BackupPassphraseUpdate, BackupNow, BackupRestore) and main's Start and  *)
(* Stop.                                                                   *)
(*                                                                         *)
(* A job is a goroutine inside runBackup: the schedule loop's, or one that *)
(* BackupNow spawned with the context of its request.  Every SQL           *)
(* statement, S3 call and critical section of m.mu is a step.  Any of      *)
(* them, and any file operation, may fail, and the process may crash       *)
(* between two steps.  The code looks at no error of UpdateStatus,         *)
(* UpdateCompleted or Set: it goes on as if the row had been written.      *)
(* There is one household.                                                 *)
(***************************************************************************)
EXTENDS Integers, FiniteSets

CONSTANTS
    Manual,      \* goroutines of BackupNow
    Loop,        \* the goroutine of Start
    Buckets, NoBucket,
    Passphrases, NoPass,
    Retention,   \* backup_retention_days, in units of the clock
    MaxTime,     \* bound on the clock
    MaxBackups,  \* bound on the rows ever inserted
    MaxRestarts, \* bound on crashes and restores
    MaxEdits     \* bound on changes of the S3 settings and the passphrase

Jobs == Manual \cup {Loop}

ASSUME BackupAssumption ==
    /\ Loop \notin Manual
    /\ NoBucket \notin Buckets
    /\ NoPass \notin Passphrases
    /\ {Retention, MaxTime, MaxBackups, MaxRestarts, MaxEdits} \subseteq Nat
    /\ MaxTime > 0

Times == 1..MaxTime
Ids == 1..MaxBackups

(* The s3_key of a row is made from the second in which the run began, so  *)
(* that two runs may share it; created_at is the time of the INSERT.       *)
RowStatuses == {"pending", "uploading", "completed", "failed"}
Rows == {r \in [key : Times, created : Times, status : RowStatuses] :
            r.key <= r.created}

JobPcs == {"idle", "begin", "mark", "create", "claim", "checkpoint", "copy",
           "upload", "finish", "ready", "fail", "report"}

VARIABLES
    db,        \* the database file: the backups table, its last id, the
               \* passphrase that the stored hash accepts, the S3 settings
    file,      \* the file is "sound", "partial" (being replaced) or "spoiled"
    store,     \* S3: for each bucket, the objects by key
    now,       \* the clock
    bucket,    \* m.client and m.cfg.S3: NoBucket is a nil client
    status,    \* m.status.State
    inProgress,\* m.status.InProgress
    creds,     \* the passphrase in m.cachedCreds
    job,       \* the locals of every job; history: "missed", the write that
               \* was to settle its row failed
    loop,      \* the schedule loop: "off", "waiting", "backup", "cleanup",
               \* "deleting", "ended"
    doomed,    \* the keys Cleanup has yet to delete, and from which bucket
    admin,     \* the request of the settings page under way
    main,      \* "serving", "stopping", "stopped", or "down" for ever
    restarts,  \* how often the process was restarted
    edits,     \* how often the settings were changed
    faults     \* history: "leak", something happened that may leave an object
               \* in S3 without a row; "overlap", the database was written
               \* between its replacement by Restore and the exit

memVars == <<bucket, status, inProgress, creds, job, loop, doomed,
             admin, main>>
vars == <<db, file, store, now, memVars, restarts, edits, faults>>

(* Functions with one point more, or some fewer.                           *)
With(f, k, v) == [x \in DOMAIN f \cup {k} |-> IF x = k THEN v ELSE f[x]]
Without(f, K) == [x \in DOMAIN f \ K |-> f[x]]

Databases == [rows   : UNION {[I -> Rows] : I \in SUBSET Ids},
              last   : 0..MaxBackups,
              pass   : Passphrases \cup {NoPass},
              bucket : Buckets \cup {NoBucket}]

(* An object is what runBackup uploads: the database encrypted.            *)
Objects == [db : Databases, pass : Passphrases \cup {NoPass}]

(* The values of locals that hold nothing.                                 *)
NoRows == [i \in {} |-> 0]
NoDatabase == [rows |-> NoRows, last |-> 0, pass |-> NoPass, bucket |-> NoBucket]
IdleJob == [pc |-> "idle", pass |-> NoPass, to |-> NoBucket, id |-> 0,
            key |-> 0, copy |-> NoDatabase, error |-> "none", missed |-> FALSE]
NoRequest == [pc |-> "idle", to |-> NoBucket, pass |-> NoPass,
              object |-> [db |-> NoDatabase, pass |-> NoPass]]
NothingDoomed == [keys |-> {}, from |-> NoBucket]

TypeOK ==
    /\ db \in Databases
    /\ file \in {"sound", "partial", "spoiled"}
    /\ store = [b \in Buckets |-> store[b]]
    /\ \A b \in Buckets : DOMAIN store[b] \subseteq Times
    /\ \A b \in Buckets : \A k \in DOMAIN store[b] : store[b][k] \in Objects
    /\ now \in Times
    /\ bucket \in Buckets \cup {NoBucket}
    /\ status \in {"idle", "running", "disabled", "error"}
    /\ inProgress \in BOOLEAN
    /\ creds \in Passphrases \cup {NoPass}
    /\ job \in [Jobs -> [pc : JobPcs, pass : Passphrases \cup {NoPass},
                         to : Buckets \cup {NoBucket}, id : {0} \cup Ids,
                         key : {0} \cup Times, copy : Databases,
                         error : {"none", "io", "canceled"},
                         missed : BOOLEAN]]
    /\ loop \in {"off", "waiting", "backup", "cleanup", "deleting", "ended"}
    /\ doomed \in [keys : SUBSET Times, from : Buckets \cup {NoBucket}]
    /\ admin \in [pc : {"idle", "s3", "pass", "replace", "replacing", "exit"},
                  to : Buckets \cup {NoBucket},
                  pass : Passphrases \cup {NoPass}, object : Objects]
    /\ main \in {"serving", "stopping", "stopped", "down"}
    /\ restarts \in 0..MaxRestarts
    /\ edits \in 0..MaxEdits
    /\ faults \subseteq {"leak", "overlap"}

-----------------------------------------------------------------------------
(* Boot: NewManager from the stored settings, then Start if the license    *)
(* has the feature.  Start does nothing while backups are disabled.        *)

Booted(d) ==
    /\ bucket' = d.bucket
    /\ status' = IF d.bucket = NoBucket THEN "disabled" ELSE "idle"
    /\ inProgress' = FALSE
    /\ creds' = NoPass
    /\ job' = [j \in Jobs |-> IdleJob]
    /\ loop' \in IF d.bucket = NoBucket THEN {"off"} ELSE {"off", "waiting"}
    /\ doomed' = NothingDoomed
    /\ admin' = NoRequest
    /\ main' = "serving"

Init ==
    /\ db \in [rows : {NoRows}, last : {0}, pass : Passphrases \cup {NoPass},
               bucket : Buckets \cup {NoBucket}]
    /\ file = "sound"
    /\ store = [b \in Buckets |-> NoRows]
    /\ now = 1
    /\ bucket = db.bucket
    /\ status = IF db.bucket = NoBucket THEN "disabled" ELSE "idle"
    /\ inProgress = FALSE
    /\ creds = NoPass
    /\ job = [j \in Jobs |-> IdleJob]
    /\ loop \in IF db.bucket = NoBucket THEN {"off"} ELSE {"off", "waiting"}
    /\ doomed = NothingDoomed
    /\ admin = NoRequest
    /\ main = "serving"
    /\ restarts = 0
    /\ edits = 0
    /\ faults = {}

Up == main # "down"

(* A write while Restore copies over the file leaves it spoiled.           *)
Write(d) ==
    /\ db' = IF file = "sound" THEN d ELSE db
    /\ file' = IF file = "sound" THEN "sound" ELSE "spoiled"
    /\ faults' = IF admin.pc = "exit" THEN faults \cup {"overlap"} ELSE faults

(* UPDATE backups ... WHERE id = i; no row, no effect.                     *)
WriteRow(i, s) ==
    Write(IF i \in DOMAIN db.rows THEN [db EXCEPT !.rows[i].status = s] ELSE db)

(* A statement that fails: the database is busy, or the file is broken,    *)
(* and may be spoiled by the attempt.                                      *)
Miss ==
    \/ UNCHANGED <<db, file, faults>>
    \/ file # "sound" /\ Write(db)

-----------------------------------------------------------------------------
(* runBackup *)

Goto(j, pc) == job' = [job EXCEPT ![j].pc = pc]

(* runBackup returns: the schedule loop goes on to Cleanup.                *)
Return(j) ==
    /\ job' = [job EXCEPT ![j] = IdleJob]
    /\ loop' = IF j = Loop THEN "cleanup" ELSE loop

(* An error path: the row is marked failed, then the status.               *)
Fail(j, e) == job' = [job EXCEPT ![j].pc = "fail", ![j].error = e, ![j].copy = NoDatabase]

(* The client and the bucket are copied under the lock.                    *)
BeginRun(j) ==
    /\ job[j].pc = "begin"
    /\ IF bucket = NoBucket
       THEN Return(j)
       ELSE /\ job' = [job EXCEPT ![j].pc = "mark", ![j].to = bucket]
            /\ UNCHANGED loop
    /\ UNCHANGED <<db, file, store, now, bucket, status, inProgress, creds,
                   doomed, admin, main, restarts, edits, faults>>

MarkRunning(j) ==
    /\ job[j].pc = "mark"
    /\ status' = "running"
    /\ inProgress' = TRUE
    /\ job' = [job EXCEPT ![j].pc = "create", ![j].key = now]
    /\ UNCHANGED <<db, file, store, now, bucket, creds, loop, doomed,
                   admin, main, restarts, edits, faults>>

(* The INSERT; one that fails ends the run.                                *)
CreateRow(j) ==
    /\ job[j].pc = "create"
    /\ LET i == db.last + 1
           row == [key |-> job[j].key, created |-> now, status |-> "pending"]
       IN  \/ /\ file = "sound"
              /\ db.last < MaxBackups      \* the bound, also after a restore
              /\ Write([db EXCEPT !.rows = With(@, i, row), !.last = i])
              /\ job' = [job EXCEPT ![j].pc = "claim", ![j].id = i]
           \/ Miss /\ Goto(j, "report")
    /\ UNCHANGED <<store, now, bucket, status, inProgress, creds, loop, doomed, admin, main, restarts, edits>>

ClaimRow(j) ==
    /\ job[j].pc = "claim"
    /\ WriteRow(job[j].id, "uploading") \/ Miss
    /\ Goto(j, "checkpoint")
    /\ UNCHANGED <<store, now, bucket, status, inProgress, creds, loop, doomed, admin, main, restarts, edits>>

(* Fault: the checkpoint's error path forgets the row.                     *)
CheckpointSilent(j) ==
    /\ job[j].pc = "checkpoint"
    /\ Goto(j, "copy") \/ Goto(j, "report")
    /\ UNCHANGED <<db, file, store, now, bucket, status, inProgress, creds,
                   loop, doomed, admin, main, restarts, edits, faults>>

(* The context of a manual run is the one of its request, which net/http   *)
(* cancels as soon as the handler has answered; the loop's is cancelled by *)
(* main at shutdown.                                                       *)
MayBeCancelled(j) == j \in Manual \/ main # "serving"
IsCancelled(j) == j = Loop /\ main # "serving"

(* The checkpoint is the first call that takes the context.                *)
Checkpoint(j) ==
    /\ job[j].pc = "checkpoint"
    /\ \/ ~IsCancelled(j) /\ Goto(j, "copy")
       \/ MayBeCancelled(j) /\ Fail(j, "canceled")
    /\ UNCHANGED <<db, file, store, now, bucket, status, inProgress, creds,
                   loop, doomed, admin, main, restarts, edits, faults>>

(* Copy, encrypt and open again: files of this run only.  The copy holds   *)
(* this run's own row, still uploading.                                    *)
CopyDatabase(j) ==
    /\ job[j].pc = "copy"
    /\ \/ /\ file = "sound"
          /\ job' = [job EXCEPT ![j].pc = "upload", ![j].copy = db]
       \/ Fail(j, "io")
    /\ UNCHANGED <<db, file, store, now, bucket, status, inProgress, creds,
                   loop, doomed, admin, main, restarts, edits, faults>>

Put(j) ==
    store' = [store EXCEPT ![job[j].to] =
                With(@, job[j].key, [db |-> job[j].copy, pass |-> job[j].pass])]

(* Fault: the error of PutObject is not looked at.                         *)
UploadUnchecked(j) ==
    /\ job[j].pc = "upload"
    /\ Put(j) \/ UNCHANGED store
    /\ job' = [job EXCEPT ![j].pc = "finish", ![j].copy = NoDatabase]
    /\ UNCHANGED <<db, file, now, bucket, status, inProgress, creds, loop,
                   doomed, admin, main, restarts, edits, faults>>

(* PutObject.  A call that fails may have stored the object all the same.  *)
Upload(j) ==
    /\ job[j].pc = "upload"
    /\ \/ Put(j) /\ job' = [job EXCEPT ![j].pc = "finish", ![j].copy = NoDatabase]
       \/ /\ Put(j) \/ UNCHANGED store
          /\ Fail(j, "io") \/ (MayBeCancelled(j) /\ Fail(j, "canceled"))
    /\ UNCHANGED <<db, file, now, bucket, status, inProgress, creds, loop, doomed, admin, main, restarts, edits, faults>>

(* UpdateCompleted; the run reports success whatever becomes of it.        *)
Finish(j) ==
    /\ job[j].pc = "finish"
    /\ \/ WriteRow(job[j].id, "completed") /\ Goto(j, "ready")
       \/ Miss /\ job' = [job EXCEPT ![j].pc = "ready", ![j].missed = TRUE]
    /\ UNCHANGED <<store, now, bucket, status, inProgress, creds, loop, doomed, admin, main, restarts, edits>>

(* Fault: the error text is written where the status belongs.              *)
MarkFailedSwapped(j) ==
    /\ job[j].pc = "fail"
    /\ WriteRow(job[j].id, job[j].error)
    /\ Goto(j, "report")
    /\ UNCHANGED <<store, now, bucket, status, inProgress, creds, loop, doomed,
                   admin, main, restarts, edits>>

MarkFailed(j) ==
    /\ job[j].pc = "fail"
    /\ \/ /\ WriteRow(job[j].id, "failed")
          /\ job' = [job EXCEPT ![j].pc = "report", ![j].error = "none"]
       \/ /\ Miss
          /\ job' = [job EXCEPT ![j].pc = "report", ![j].error = "none",
                                ![j].missed = TRUE]
    /\ UNCHANGED <<store, now, bucket, status, inProgress, creds, loop, doomed, admin, main, restarts, edits>>

(* Fault: only the successful path sets the status at the end.             *)
ReportSuccess(j) ==
    /\ job[j].pc \in {"ready", "report"}
    /\ status' = IF job[j].pc = "ready" THEN "idle" ELSE status
    /\ inProgress' = IF job[j].pc = "ready" THEN FALSE ELSE inProgress
    /\ Return(j)
    /\ UNCHANGED <<db, file, store, now, bucket, creds, doomed, admin, main,
                   restarts, edits, faults>>

(* The last setStatus, Idle or Error; it looks at nothing.                 *)
Report(j) ==
    /\ job[j].pc \in {"ready", "report"}
    /\ status' = IF job[j].pc = "ready" THEN "idle" ELSE "error"
    /\ inProgress' = FALSE
    /\ Return(j)
    /\ UNCHANGED <<db, file, store, now, bucket, creds, doomed,
                   admin, main, restarts, edits, faults>>

JobStep(j) ==
    \/ BeginRun(j) \/ MarkRunning(j) \/ CreateRow(j) \/ ClaimRow(j)
    \/ Checkpoint(j) \/ CopyDatabase(j) \/ Upload(j) \/ Finish(j)
    \/ MarkFailed(j) \/ Report(j)

-----------------------------------------------------------------------------
(* The schedule loop: checkSchedule in its minute, and the Cleanup after   *)
(* it.  The enabled row and the hour are left to chance.                   *)

Running == {j \in Jobs : job[j].pc # "idle"}

RoomForARun == db.last + Cardinality({j \in Running : job[j].id = 0}) < MaxBackups

CheckSchedule ==
    /\ loop = "waiting"
    /\ file = "sound"
    /\ creds # NoPass
    /\ RoomForARun
    /\ loop' = "backup"
    /\ job' = [job EXCEPT ![Loop].pc = "begin", ![Loop].pass = creds]
    /\ UNCHANGED <<db, file, store, now, bucket, status, inProgress, creds,
                   doomed, admin, main, restarts, edits, faults>>

Expired == {i \in DOMAIN db.rows : now - db.rows[i].created > Retention}

(* Fault: only the objects of completed backups are deleted.               *)
DropRowsCompleted ==
    /\ loop = "cleanup"
    /\ bucket # NoBucket /\ file = "sound"
    /\ Write([db EXCEPT !.rows = Without(@, Expired)])
    /\ doomed' = [keys |-> {db.rows[i].key : i \in
                              {x \in Expired : db.rows[x].status = "completed"}},
                  from |-> bucket]
    /\ loop' = "deleting"
    /\ UNCHANGED <<store, now, bucket, status, inProgress, creds, job, admin,
                   main, restarts, edits>>

(* Cleanup copies client and bucket, then DeleteOlderThan drops the rows   *)
(* and returns their keys.  Without a client, or when a statement fails,   *)
(* there is nothing more to do.                                            *)
DropRows ==
    /\ loop = "cleanup"
    /\ \/ loop' = "waiting" /\ UNCHANGED <<db, file, doomed, faults>>
       \/ /\ bucket # NoBucket /\ file = "sound"
          /\ Write([db EXCEPT !.rows = Without(@, Expired)])
          /\ doomed' = [keys |-> {db.rows[i].key : i \in Expired},
                        from |-> bucket]
          /\ loop' = "deleting"
    /\ UNCHANGED <<store, now, bucket, status, inProgress, creds, job, admin, main, restarts, edits>>

(* DeleteObject; an error is logged, and the key is forgotten.             *)
DeleteObject(k) ==
    /\ loop = "deleting"
    /\ k \in doomed.keys
    /\ doomed' = [doomed EXCEPT !.keys = @ \ {k}]
    /\ \/ /\ store' = [store EXCEPT ![doomed.from] = Without(@, {k})]
          /\ UNCHANGED faults
       \/ faults' = faults \cup {"leak"} /\ UNCHANGED store
    /\ UNCHANGED <<db, file, now, bucket, status, inProgress, creds, job,
                   loop, admin, main, restarts, edits>>

CleanupEnds ==
    /\ loop = "deleting"
    /\ doomed.keys = {}
    /\ doomed' = NothingDoomed
    /\ loop' = "waiting"
    /\ UNCHANGED <<db, file, store, now, bucket, status, inProgress, creds, job,
                   admin, main, restarts, edits, faults>>

LoopEnds ==
    /\ loop = "waiting"
    /\ main # "serving"
    /\ loop' = "ended"
    /\ UNCHANGED <<db, file, store, now, bucket, status, inProgress, creds, job,
                   doomed, admin, main, restarts, edits, faults>>

CleanupStep ==
    DropRows \/ (\E k \in Times : DeleteObject(k)) \/ CleanupEnds \/ LoopEnds

-----------------------------------------------------------------------------
(* The settings page *)

(* BackupNow and BackupRestore compare the passphrase with the stored hash.*)
Accepts(p) == p # NoPass /\ p = db.pass

(* BackupNow spawns RunNow with the context of its own request.            *)
BackupNow(j) ==
    /\ Up /\ file = "sound"
    /\ job[j].pc = "idle"
    /\ RoomForARun
    /\ \E p \in Passphrases :
         /\ Accepts(p)
         /\ job' = [job EXCEPT ![j].pc = "begin", ![j].pass = p]
    /\ UNCHANGED <<db, file, store, now, bucket, status, inProgress, creds, loop,
                   doomed, admin, main, restarts, edits, faults>>

(* S3SettingsUpdate: the rows, then UpdateS3Config, stored or not.         *)
SaveS3(b) ==
    /\ Up /\ file = "sound"
    /\ admin.pc = "idle"
    /\ edits < MaxEdits
    /\ edits' = edits + 1
    /\ \/ /\ db' = [db EXCEPT !.bucket = b]
          /\ faults' = IF bucket \in {NoBucket, b} THEN faults
                       ELSE faults \cup {"leak"}
       \/ faults' = faults \cup {"leak"} /\ UNCHANGED db
    /\ admin' = [NoRequest EXCEPT !.pc = "s3", !.to = b]
    /\ UNCHANGED <<file, store, now, bucket, status, inProgress, creds, job, loop, doomed, main, restarts>>

UpdateS3Config ==
    /\ admin.pc = "s3"
    /\ bucket' = admin.to
    /\ status' = IF admin.to = NoBucket THEN "disabled" ELSE "idle"
    /\ admin' = NoRequest
    /\ UNCHANGED <<db, file, store, now, inProgress, creds, job, loop,
                   doomed, main, restarts, edits, faults>>

(* BackupPassphraseUpdate: salt and hash, then CacheKey, stored or not.    *)
SavePassphrase(p) ==
    /\ Up /\ file = "sound"
    /\ admin.pc = "idle"
    /\ edits < MaxEdits
    /\ edits' = edits + 1
    /\ Write([db EXCEPT !.pass = p]) \/ Miss
    /\ admin' = [NoRequest EXCEPT !.pc = "pass", !.pass = p]
    /\ UNCHANGED <<store, now, bucket, status, inProgress, creds, job, loop, doomed, main, restarts>>

CacheKey ==
    /\ admin.pc = "pass"
    /\ creds' = admin.pass
    /\ admin' = NoRequest
    /\ UNCHANGED <<db, file, store, now, bucket, status, inProgress, job,
                   loop, doomed, main, restarts, edits, faults>>

(* DecryptFile fails under any other passphrase.                           *)
Opens(p, o) == p = o.pass

(* Restore up to the integrity check.  It asks for the row, whatever its   *)
(* status; a refusal changes nothing.                                      *)
Fetch(i) ==
    /\ Up /\ file = "sound"
    /\ admin.pc = "idle"
    /\ restarts < MaxRestarts
    /\ bucket # NoBucket
    /\ i \in DOMAIN db.rows
    /\ db.rows[i].key \in DOMAIN store[bucket]
    /\ \E p \in Passphrases :
         /\ Accepts(p)
         /\ Opens(p, store[bucket][db.rows[i].key])
    /\ admin' = [NoRequest EXCEPT !.pc = "replace",
                                  !.object = store[bucket][db.rows[i].key]]
    /\ UNCHANGED <<db, file, store, now, bucket, status, inProgress, creds, job,
                   loop, doomed, main, restarts, edits, faults>>

(* copyFile truncates the database and writes it anew, under every         *)
(* goroutine that uses it.                                                 *)
BeginReplace ==
    /\ admin.pc = "replace"
    /\ file' = IF file = "sound" THEN "partial" ELSE file
    /\ admin' = [admin EXCEPT !.pc = "replacing"]
    /\ UNCHANGED <<db, store, now, bucket, status, inProgress, creds, job,
                   loop, doomed, main, restarts, edits, faults>>

EndReplace ==
    /\ admin.pc = "replacing"
    /\ IF file = "partial"
       THEN db' = admin.object.db /\ file' = "sound"
       ELSE UNCHANGED <<db, file>>
    /\ admin' = [admin EXCEPT !.pc = "exit"]
    /\ faults' = faults \cup {"leak"}
    /\ UNCHANGED <<store, now, bucket, status, inProgress, creds, job, loop, doomed, main, restarts, edits>>

(* The copy fails half way: the error is shown, the program goes on.       *)
FailReplace ==
    /\ admin.pc = "replacing"
    /\ file' = "spoiled"
    /\ admin' = NoRequest
    /\ UNCHANGED <<db, store, now, bucket, status, inProgress, creds, job,
                   loop, doomed, main, restarts, edits, faults>>

-----------------------------------------------------------------------------
(* main, and the end of the process *)

BackupCancel ==
    /\ main = "serving"
    /\ main' = "stopping"
    /\ UNCHANGED <<db, file, store, now, bucket, status, inProgress, creds, job,
                   loop, doomed, admin, restarts, edits, faults>>

(* Stop waits for the loop, with no limit, if it was started.              *)
Stop ==
    /\ main = "stopping"
    /\ loop \in {"off", "ended"}
    /\ main' = "stopped"
    /\ UNCHANGED <<db, file, store, now, bucket, status, inProgress, creds, job,
                   loop, doomed, admin, restarts, edits, faults>>

(* The process ends, and comes back if it can open the database.           *)
Reboot ==
    /\ restarts' = restarts + 1
    /\ IF file = "sound"
       THEN Booted(db)
       ELSE /\ main' = "down"
            /\ job' = [j \in Jobs |-> IdleJob]
            /\ loop' = "off"
            /\ admin' = NoRequest
            /\ doomed' = NothingDoomed
            /\ inProgress' = FALSE
            /\ status' = "disabled"
            /\ UNCHANGED <<bucket, creds>>
    /\ faults' = IF doomed.keys = {} THEN faults ELSE faults \cup {"leak"}
    /\ UNCHANGED <<db, file, store, now, edits>>

Crash == Up /\ restarts < MaxRestarts /\ Reboot

(* os.Exit(0) at the end of Restore.                                       *)
Exit == admin.pc = "exit" /\ Reboot

(* A run takes less time than the retention period, which is days.         *)
Tick ==
    /\ now < MaxTime
    /\ \A j \in Jobs : job[j].key # 0 => now - job[j].key < Retention
    /\ now' = now + 1
    /\ UNCHANGED <<db, file, store, memVars, restarts, edits, faults>>

-----------------------------------------------------------------------------

Next ==
    \/ \E j \in Jobs : JobStep(j)
    \/ CheckSchedule \/ CleanupStep
    \/ \E j \in Manual : BackupNow(j)
    \/ \E b \in Buckets \cup {NoBucket} : SaveS3(b)
    \/ \E p \in Passphrases : SavePassphrase(p)
    \/ UpdateS3Config \/ CacheKey
    \/ \E i \in Ids : Fetch(i)
    \/ BeginReplace \/ EndReplace \/ FailReplace
    \/ BackupCancel \/ Stop \/ Crash \/ Exit \/ Tick

Spec == Init /\ [][Next]_vars

-----------------------------------------------------------------------------
(* Properties *)

(* A backup listed as completed is in S3 until the retention period has    *)
(* passed since the second its key names, through crashes, restores,       *)
(* failed calls, changes of the S3 settings and a second run under the     *)
(* same key.                                                               *)
YoungBackupsAreStored ==
    "overlap" \notin faults => \A i \in DOMAIN db.rows :
        db.rows[i].status = "completed" /\ now - db.rows[i].key <= Retention =>
            \E b \in Buckets : db.rows[i].key \in DOMAIN store[b]

(* The status says a backup is running, or in progress, only while one is: *)
(* the badge of the settings page cannot hang.                             *)
RunningHasJob ==
    status = "running" \/ inProgress =>
        \E j \in Jobs : job[j].pc \notin {"idle", "begin", "mark"}

(* Objects do not pile up in S3: each has the row that Cleanup will find   *)
(* it by, or waits for deletion.  What may leak one is known: a deletion   *)
(* that failed or was cut short, a change of bucket or one that could not  *)
(* be stored, a restore.                                                   *)
NoOrphans ==
    "leak" \notin faults => \A b \in Buckets : \A k \in DOMAIN store[b] :
        \/ \E i \in DOMAIN db.rows : db.rows[i].key = k
        \/ k \in doomed.keys

Settled(i) ==
    i \in DOMAIN db.rows => db.rows[i].status \in {"completed", "failed"}

(* A run that returns, whichever way and whatever else failed on the way,  *)
(* leaves its row completed or failed: only a restart in the middle of the *)
(* run, a restore that replaces the rows, or the failure of the very write *)
(* that was to settle it can leave a backup "pending" or "uploading".      *)
RunsAreSettled ==
    [][\A j \in Jobs :
         job[j].id # 0 /\ job'[j].id = 0 /\ restarts' = restarts
             /\ file = "sound" /\ admin.pc # "exit" =>
                 Settled(job[j].id) \/ job[j].missed]_vars

(* What the table shows as kept for the retention period counted from      *)
(* created_at.  It fails by less than a second: of two runs that share a   *)
(* key, the cleanup of the older row deletes the object of both.           *)
KeptFromCreation ==
    "overlap" \notin faults => \A i \in DOMAIN db.rows :
        db.rows[i].status = "completed"
            /\ now - db.rows[i].created <= Retention =>
                \E b \in Buckets : db.rows[i].key \in DOMAIN store[b]

(* "BackupNow triggers an immediate backup" (template.go:3800): a run does *)
(* not fail because the request that asked for it has been answered.       *)
BackupNowRuns ==
    \A j \in Manual : main = "serving" => job[j].error # "canceled"

(* "Old backups require the old passphrase to restore" (settings.html:674):*)
(* there is a passphrase with which a stored backup can be restored.       *)
OldBackupsRestorable ==
    \A i \in DOMAIN db.rows :
        bucket # NoBucket /\ db.rows[i].key \in DOMAIN store[bucket] =>
            \E p \in Passphrases :
                Accepts(p) /\ Opens(p, store[bucket][db.rows[i].key])
=============================================================================
