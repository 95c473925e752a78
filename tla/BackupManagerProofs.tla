------------------------ MODULE BackupManagerProofs ------------------------
(***************************************************************************)
(* What is proved of the backup manager, for any number of manual runs,    *)
(* buckets, passphrases, restarts and edits.                               *)
(*                                                                         *)
(* TInv is the types together with what they rest on: a run past its       *)
(* INSERT has a row's id and key, the loop's run is under way only while   *)
(* the loop waits for it, a restore under way has a restart to spend, and  *)
(* no row is inserted before the second its key names.                     *)
(***************************************************************************)
EXTENDS BackupManager, TLAPS

Tables == UNION {[I -> Rows] : I \in SUBSET Ids}

JobType == [pc : JobPcs, pass : Passphrases \cup {NoPass},
            to : Buckets \cup {NoBucket}, id : {0} \cup Ids,
            key : {0} \cup Times, copy : Databases,
            error : {"none", "io", "canceled"}, missed : BOOLEAN]

RequestType == [pc : {"idle", "s3", "pass", "replace", "replacing", "exit"},
                to : Buckets \cup {NoBucket},
                pass : Passphrases \cup {NoPass}, object : Objects]

StoreOK ==
    /\ store = [b \in Buckets |-> store[b]]
    /\ \A b \in Buckets : DOMAIN store[b] \subseteq Times
    /\ \A b \in Buckets : \A k \in DOMAIN store[b] : store[b][k] \in Objects

(* A run past its INSERT. *)
WithRow == {"claim", "checkpoint", "copy", "upload", "finish", "ready", "fail"}
BeforeRow == {"idle", "begin", "mark", "create"}

Placed(r) ==
    /\ r.pc \in WithRow => r.id \in Ids /\ r.key \in Times
    /\ r.pc \in BeforeRow => r.id = 0

Restoring == {"replace", "replacing", "exit"}

Shape ==
    /\ TypeOK
    /\ \A j \in Jobs : Placed(job[j])
    /\ job[Loop].pc # "idle" => loop = "backup"
    /\ admin.pc \in Restoring => restarts < MaxRestarts

(* The key a run chose is not ahead of the clock when its row is inserted. *)
Dated == \A j \in Jobs : job[j].pc = "create" => job[j].key \in Times /\ job[j].key <= now

TInv == Shape /\ Dated

-----------------------------------------------------------------------------
(* Tables and databases.                                                   *)

LEMMA TableFacts ==
    ASSUME NEW t \in Tables
    PROVE  /\ DOMAIN t \subseteq Ids
           /\ t \in [DOMAIN t -> Rows]
BY DEF Tables

LEMMA IsTable ==
    ASSUME NEW I \in SUBSET Ids, NEW t \in [I -> Rows]
    PROVE  t \in Tables
BY DEF Tables

LEMMA WithIsTable ==
    ASSUME NEW t \in Tables, NEW i \in Ids, NEW row \in Rows
    PROVE  With(t, i, row) \in Tables
<1>1. With(t, i, row) \in [DOMAIN t \cup {i} -> Rows] /\ DOMAIN t \cup {i} \in SUBSET Ids
    BY TableFacts DEF With
<1> QED
    BY <1>1, IsTable

LEMMA WithoutIsTable ==
    ASSUME NEW t \in Tables, NEW K
    PROVE  Without(t, K) \in Tables
<1>1. Without(t, K) \in [DOMAIN t \ K -> Rows] /\ DOMAIN t \ K \in SUBSET Ids
    BY TableFacts DEF Without
<1> QED
    BY <1>1, IsTable

LEMMA DatabaseFacts ==
    /\ Databases = [rows : Tables, last : 0..MaxBackups,
                    pass : Passphrases \cup {NoPass}, bucket : Buckets \cup {NoBucket}]
    /\ NoRows \in Tables /\ NoDatabase \in Databases
<1>1. Databases = [rows : Tables, last : 0..MaxBackups,
                   pass : Passphrases \cup {NoPass}, bucket : Buckets \cup {NoBucket}]
    BY DEF Databases, Tables
<1>2. NoRows \in [{} -> Rows]
    BY DEF NoRows
<1>3. NoRows \in Tables
    BY <1>2, IsTable
<1> QED
    BY <1>1, <1>3, BackupAssumption DEF NoDatabase

LEMMA RowChange ==
    ASSUME NEW d \in Databases, NEW i \in DOMAIN d.rows, NEW s \in RowStatuses
    PROVE  [d EXCEPT !.rows[i].status = s] \in Databases
<1>1. d.rows \in Tables
    BY DatabaseFacts
<1>2. d.rows \in [DOMAIN d.rows -> Rows] /\ DOMAIN d.rows \in SUBSET Ids
    BY <1>1, TableFacts
<1> DEFINE t == [d.rows EXCEPT ![i].status = s]
<1>3. t \in [DOMAIN d.rows -> Rows]
    BY <1>2 DEF Rows
<1>4. t \in Tables
    BY <1>2, <1>3, IsTable
<1>5. [d EXCEPT !.rows[i].status = s] = [d EXCEPT !.rows = t]
    BY DatabaseFacts
<1> QED
    BY <1>4, <1>5, DatabaseFacts

-----------------------------------------------------------------------------
(* Types.                                                                  *)

LEMMA TypeParts ==
    TypeOK <=>
        /\ db \in Databases /\ file \in {"sound", "partial", "spoiled"}
        /\ StoreOK
        /\ now \in Times
        /\ bucket \in Buckets \cup {NoBucket}
        /\ status \in {"idle", "running", "disabled", "error"} /\ inProgress \in BOOLEAN
        /\ creds \in Passphrases \cup {NoPass}
        /\ job \in [Jobs -> JobType]
        /\ loop \in {"off", "waiting", "backup", "cleanup", "deleting", "ended"}
        /\ doomed \in [keys : SUBSET Times, from : Buckets \cup {NoBucket}]
        /\ admin \in RequestType
        /\ main \in {"serving", "stopping", "stopped", "down"}
        /\ restarts \in 0..MaxRestarts /\ edits \in 0..MaxEdits
        /\ faults \subseteq {"leak", "overlap"}
BY DEF TypeOK, StoreOK, JobType, RequestType

LEMMA TypePartsNext ==
    ASSUME db' \in Databases, file' \in {"sound", "partial", "spoiled"}, StoreOK',
           now' \in Times, bucket' \in Buckets \cup {NoBucket},
           status' \in {"idle", "running", "disabled", "error"}, inProgress' \in BOOLEAN,
           creds' \in Passphrases \cup {NoPass}, job' \in [Jobs -> JobType],
           loop' \in {"off", "waiting", "backup", "cleanup", "deleting", "ended"},
           doomed' \in [keys : SUBSET Times, from : Buckets \cup {NoBucket}],
           admin' \in RequestType,
           main' \in {"serving", "stopping", "stopped", "down"},
           restarts' \in 0..MaxRestarts, edits' \in 0..MaxEdits,
           faults' \subseteq {"leak", "overlap"}
    PROVE  TypeOK'
BY DEF TypeOK, StoreOK, JobType, RequestType

LEMMA WriteTypes ==
    ASSUME NEW d \in Databases, TypeOK, Write(d)
    PROVE  /\ db' \in Databases /\ file' \in {"sound", "partial", "spoiled"}
           /\ faults' \subseteq {"leak", "overlap"}
BY DEF Write, TypeOK

LEMMA WriteRowTypes ==
    ASSUME TypeOK, NEW i, NEW s \in RowStatuses, WriteRow(i, s)
    PROVE  /\ db' \in Databases /\ file' \in {"sound", "partial", "spoiled"}
           /\ faults' \subseteq {"leak", "overlap"}
<1>1. db \in Databases
    BY DEF TypeOK
<1>2. CASE i \in DOMAIN db.rows
    BY <1>1, <1>2, RowChange, WriteTypes DEF WriteRow
<1>3. CASE i \notin DOMAIN db.rows
    BY <1>1, <1>3, WriteTypes DEF WriteRow
<1> QED
    BY <1>2, <1>3

(* A statement that fails leaves the database; it may spoil a file that is *)
(* being replaced.                                                         *)
LEMMA MissLeaves ==
    ASSUME Miss
    PROVE  /\ db' = db /\ faults \subseteq faults'
           /\ file' = file \/ (file # "sound" /\ file' = "spoiled")
BY DEF Miss, Write

LEMMA MissTypes ==
    ASSUME TypeOK, Miss
    PROVE  /\ db' \in Databases /\ file' \in {"sound", "partial", "spoiled"}
           /\ faults' \subseteq {"leak", "overlap"}
BY DEF Miss, Write, TypeOK

LEMMA IdleTypes ==
    /\ IdleJob \in JobType /\ Placed(IdleJob)
    /\ NoRequest \in RequestType /\ NoRequest.pc = "idle"
    /\ NothingDoomed \in [keys : SUBSET Times, from : Buckets \cup {NoBucket}]
    /\ NothingDoomed.keys = {}
BY DatabaseFacts DEF IdleJob, JobType, JobPcs, Placed, WithRow, NoRequest, RequestType,
   Objects, NothingDoomed

LEMMA JobTypes ==
    ASSUME TInv, NEW j \in Jobs, NEW r \in JobType, Placed(r), job' = [job EXCEPT ![j] = r]
    PROVE  job' \in [Jobs -> JobType] /\ \A i \in Jobs : Placed(job'[i])
BY TypeParts DEF TInv, Shape

LEMMA ReturnTypes ==
    ASSUME TInv, NEW j \in Jobs, Return(j)
    PROVE  /\ job' \in [Jobs -> JobType] /\ \A i \in Jobs : Placed(job'[i])
           /\ loop' \in {"off", "waiting", "backup", "cleanup", "deleting", "ended"}
BY IdleTypes, JobTypes, TypeParts DEF Return, TInv, Shape

LEMMA StoreKept ==
    ASSUME StoreOK, UNCHANGED store
    PROVE  StoreOK'
BY DEF StoreOK

(* A run's step: the job, and perhaps the file, the store or the status. *)
LEMMA RunTypes ==
    ASSUME TInv, NEW j \in Jobs, NEW r \in JobType, Placed(r), job' = [job EXCEPT ![j] = r],
           job[j].pc # "idle",
           UNCHANGED <<now, bucket, creds, loop, doomed, admin, main, restarts, edits>>,
           UNCHANGED store \/ StoreOK',
           \/ UNCHANGED <<db, file, faults>>
           \/ /\ db' \in Databases /\ file' \in {"sound", "partial", "spoiled"}
              /\ faults' \subseteq {"leak", "overlap"},
           \/ UNCHANGED <<status, inProgress>>
           \/ status' = "running" /\ inProgress' = TRUE
    PROVE  Shape'
<1>1. job' \in [Jobs -> JobType] /\ \A i \in Jobs : Placed(job'[i])
    BY JobTypes
<1>2. StoreOK'
    BY TypeParts, StoreKept DEF TInv, Shape
<1>3. /\ db' \in Databases /\ file' \in {"sound", "partial", "spoiled"}
      /\ faults' \subseteq {"leak", "overlap"}
    BY TypeParts DEF TInv, Shape
<1>4. status' \in {"idle", "running", "disabled", "error"} /\ inProgress' \in BOOLEAN
    BY TypeParts DEF TInv, Shape
<1>5. TypeOK'
    <2>1. TypeOK
        BY DEF TInv, Shape
    <2> QED
        BY <1>1, <1>2, <1>3, <1>4, <2>1, TypeParts, TypePartsNext
<1>6. job'[Loop].pc # "idle" => loop' = "backup"
    BY TypeParts DEF TInv, Shape
<1> QED
    BY <1>1, <1>5, <1>6 DEF TInv, Shape

LEMMA ReturnStepTypes ==
    ASSUME TInv, NEW j \in Jobs, Return(j),
           UNCHANGED <<db, file, store, now, bucket, creds, doomed, admin, main, restarts,
                       edits, faults>>,
           status' \in {"idle", "error", status}, inProgress' \in {FALSE, inProgress}
    PROVE  Shape'
<1>1. StoreOK'
    BY TypeParts, StoreKept DEF TInv, Shape
<1>2. TypeOK'
    <2>1. TypeOK
        BY DEF TInv, Shape
    <2> QED
        BY <1>1, <2>1, ReturnTypes, TypeParts, TypePartsNext
<1>3. job'[Loop].pc # "idle" => loop' = "backup"
    BY TypeParts DEF TInv, Shape, Return, IdleJob, Jobs
<1> QED
    BY <1>2, <1>3, ReturnTypes DEF TInv, Shape

LEMMA JobStepTypes ==
    ASSUME TInv, NEW j \in Jobs, JobStep(j)
    PROVE  Shape'
<1>0. /\ job[j] \in JobType /\ Placed(job[j])
      /\ bucket \in Buckets \cup {NoBucket} /\ now \in Times /\ db \in Databases
    BY TypeParts DEF TInv, Shape
<1>1. CASE BeginRun(j)
    <2>1. CASE bucket = NoBucket
        BY <1>1, <2>1, ReturnStepTypes DEF BeginRun
    <2>2. CASE bucket # NoBucket
        <3> DEFINE r == [job[j] EXCEPT !.pc = "mark", !.to = bucket]
        <3>1. r \in JobType /\ Placed(r) /\ job' = [job EXCEPT ![j] = r]
            BY <1>0, <1>1, <2>2 DEF BeginRun, JobType, JobPcs, Placed, BeforeRow, WithRow
        <3> HIDE DEF r
        <3> QED
            BY <1>1, <2>2, <3>1, RunTypes DEF BeginRun
    <2> QED
        BY <2>1, <2>2
<1>2. CASE MarkRunning(j)
    <2> DEFINE r == [job[j] EXCEPT !.pc = "create", !.key = now]
    <2>1. r \in JobType /\ Placed(r) /\ job' = [job EXCEPT ![j] = r]
        BY <1>0, <1>2 DEF MarkRunning, JobType, JobPcs, Placed, BeforeRow, WithRow
    <2> HIDE DEF r
    <2> QED
        BY <1>2, <2>1, RunTypes DEF MarkRunning
<1>3. CASE CreateRow(j)
    <2> DEFINE i == db.last + 1
               row == [key |-> job[j].key, created |-> now, status |-> "pending"]
               d == [db EXCEPT !.rows = With(@, i, row), !.last = i]
    <2>1. CASE /\ file = "sound" /\ db.last < MaxBackups /\ Write(d)
               /\ job' = [job EXCEPT ![j].pc = "claim", ![j].id = i]
        <3> DEFINE r == [job[j] EXCEPT !.pc = "claim", !.id = i]
        <3>1. db.last \in 0..MaxBackups /\ i \in Ids /\ i \in 0..MaxBackups
            BY <1>0, <2>1, DatabaseFacts, BackupAssumption DEF Ids
        <3>2. job[j].key \in Times /\ job[j].key <= now
            BY <1>3 DEF CreateRow, TInv, Dated
        <3>3. row \in Rows
            BY <1>0, <3>2 DEF Rows, RowStatuses
        <3>4. With(db.rows, i, row) \in Tables
            BY <1>0, <3>1, <3>3, WithIsTable, DatabaseFacts
        <3>5. d \in Databases
            BY <1>0, <3>1, <3>4, DatabaseFacts
        <3>6. r \in JobType /\ Placed(r)
            BY <1>0, <3>1, <3>2 DEF JobType, JobPcs, Placed, BeforeRow, WithRow
        <3>7. job' = [job EXCEPT ![j] = r] /\ Write(d)
            BY <2>1
        <3> HIDE DEF r, d
        <3>8. /\ db' \in Databases /\ file' \in {"sound", "partial", "spoiled"}
              /\ faults' \subseteq {"leak", "overlap"}
            BY <3>5, <3>7, WriteTypes DEF TInv, Shape
        <3> QED
            BY <1>3, <3>6, <3>7, <3>8, RunTypes DEF CreateRow
    <2>2. CASE Miss /\ Goto(j, "report")
        <3> DEFINE r == [job[j] EXCEPT !.pc = "report"]
        <3>1. r \in JobType /\ Placed(r) /\ job' = [job EXCEPT ![j] = r]
            BY <1>0, <2>2 DEF Goto, JobType, JobPcs, Placed, BeforeRow, WithRow
        <3> HIDE DEF r
        <3> QED
            BY <1>3, <2>2, <3>1, MissTypes, RunTypes DEF CreateRow, TInv, Shape
    <2> QED
        BY <1>3, <2>1, <2>2 DEF CreateRow
<1>4. CASE ClaimRow(j)
    <2> DEFINE r == [job[j] EXCEPT !.pc = "checkpoint"]
    <2>1. r \in JobType /\ Placed(r) /\ job' = [job EXCEPT ![j] = r]
        BY <1>0, <1>4 DEF ClaimRow, Goto, JobType, JobPcs, Placed, BeforeRow, WithRow
    <2> HIDE DEF r
    <2> QED
        BY <1>4, <2>1, RunTypes, WriteRowTypes, MissTypes
           DEF TInv, Shape, ClaimRow, RowStatuses
<1>5. CASE Checkpoint(j)
    <2>1. PICK r : r \in JobType /\ Placed(r) /\ job' = [job EXCEPT ![j] = r]
        <3>1. CASE Goto(j, "copy")
            <4> DEFINE r == [job[j] EXCEPT !.pc = "copy"]
            <4>1. r \in JobType /\ Placed(r) /\ job' = [job EXCEPT ![j] = r]
                BY <1>0, <1>5, <3>1
                   DEF Checkpoint, Goto, JobType, JobPcs, Placed, BeforeRow, WithRow
            <4> QED
                BY <4>1
        <3>2. CASE Fail(j, "canceled")
            <4> DEFINE r == [job[j] EXCEPT !.pc = "fail", !.error = "canceled",
                                           !.copy = NoDatabase]
            <4>1. r \in JobType /\ Placed(r) /\ job' = [job EXCEPT ![j] = r]
                BY <1>0, <1>5, <3>2, DatabaseFacts
                   DEF Checkpoint, Fail, JobType, JobPcs, Placed, BeforeRow, WithRow
            <4> QED
                BY <4>1
        <3> QED
            BY <1>5, <3>1, <3>2 DEF Checkpoint
    <2> QED
        BY <1>5, <2>1, RunTypes DEF Checkpoint
<1>6. CASE CopyDatabase(j)
    <2>1. PICK r : r \in JobType /\ Placed(r) /\ job' = [job EXCEPT ![j] = r]
        <3>1. CASE job' = [job EXCEPT ![j].pc = "upload", ![j].copy = db]
            <4> DEFINE r == [job[j] EXCEPT !.pc = "upload", !.copy = db]
            <4>1. r \in JobType /\ Placed(r) /\ job' = [job EXCEPT ![j] = r]
                BY <1>0, <1>6, <3>1
                   DEF CopyDatabase, JobType, JobPcs, Placed, BeforeRow, WithRow
            <4> QED
                BY <4>1
        <3>2. CASE Fail(j, "io")
            <4> DEFINE r == [job[j] EXCEPT !.pc = "fail", !.error = "io", !.copy = NoDatabase]
            <4>1. r \in JobType /\ Placed(r) /\ job' = [job EXCEPT ![j] = r]
                BY <1>0, <1>6, <3>2, DatabaseFacts
                   DEF CopyDatabase, Fail, JobType, JobPcs, Placed, BeforeRow, WithRow
            <4> QED
                BY <4>1
        <3> QED
            BY <1>6, <3>1, <3>2 DEF CopyDatabase
    <2> QED
        BY <1>6, <2>1, RunTypes DEF CopyDatabase
<1>7. CASE Upload(j)
    <2>1. PICK r : r \in JobType /\ Placed(r) /\ job' = [job EXCEPT ![j] = r]
        <3>1. CASE job' = [job EXCEPT ![j].pc = "finish", ![j].copy = NoDatabase]
            <4> DEFINE r == [job[j] EXCEPT !.pc = "finish", !.copy = NoDatabase]
            <4>1. r \in JobType /\ Placed(r) /\ job' = [job EXCEPT ![j] = r]
                BY <1>0, <1>7, <3>1, DatabaseFacts
                   DEF Upload, JobType, JobPcs, Placed, BeforeRow, WithRow
            <4> QED
                BY <4>1
        <3>2. ASSUME NEW e \in {"io", "canceled"}, Fail(j, e)
              PROVE  \E r : r \in JobType /\ Placed(r) /\ job' = [job EXCEPT ![j] = r]
            <4> DEFINE r == [job[j] EXCEPT !.pc = "fail", !.error = e, !.copy = NoDatabase]
            <4>1. r \in JobType /\ Placed(r) /\ job' = [job EXCEPT ![j] = r]
                BY <1>0, <1>7, <3>2, DatabaseFacts
                   DEF Upload, Fail, JobType, JobPcs, Placed, BeforeRow, WithRow
            <4> QED
                BY <4>1
        <3> QED
            BY <1>7, <3>1, <3>2 DEF Upload
    <2>2. StoreOK'
        <3>1. CASE Put(j)
            <4> DEFINE o == [db |-> job[j].copy, pass |-> job[j].pass]
            <4>1. o \in Objects /\ job[j].key \in Times
                BY <1>0, <1>7 DEF Upload, Objects, JobType, Placed, WithRow
            <4>2. /\ store' = [store EXCEPT ![job[j].to] = With(@, job[j].key, o)]
                  /\ StoreOK
                BY <3>1, TypeParts DEF Put, TInv, Shape
            <4> HIDE DEF o
            <4> QED
                BY <4>1, <4>2 DEF StoreOK, With
        <3>2. CASE UNCHANGED store
            BY <3>2, StoreKept, TypeParts DEF TInv, Shape
        <3> QED
            BY <1>7, <3>1, <3>2 DEF Upload
    <2> QED
        BY <1>7, <2>1, <2>2, RunTypes DEF Upload
<1>8. CASE Finish(j)
    <2>1. PICK m \in BOOLEAN : job' = [job EXCEPT ![j].pc = "ready", ![j].missed = m]
        <3>1. CASE Goto(j, "ready")
            <4>1. job' = [job EXCEPT ![j].pc = "ready", ![j].missed = job[j].missed]
                BY <1>0, <3>1, TypeParts DEF Goto, JobType, TInv, Shape
            <4> QED
                BY <1>0, <4>1 DEF JobType
        <3> QED
            BY <1>8, <3>1 DEF Finish
    <2> DEFINE r == [job[j] EXCEPT !.pc = "ready", !.missed = m]
    <2>2. r \in JobType /\ Placed(r) /\ job' = [job EXCEPT ![j] = r]
        BY <1>0, <1>8, <2>1 DEF Finish, JobType, JobPcs, Placed, BeforeRow, WithRow
    <2> HIDE DEF r
    <2> QED
        BY <1>8, <2>2, RunTypes, WriteRowTypes, MissTypes
           DEF TInv, Shape, Finish, RowStatuses
<1>9. CASE MarkFailed(j)
    <2>1. PICK m \in BOOLEAN :
              job' = [job EXCEPT ![j].pc = "report", ![j].error = "none", ![j].missed = m]
        <3>1. CASE job' = [job EXCEPT ![j].pc = "report", ![j].error = "none"]
            <4>1. job' = [job EXCEPT ![j].pc = "report", ![j].error = "none",
                                     ![j].missed = job[j].missed]
                BY <1>0, <3>1, TypeParts DEF JobType, TInv, Shape
            <4> QED
                BY <1>0, <4>1 DEF JobType
        <3> QED
            BY <1>9, <3>1 DEF MarkFailed
    <2> DEFINE r == [job[j] EXCEPT !.pc = "report", !.error = "none", !.missed = m]
    <2>2. r \in JobType /\ Placed(r) /\ job' = [job EXCEPT ![j] = r]
        BY <1>0, <1>9, <2>1 DEF MarkFailed, JobType, JobPcs, Placed, BeforeRow, WithRow
    <2> HIDE DEF r
    <2> QED
        BY <1>9, <2>2, RunTypes, WriteRowTypes, MissTypes
           DEF TInv, Shape, MarkFailed, RowStatuses
<1>10. CASE Report(j)
    BY <1>10, ReturnStepTypes DEF Report
<1> QED
    BY <1>1, <1>2, <1>3, <1>4, <1>5, <1>6, <1>7, <1>8, <1>9, <1>10 DEF JobStep

(* A step that begins a run. *)
LEMMA BeginTypes ==
    ASSUME TInv, NEW j \in Jobs, NEW p \in Passphrases \cup {NoPass},
           job' = [job EXCEPT ![j].pc = "begin", ![j].pass = p],
           job[j].pc = "idle"
    PROVE  job' \in [Jobs -> JobType] /\ \A i \in Jobs : Placed(job'[i])
<1> DEFINE r == [job[j] EXCEPT !.pc = "begin", !.pass = p]
<1>1. job[j] \in JobType /\ Placed(job[j])
    BY TypeParts DEF TInv, Shape
<1>2. r \in JobType /\ Placed(r) /\ job' = [job EXCEPT ![j] = r]
    BY <1>1 DEF JobType, JobPcs, Placed, BeforeRow, WithRow
<1> QED
    BY <1>2, JobTypes

LEMMA CheckScheduleTypes ==
    ASSUME TInv, CheckSchedule
    PROVE  Shape'
<1>1. TypeOK /\ StoreOK' /\ Loop \in Jobs
    BY StoreKept, TypeParts DEF TInv, Shape, CheckSchedule, Jobs
<1>2. job' \in [Jobs -> JobType] /\ \A i \in Jobs : Placed(job'[i])
    BY <1>1, BeginTypes, TypeParts DEF TInv, Shape, CheckSchedule
<1>3. TypeOK'
    BY <1>1, <1>2, TypeParts, TypePartsNext DEF CheckSchedule
<1> QED
    BY <1>2, <1>3 DEF TInv, Shape, CheckSchedule

LEMMA BackupNowTypes ==
    ASSUME TInv, NEW j \in Manual, BackupNow(j)
    PROVE  Shape'
<1>1. TypeOK /\ StoreOK' /\ j \in Jobs /\ Loop \in Jobs /\ j # Loop
    BY StoreKept, TypeParts, BackupAssumption DEF TInv, Shape, BackupNow, Jobs
<1>2. job' \in [Jobs -> JobType] /\ \A i \in Jobs : Placed(job'[i])
    BY <1>1, BeginTypes DEF BackupNow
<1>3. TypeOK'
    BY <1>1, <1>2, TypeParts, TypePartsNext DEF BackupNow
<1>4. job'[Loop] = job[Loop]
    BY <1>1, TypeParts DEF BackupNow
<1> QED
    BY <1>2, <1>3, <1>4 DEF TInv, Shape, BackupNow

LEMMA CleanupTypes ==
    ASSUME TInv, CleanupStep
    PROVE  Shape'
<1>0. TypeOK /\ db \in Databases /\ UNCHANGED <<job, admin, restarts>>
    BY TypeParts DEF TInv, Shape, CleanupStep, DropRows, DeleteObject, CleanupEnds, LoopEnds
<1>1. TypeOK'
    <2>1. CASE DropRows
        <3> DEFINE d == [db EXCEPT !.rows = Without(@, Expired)]
        <3>1. d \in Databases
            BY <1>0, WithoutIsTable, DatabaseFacts
        <3>2. StoreOK'
            BY <1>0, <2>1, StoreKept, TypeParts DEF DropRows
        <3>3. CASE loop' = "waiting" /\ UNCHANGED <<db, file, doomed, faults>>
            BY <1>0, <2>1, <3>2, <3>3, TypeParts, TypePartsNext DEF DropRows
        <3>4. CASE ~(loop' = "waiting" /\ UNCHANGED <<db, file, doomed, faults>>)
            <4>1. Write(d)
                BY <2>1, <3>4 DEF DropRows
            <4> HIDE DEF d
            <4>2. /\ db' \in Databases /\ file' \in {"sound", "partial", "spoiled"}
                  /\ faults' \subseteq {"leak", "overlap"}
                BY <1>0, <3>1, <4>1, WriteTypes
            <4>3. \A i \in DOMAIN db.rows : db.rows[i].key \in Times
                BY <1>0, DatabaseFacts, TableFacts DEF Rows
            <4>4. doomed' \in [keys : SUBSET Times, from : Buckets \cup {NoBucket}]
                BY <1>0, <2>1, <3>4, <4>3, TypeParts DEF DropRows, Expired
            <4> QED
                BY <1>0, <2>1, <3>2, <3>4, <4>2, <4>4, TypeParts, TypePartsNext DEF DropRows
        <3> QED
            BY <3>3, <3>4
    <2>2. ASSUME NEW k \in Times, DeleteObject(k)
          PROVE  TypeOK'
        <3>1. StoreOK'
            BY <1>0, <2>2, TypeParts DEF DeleteObject, StoreOK, Without
        <3>2. faults' \subseteq {"leak", "overlap"}
            BY <1>0, <2>2, TypeParts DEF DeleteObject
        <3> QED
            BY <1>0, <2>2, <3>1, <3>2, TypeParts, TypePartsNext DEF DeleteObject
    <2>3. CASE CleanupEnds
        <3>1. StoreOK'
            BY <1>0, <2>3, StoreKept, TypeParts DEF CleanupEnds
        <3> QED
            BY <1>0, <2>3, <3>1, TypeParts, TypePartsNext, IdleTypes DEF CleanupEnds
    <2>4. CASE LoopEnds
        <3>1. StoreOK'
            BY <1>0, <2>4, StoreKept, TypeParts DEF LoopEnds
        <3> QED
            BY <1>0, <2>4, <3>1, TypeParts, TypePartsNext DEF LoopEnds
    <2> QED
        BY <2>1, <2>2, <2>3, <2>4 DEF CleanupStep
<1>2. loop # "backup"
    BY DEF CleanupStep, DropRows, DeleteObject, CleanupEnds, LoopEnds
<1> QED
    BY <1>0, <1>1, <1>2 DEF TInv, Shape

(* A step of the settings page, which leaves the runs alone. *)
LEMMA PageTypes ==
    ASSUME TInv, TypeOK', UNCHANGED <<job, loop, restarts>>,
           admin'.pc \in Restoring => restarts < MaxRestarts
    PROVE  Shape'
BY DEF TInv, Shape

LEMMA SettingsTypes ==
    ASSUME TInv,
           \/ \E b \in Buckets \cup {NoBucket} : SaveS3(b)
           \/ \E p \in Passphrases : SavePassphrase(p)
           \/ UpdateS3Config \/ CacheKey
    PROVE  Shape'
<1>0. TypeOK /\ StoreOK'
    BY StoreKept, TypeParts DEF TInv, Shape, SaveS3, SavePassphrase, UpdateS3Config, CacheKey
<1>1. ASSUME NEW b \in Buckets \cup {NoBucket}, SaveS3(b)
      PROVE  Shape'
    <2>1. db' \in Databases
        BY <1>0, <1>1, TypeParts, DatabaseFacts DEF SaveS3
    <2>2. faults' \subseteq {"leak", "overlap"}
        BY <1>0, <1>1, TypeParts DEF SaveS3
    <2>3. admin' \in RequestType /\ admin'.pc \notin Restoring
        BY <1>1, IdleTypes DEF SaveS3, RequestType, Restoring
    <2>4. edits' \in 0..MaxEdits
        <3>1. edits \in 0..MaxEdits
            BY <1>0, TypeParts
        <3>2. edits < MaxEdits /\ edits' = edits + 1
            BY <1>1 DEF SaveS3
        <3> QED
            BY <3>1, <3>2, BackupAssumption
    <2>5. TypeOK'
        BY <1>0, <1>1, <2>1, <2>2, <2>3, <2>4, TypeParts, TypePartsNext DEF SaveS3
    <2> QED
        BY <1>1, <2>3, <2>5, PageTypes DEF SaveS3
<1>2. ASSUME NEW p \in Passphrases, SavePassphrase(p)
      PROVE  Shape'
    <2> DEFINE d == [db EXCEPT !.pass = p]
    <2>1. d \in Databases
        BY <1>0, TypeParts, DatabaseFacts
    <2>2. Write(d) \/ Miss
        BY <1>2 DEF SavePassphrase
    <2> HIDE DEF d
    <2>3. /\ db' \in Databases /\ file' \in {"sound", "partial", "spoiled"}
          /\ faults' \subseteq {"leak", "overlap"}
        BY <1>0, <2>1, <2>2, WriteTypes, MissTypes
    <2>4. admin' \in RequestType /\ admin'.pc \notin Restoring
        BY <1>2, IdleTypes DEF SavePassphrase, RequestType, Restoring
    <2>5. edits' \in 0..MaxEdits
        <3>1. edits \in 0..MaxEdits
            BY <1>0, TypeParts
        <3>2. edits < MaxEdits /\ edits' = edits + 1
            BY <1>2 DEF SavePassphrase
        <3> QED
            BY <3>1, <3>2, BackupAssumption
    <2>6. TypeOK'
        BY <1>0, <1>2, <2>3, <2>4, <2>5, TypeParts, TypePartsNext DEF SavePassphrase
    <2> QED
        BY <1>2, <2>4, <2>6, PageTypes DEF SavePassphrase
<1>3. CASE UpdateS3Config
    <2>1. bucket' \in Buckets \cup {NoBucket}
        BY <1>0, <1>3, TypeParts DEF UpdateS3Config, RequestType
    <2>2. TypeOK'
        BY <1>0, <1>3, <2>1, IdleTypes, TypeParts, TypePartsNext DEF UpdateS3Config
    <2> QED
        BY <1>3, <2>2, IdleTypes, PageTypes DEF UpdateS3Config, Restoring
<1>4. CASE CacheKey
    <2>1. creds' \in Passphrases \cup {NoPass}
        BY <1>0, <1>4, TypeParts DEF CacheKey, RequestType
    <2>2. TypeOK'
        BY <1>0, <1>4, <2>1, IdleTypes, TypeParts, TypePartsNext DEF CacheKey
    <2> QED
        BY <1>4, <2>2, IdleTypes, PageTypes DEF CacheKey, Restoring
<1> QED
    BY <1>1, <1>2, <1>3, <1>4

LEMMA RestoreTypes ==
    ASSUME TInv, (\E i \in Ids : Fetch(i)) \/ BeginReplace \/ EndReplace \/ FailReplace
    PROVE  Shape'
<1>0. TypeOK /\ StoreOK'
    BY StoreKept, TypeParts DEF TInv, Shape, Fetch, BeginReplace, EndReplace, FailReplace
<1>1. ASSUME NEW i \in Ids, Fetch(i)
      PROVE  Shape'
    <2>1. store[bucket][db.rows[i].key] \in Objects
        BY <1>0, <1>1, TypeParts DEF Fetch, StoreOK
    <2>2. admin' \in RequestType
        BY <1>1, <2>1, IdleTypes DEF Fetch, RequestType
    <2>3. TypeOK'
        BY <1>0, <1>1, <2>2, TypeParts, TypePartsNext DEF Fetch
    <2> QED
        BY <1>1, <2>3, PageTypes DEF Fetch
<1>2. CASE BeginReplace
    <2>1. admin' \in RequestType
        BY <1>0, <1>2, TypeParts DEF BeginReplace, RequestType
    <2>2. TypeOK'
        BY <1>0, <1>2, <2>1, TypeParts, TypePartsNext DEF BeginReplace
    <2> QED
        BY <1>2, <2>2, PageTypes DEF BeginReplace, Restoring, TInv, Shape
<1>3. CASE EndReplace
    <2>1. admin' \in RequestType
        BY <1>0, <1>3, TypeParts DEF EndReplace, RequestType
    <2>2. db' \in Databases /\ file' \in {"sound", "partial", "spoiled"}
        BY <1>0, <1>3, TypeParts DEF EndReplace, RequestType, Objects
    <2>3. faults' \subseteq {"leak", "overlap"}
        BY <1>0, <1>3, TypeParts DEF EndReplace
    <2>4. TypeOK'
        BY <1>0, <1>3, <2>1, <2>2, <2>3, TypeParts, TypePartsNext DEF EndReplace
    <2> QED
        BY <1>3, <2>4, PageTypes DEF EndReplace, Restoring, TInv, Shape
<1>4. CASE FailReplace
    <2>1. TypeOK'
        BY <1>0, <1>4, IdleTypes, TypeParts, TypePartsNext DEF FailReplace
    <2> QED
        BY <1>4, <2>1, IdleTypes, PageTypes DEF FailReplace, Restoring
<1> QED
    BY <1>1, <1>2, <1>3, <1>4

LEMMA RebootTypes ==
    ASSUME TInv, Crash \/ Exit
    PROVE  Shape'
<1>0. TypeOK /\ restarts < MaxRestarts /\ Reboot
    BY DEF TInv, Shape, Crash, Exit, Restoring
<1>1. /\ job' = [j \in Jobs |-> IdleJob] /\ admin' = NoRequest /\ doomed' = NothingDoomed
      /\ restarts' = restarts + 1
      /\ UNCHANGED <<db, file, store, now, edits>>
    BY <1>0 DEF Reboot, Booted
<1>2. StoreOK' /\ restarts' \in 0..MaxRestarts
    BY <1>0, <1>1, StoreKept, TypeParts, BackupAssumption
<1>3. /\ bucket' \in Buckets \cup {NoBucket}
      /\ creds' \in Passphrases \cup {NoPass}
    BY <1>0, TypeParts, DatabaseFacts DEF Reboot, Booted
<1>4. /\ status' \in {"idle", "running", "disabled", "error"} /\ inProgress' \in BOOLEAN
      /\ loop' \in {"off", "waiting", "backup", "cleanup", "deleting", "ended"}
      /\ main' \in {"serving", "stopping", "stopped", "down"}
    BY <1>0 DEF Reboot, Booted
<1>5. faults' \subseteq {"leak", "overlap"}
    BY <1>0, TypeParts DEF Reboot
<1>6. job' \in [Jobs -> JobType] /\ \A j \in Jobs : Placed(job'[j]) /\ job'[j].pc = "idle"
    BY <1>1, IdleTypes DEF IdleJob
<1>7. TypeOK'
    BY <1>0, <1>1, <1>2, <1>3, <1>4, <1>5, <1>6, IdleTypes, TypeParts, TypePartsNext
<1> QED
    BY <1>1, <1>6, <1>7, IdleTypes DEF TInv, Shape, Restoring, Jobs

LEMMA OtherTypes ==
    ASSUME TInv, BackupCancel \/ Stop \/ Tick \/ UNCHANGED vars
    PROVE  Shape'
<1>0. TypeOK /\ StoreOK'
    BY StoreKept, TypeParts DEF TInv, Shape, BackupCancel, Stop, Tick, vars
<1>1. CASE BackupCancel \/ Stop
    <2>1. TypeOK'
        BY <1>0, <1>1, TypeParts, TypePartsNext DEF BackupCancel, Stop
    <2> QED
        BY <1>1, <2>1, PageTypes DEF BackupCancel, Stop, TInv, Shape
<1>2. CASE Tick \/ UNCHANGED vars
    <2>1. now' \in Times
        BY <1>0, <1>2, TypeParts, BackupAssumption DEF Tick, vars, Times
    <2>2. TypeOK'
        BY <1>0, <1>2, <2>1, TypeParts, TypePartsNext DEF Tick, vars, memVars
    <2> QED
        BY <1>2, <2>2, PageTypes DEF Tick, vars, memVars, TInv, Shape
<1> QED
    BY <1>1, <1>2

LEMMA Basics ==
    ASSUME TInv
    PROVE  /\ DOMAIN job = Jobs /\ Loop \in Jobs /\ Manual \subseteq Jobs /\ Loop \notin Manual
           /\ \A j \in Jobs :
                 /\ DOMAIN job[j] = {"pc", "pass", "to", "id", "key", "copy", "error",
                                   "missed"}
                 /\ job[j].key \in Int /\ job[j].id \in Nat
           /\ DOMAIN store = Buckets /\ now \in Int /\ doomed.keys \subseteq Int
           /\ \A b \in Buckets : DOMAIN store[b] \subseteq Times
           /\ db \in Databases /\ DOMAIN db = {"rows", "last", "pass", "bucket"}
           /\ db.last \in Int /\ DOMAIN db.rows \subseteq Ids
           /\ \A i \in DOMAIN db.rows : /\ DOMAIN db.rows[i] = {"key", "created", "status"}
                                        /\ db.rows[i].key \in Times
                                        /\ db.rows[i].created \in Int
                                        /\ db.rows[i].key <= db.rows[i].created
           /\ NoBucket \notin Buckets /\ Retention \in Nat
           /\ Times \subseteq Int /\ 0 \notin Times
           /\ Ids \subseteq Int /\ DOMAIN admin = {"pc", "to", "pass", "object"}
<1>1. TypeOK
    BY DEF TInv, Shape
<1>2. \A j \in Jobs : job[j] \in JobType
    BY <1>1, TypeParts
<1>3. Times \subseteq Int /\ Ids \subseteq Int /\ 0 \notin Times
    BY BackupAssumption DEF Times, Ids
<1>4. db \in Databases /\ db.rows \in Tables
    BY <1>1, TypeParts, DatabaseFacts
<1>5. DOMAIN db.rows \subseteq Ids /\ \A i \in DOMAIN db.rows : db.rows[i] \in Rows
    BY <1>4, TableFacts
<1>6. DOMAIN db = {"rows", "last", "pass", "bucket"} /\ db.last \in Int
    BY <1>4, DatabaseFacts, BackupAssumption
<1>7. \A j \in Jobs : job[j].key \in Int /\ job[j].id \in Nat
    BY <1>2, BackupAssumption DEF JobType, Ids, Times
<1>8. now \in Int /\ doomed.keys \subseteq Int
    BY <1>1, <1>3, TypeParts
<1>9. DOMAIN job = Jobs /\ DOMAIN admin = {"pc", "to", "pass", "object"}
    BY <1>1, TypeParts DEF RequestType
<1>10. DOMAIN store = Buckets /\ \A b \in Buckets : DOMAIN store[b] \subseteq Times
    BY <1>1, TypeParts DEF StoreOK
<1> QED
    BY <1>2, <1>3, <1>4, <1>5, <1>6, <1>7, <1>8, <1>9, <1>10, BackupAssumption
       DEF JobType, Rows, Jobs

(* What begins a run, CheckSchedule or BackupNow. *)
Begins(j, p) ==
    /\ job[j].pc = "idle"
    /\ job' = [job EXCEPT ![j].pc = "begin", ![j].pass = p]
    /\ UNCHANGED <<db, file, store, now, bucket, doomed, admin, restarts, faults>>
    /\ loop = loop' \/ (loop = "waiting" /\ loop' = "backup")

LEMMA BeginsRun ==
    ASSUME TInv, CheckSchedule \/ \E j \in Manual : BackupNow(j)
    PROVE  \E j \in Jobs : \E p : Begins(j, p)
<1>1. CASE CheckSchedule
    <2>1. job[Loop].pc = "idle" /\ Loop \in Jobs
        BY <1>1 DEF TInv, Shape, CheckSchedule, Jobs
    <2>2. Begins(Loop, creds)
        BY <1>1, <2>1 DEF CheckSchedule, Begins
    <2> QED
        BY <2>1, <2>2
<1>2. ASSUME NEW j \in Manual, BackupNow(j)
      PROVE  \E i \in Jobs : \E p : Begins(i, p)
    BY <1>2, Basics DEF BackupNow, Begins
<1> QED
    BY <1>1, <1>2

(* The steps that leave runs, clock, store and deletions alone. *)
PageStep ==
    \/ \E b \in Buckets \cup {NoBucket} : SaveS3(b)
    \/ \E p \in Passphrases : SavePassphrase(p)
    \/ UpdateS3Config \/ CacheKey
    \/ \E i \in Ids : Fetch(i)
    \/ BeginReplace \/ EndReplace \/ FailReplace
    \/ BackupCancel \/ Stop \/ UNCHANGED vars

LEMMA NextCases ==
    ASSUME [Next]_vars
    PROVE  \/ \E j \in Jobs : JobStep(j)
           \/ CheckSchedule \/ \E j \in Manual : BackupNow(j)
           \/ CleanupStep \/ PageStep \/ Crash \/ Exit \/ Tick
BY DEF Next, PageStep

LEMMA PageStepLeaves ==
    ASSUME PageStep
    PROVE  UNCHANGED <<store, now, job, loop, doomed, restarts>> /\ faults \subseteq faults'
BY DEF PageStep, SaveS3, SavePassphrase, Miss, Write, UpdateS3Config, CacheKey, Fetch, BeginReplace,
       EndReplace, FailReplace, BackupCancel, Stop, vars, memVars

LEMMA RebootLeaves ==
    ASSUME Crash \/ Exit
    PROVE  /\ UNCHANGED <<db, file, store, now>> /\ faults \subseteq faults'
           /\ job' = [j \in Jobs |-> IdleJob] /\ doomed' = NothingDoomed
           /\ admin' = NoRequest
BY DEF Crash, Exit, Reboot, Booted

LEMMA DatedKept ==
    ASSUME TInv, [Next]_vars
    PROVE  Dated'
<1>1. ASSUME NEW j \in Jobs, JobStep(j)
      PROVE  Dated'
    <2>1. (\A i \in Jobs \ {j} : job'[i] = job[i]) /\ UNCHANGED now
        BY <1>1, Basics
           DEF JobStep, BeginRun, MarkRunning, CreateRow, ClaimRow, Checkpoint, CopyDatabase,
               Upload, Finish, MarkFailed, Report, Goto, Return, Fail
    <2>2. CASE MarkRunning(j)
        <3>1. job'[j].key = now /\ now \in Times
            BY <2>2, Basics, TypeParts DEF MarkRunning, TInv, Shape
        <3> QED
            BY <2>1, <3>1, Basics DEF TInv, Dated
    <2>3. CASE ~MarkRunning(j)
        <3>1. job'[j].pc # "create"
            BY <1>1, <2>3, Basics
               DEF JobStep, BeginRun, CreateRow, ClaimRow, Checkpoint, CopyDatabase,
                   Upload, Finish, MarkFailed, Report, Goto, Return, Fail, IdleJob
        <3> QED
            BY <2>1, <3>1 DEF TInv, Dated
    <2> QED
        BY <2>2, <2>3
<1>2. CASE CheckSchedule \/ \E j \in Manual : BackupNow(j)
    <2>1. PICK j, p : j \in Jobs /\ Begins(j, p)
        BY <1>2, BeginsRun
    <2>2. (\A i \in Jobs \ {j} : job'[i] = job[i]) /\ job'[j].pc = "begin" /\ UNCHANGED now
        BY <2>1, Basics DEF Begins
    <2> QED
        BY <2>2 DEF TInv, Dated
<1>3. CASE CleanupStep \/ PageStep
    <2>1. UNCHANGED <<job, now>>
        BY <1>3, PageStepLeaves DEF CleanupStep, DropRows, DeleteObject, CleanupEnds, LoopEnds
    <2> QED
        BY <2>1 DEF TInv, Dated
<1>4. CASE Crash \/ Exit
    BY <1>4, RebootLeaves DEF Dated, IdleJob
<1>5. CASE Tick
    <2>1. UNCHANGED job /\ now' = now + 1
        BY <1>5 DEF Tick, memVars
    <2> QED
        BY <2>1, Basics DEF TInv, Dated
<1> QED
    BY <1>1, <1>2, <1>3, <1>4, <1>5, NextCases

LEMMA NextTypes ==
    ASSUME TInv, [Next]_vars
    PROVE  TInv'
<1>1. Shape'
    BY JobStepTypes, CheckScheduleTypes, CleanupTypes, BackupNowTypes, SettingsTypes,
       RestoreTypes, RebootTypes, OtherTypes
       DEF Next
<1> QED
    BY <1>1, DatedKept DEF TInv

LEMMA InitTypes ==
    ASSUME Init
    PROVE  TInv
<1>1. db \in Databases
    BY DatabaseFacts, BackupAssumption DEF Init
<1>2. db.bucket \in Buckets \cup {NoBucket} /\ Loop \in Jobs
    BY <1>1, DatabaseFacts DEF Jobs
<1>3. StoreOK
    BY DEF Init, StoreOK, NoRows
<1>4. job \in [Jobs -> JobType] /\ \A j \in Jobs : Placed(job[j]) /\ job[j].pc = "idle"
    BY IdleTypes DEF Init, IdleJob
<1>5. now \in Times /\ restarts \in 0..MaxRestarts /\ edits \in 0..MaxEdits
    BY BackupAssumption DEF Init, Times
<1>6. TypeOK
    BY <1>1, <1>2, <1>3, <1>4, <1>5, IdleTypes, TypeParts DEF Init
<1> QED
    BY <1>2, <1>4, <1>6, IdleTypes DEF Init, TInv, Shape, Dated, Restoring

(* The variables keep their types for any runs, buckets and restarts: a    *)
(* run past its INSERT always carries a row's id and key (runBackup).      *)
THEOREM BackupTypes == Spec => []TypeOK
<1>1. Init => TInv
    BY InitTypes
<1>2. TInv /\ [Next]_vars => TInv'
    BY NextTypes
<1>3. TInv => TypeOK
    BY DEF TInv, Shape
<1> QED
    BY <1>1, <1>2, <1>3, PTL DEF Spec

-----------------------------------------------------------------------------
(* The status.  A run sets it once it has a client and clears it last, so  *)
(* that while it says running, some run is between the two.                *)

LEMMA RunningKept ==
    ASSUME TInv, RunningHasJob, [Next]_vars
    PROVE  RunningHasJob'
<1>0. DOMAIN job = Jobs /\ Loop \in Jobs /\ Manual \subseteq Jobs
      /\ \A j \in Jobs :
            DOMAIN job[j] = {"pc", "pass", "to", "id", "key", "copy", "error", "missed"}
    BY TypeParts DEF TInv, Shape, JobType, Jobs
<1>1. ASSUME NEW j \in Jobs, JobStep(j)
      PROVE  RunningHasJob'
    <2>1. \A i \in Jobs \ {j} : job'[i] = job[i]
        BY <1>0, <1>1
           DEF JobStep, BeginRun, MarkRunning, CreateRow, ClaimRow, Checkpoint, CopyDatabase,
               Upload, Finish, MarkFailed, Report, Goto, Return, Fail
    <2>2. CASE MarkRunning(j)
        BY <1>0, <2>2 DEF MarkRunning, RunningHasJob
    <2>3. CASE Report(j)
        BY <2>3 DEF Report, RunningHasJob
    <2>4. CASE BeginRun(j)
        BY <1>0, <2>1, <2>4 DEF BeginRun, RunningHasJob
    <2>5. CASE ~MarkRunning(j) /\ ~Report(j) /\ ~BeginRun(j)
        <3>1. UNCHANGED <<status, inProgress>>
            BY <1>1, <2>5
               DEF JobStep, CreateRow, ClaimRow, Checkpoint, CopyDatabase, Upload, Finish,
                   MarkFailed
        <3>2. job'[j].pc \in {"claim", "report", "checkpoint", "copy", "fail", "upload",
                              "finish", "ready"}
            BY <1>0, <1>1, <2>5
               DEF JobStep, CreateRow, ClaimRow, Checkpoint, CopyDatabase, Upload, Finish,
                   MarkFailed, Goto, Fail
        <3> QED
            BY <2>1, <3>1, <3>2 DEF RunningHasJob
    <2> QED
        BY <2>2, <2>3, <2>4, <2>5
<1>2. CASE \/ CheckSchedule \/ \E j \in Manual : BackupNow(j)
    <2>1. PICK j, p :
              /\ j \in Jobs
              /\ job[j].pc = "idle" /\ job' = [job EXCEPT ![j].pc = "begin", ![j].pass = p]
              /\ UNCHANGED <<status, inProgress>>
        <3>1. CASE CheckSchedule
            <4>1. job[Loop].pc = "idle"
                BY <3>1 DEF TInv, Shape, CheckSchedule
            <4> QED
                BY <1>0, <3>1, <4>1 DEF CheckSchedule
        <3>2. ASSUME NEW j \in Manual, BackupNow(j)
              PROVE  \E i \in Jobs : \E p :
                        /\ job[i].pc = "idle"
                        /\ job' = [job EXCEPT ![i].pc = "begin", ![i].pass = p]
                        /\ UNCHANGED <<status, inProgress>>
            BY <1>0, <3>2 DEF BackupNow
        <3> QED
            BY <1>2, <3>1, <3>2
    <2>2. \A i \in Jobs \ {j} : job'[i] = job[i]
        BY <1>0, <2>1
    <2> QED
        BY <2>1, <2>2 DEF RunningHasJob
<1>3. CASE Crash \/ Exit
    BY <1>3 DEF Crash, Exit, Reboot, Booted, RunningHasJob
<1>4. CASE UpdateS3Config
    BY <1>4 DEF UpdateS3Config, RunningHasJob
<1>5. CASE UNCHANGED <<job, status, inProgress>>
    BY <1>5 DEF RunningHasJob
<1> QED
    BY <1>1, <1>2, <1>3, <1>4, <1>5
       DEF Next, vars, memVars, CleanupStep, DropRows, DeleteObject, CleanupEnds, LoopEnds,
           SaveS3, SavePassphrase, CacheKey, Fetch, BeginReplace, EndReplace, FailReplace,
           BackupCancel, Stop, Tick

(* For any number of overlapping runs, scheduled and manual, with failures *)
(* and changes of settings in between: while the status says that a backup *)
(* runs, one does (runBackup, UpdateS3Config).                             *)
THEOREM RunningMeansRun == Spec => []RunningHasJob
<1>1. Init => TInv /\ RunningHasJob
    BY InitTypes DEF Init, RunningHasJob
<1>2. TInv /\ RunningHasJob /\ [Next]_vars => TInv' /\ RunningHasJob'
    BY NextTypes, RunningKept
<1> QED
    BY <1>1, <1>2, PTL DEF Spec

-----------------------------------------------------------------------------
(* Ages.  A run takes less than the retention period, and only keys older  *)
(* than that wait for deletion: those of rows inserted longer ago.         *)

AInv ==
    /\ \A j \in Jobs :
        /\ job[j].key # 0 => now - job[j].key <= Retention
        /\ job[j].pc \notin {"idle", "begin"} => job[j].to \in Buckets
        /\ job[j].pc = "finish" => job[j].key \in DOMAIN store[job[j].to]
    /\ \A k \in doomed.keys : now - k > Retention
    /\ loop # "deleting" => doomed.keys = {}

(* What time and deletions leave of the store and of the history. *)
Passes ==
    /\ now' >= now /\ faults \subseteq faults'
    /\ \A b \in Buckets : \A k \in DOMAIN store[b] :
        k \in DOMAIN store'[b] \/ now' - k > Retention

LEMMA JobStepAges ==
    ASSUME TInv, AInv, NEW j \in Jobs, JobStep(j)
    PROVE  AInv' /\ Passes
<1>0. \A i \in Jobs \ {j} : job'[i] = job[i]
    BY Basics
       DEF JobStep, BeginRun, MarkRunning, CreateRow, ClaimRow, Checkpoint, CopyDatabase,
           Upload, Finish, MarkFailed, Report, Goto, Return, Fail
<1>1. /\ UNCHANGED <<now, doomed>>
      /\ loop' = loop \/ (j = Loop /\ job[j].pc # "idle")
    <2>1. UNCHANGED <<now, doomed>> /\ job[j].pc # "idle"
        BY DEF JobStep, BeginRun, MarkRunning, CreateRow, ClaimRow, Checkpoint, CopyDatabase,
               Upload, Finish, MarkFailed, Report
    <2>2. CASE BeginRun(j) \/ Report(j)
        BY <2>1, <2>2 DEF BeginRun, Report, Return
    <2>3. CASE ~(BeginRun(j) \/ Report(j))
        BY <2>1, <2>3
           DEF JobStep, MarkRunning, CreateRow, ClaimRow, Checkpoint, CopyDatabase, Upload,
               Finish, MarkFailed
    <2> QED
        BY <2>1, <2>2, <2>3
<1>2. faults \subseteq faults'
    BY DEF JobStep, BeginRun, MarkRunning, CreateRow, ClaimRow, Checkpoint, CopyDatabase,
           Upload, Finish, MarkFailed, Report, WriteRow, Write, Miss
<1>3. \A b \in Buckets : DOMAIN store[b] \subseteq DOMAIN store'[b]
    <2>1. CASE UNCHANGED store
        BY <2>1
    <2>2. CASE Put(j)
        BY <2>2, Basics DEF Put, With
    <2> QED
        BY <2>1, <2>2
           DEF JobStep, BeginRun, MarkRunning, CreateRow, ClaimRow, Checkpoint, CopyDatabase,
               Upload, Finish, MarkFailed, Report
<1>4. Passes
    BY <1>1, <1>2, <1>3, Basics DEF Passes
<1>5. loop' # "deleting" => doomed'.keys = {}
    BY <1>1 DEF AInv, TInv, Shape
<1>6. job'[j].key # 0 => now' - job'[j].key <= Retention
    <2>1. job'[j].key \in {job[j].key, 0, now}
        BY Basics
           DEF JobStep, BeginRun, MarkRunning, CreateRow, ClaimRow, Checkpoint, CopyDatabase,
               Upload, Finish, MarkFailed, Report, Goto, Return, Fail, IdleJob
    <2> QED
        BY <1>1, <2>1, Basics DEF AInv
<1>7. job'[j].pc \notin {"idle", "begin"} => job'[j].to \in Buckets
    BY Basics, TypeParts
       DEF AInv, TInv, Shape, JobStep, BeginRun, MarkRunning, CreateRow, ClaimRow, Checkpoint,
           CopyDatabase, Upload, Finish, MarkFailed, Report, Goto, Return, Fail, IdleJob
<1>8. job'[j].pc = "finish" => job'[j].key \in DOMAIN store'[job'[j].to]
    <2>1. CASE Upload(j)
        BY <2>1, Basics DEF Upload, Put, With, AInv, Fail
    <2>2. CASE ~Upload(j)
        BY <2>2, Basics
           DEF JobStep, BeginRun, MarkRunning, CreateRow, ClaimRow, Checkpoint, CopyDatabase,
               Finish, MarkFailed, Report, Goto, Return, Fail, IdleJob
    <2> QED
        BY <2>1, <2>2
<1> QED
    BY <1>0, <1>1, <1>3, <1>4, <1>5, <1>6, <1>7, <1>8 DEF AInv

LEMMA AgesKept ==
    ASSUME TInv, AInv, [Next]_vars
    PROVE  AInv' /\ Passes
<1>1. ASSUME NEW j \in Jobs, JobStep(j)
      PROVE  AInv' /\ Passes
    BY <1>1, JobStepAges
<1>2. CASE CheckSchedule \/ \E j \in Manual : BackupNow(j)
    <2>1. PICK j, p : j \in Jobs /\ Begins(j, p)
        BY <1>2, BeginsRun
    <2>2. \A i \in Jobs \ {j} : job'[i] = job[i]
        BY <2>1, Basics DEF Begins
    <2>3. job'[j].key = job[j].key /\ job'[j].pc = "begin"
        BY <2>1, Basics DEF Begins
    <2> QED
        BY <2>1, <2>2, <2>3, Basics DEF Begins, AInv, Passes
<1>3. CASE CleanupStep
    <2>0. UNCHANGED <<job, now>> /\ faults \subseteq faults'
        BY <1>3 DEF CleanupStep, DropRows, Write, DeleteObject, CleanupEnds, LoopEnds
    <2>1. CASE DropRows
        <3>1. \A k \in doomed'.keys : k \in doomed.keys \/ now - k > Retention
            BY <2>1, Basics DEF DropRows, Expired
        <3>2. UNCHANGED store /\ (loop' # "deleting" => doomed' = doomed /\ loop # "deleting")
            BY <2>1 DEF DropRows
        <3> QED
            BY <2>0, <3>1, <3>2, Basics DEF AInv, Passes
    <2>2. ASSUME NEW k \in Times, DeleteObject(k)
          PROVE  AInv' /\ Passes
        <3>1. /\ loop' = loop /\ loop = "deleting" /\ k \in doomed.keys
              /\ doomed'.keys = doomed.keys \ {k} /\ now - k > Retention
            BY <2>2, TypeParts DEF DeleteObject, AInv, TInv, Shape
        <3>2. \A b \in Buckets : \A l \in DOMAIN store[b] : l \in DOMAIN store'[b] \/ l = k
            BY <2>2, Basics DEF DeleteObject, Without
        <3>3. Passes
            BY <2>0, <3>1, <3>2, Basics DEF Passes
        <3>4. ASSUME NEW j \in Jobs, job[j].pc = "finish"
              PROVE  job[j].key \in DOMAIN store'[job[j].to]
            <4>1. /\ job[j].key \in DOMAIN store[job[j].to] /\ job[j].to \in Buckets
                  /\ job[j].key \in Times /\ now - job[j].key <= Retention
                BY <3>4, Basics DEF AInv, TInv, Shape, Placed, WithRow
            <4>2. job[j].key # k
                BY <3>1, <4>1, Basics
            <4> QED
                BY <3>2, <4>1, <4>2
        <3> QED
            BY <2>0, <3>1, <3>3, <3>4, Basics DEF AInv
    <2>3. CASE CleanupEnds \/ LoopEnds
        BY <2>0, <2>3, Basics, IdleTypes DEF CleanupEnds, LoopEnds, AInv, Passes
    <2> QED
        BY <1>3, <2>1, <2>2, <2>3 DEF CleanupStep
<1>4. CASE PageStep
    BY <1>4, PageStepLeaves, Basics DEF AInv, Passes
<1>5. CASE Crash \/ Exit
    BY <1>5, RebootLeaves, IdleTypes, Basics DEF AInv, Passes, IdleJob
<1>6. CASE Tick
    <2>1. /\ UNCHANGED <<store, job, loop, doomed, faults>> /\ now' = now + 1
          /\ \A j \in Jobs : job[j].key # 0 => now - job[j].key < Retention
        BY <1>6 DEF Tick, memVars
    <2> QED
        BY <2>1, Basics DEF AInv, Passes
<1> QED
    BY <1>1, <1>2, <1>3, <1>4, <1>5, <1>6, NextCases

-----------------------------------------------------------------------------
(* Rows and runs.  As long as the file is sound and no restore has put     *)
(* another in its place, a run's row, if it is there, is its own: no other *)
(* run has its id, it has the run's key, and it is settled once the run is *)
(* about to return, unless the write that settles it has failed.           *)

Steady == file = "sound" /\ admin.pc # "exit"

Own(j) ==
    job[j].id # 0 =>
        /\ job[j].id <= db.last
        /\ job[j].id \in DOMAIN db.rows => db.rows[job[j].id].key = job[j].key
        /\ job[j].pc \in {"ready", "report"} => Settled(job[j].id) \/ job[j].missed

Apart == \A i, j \in Jobs : job[i].id = job[j].id /\ job[i].id # 0 => i = j

RInv == Steady => Apart /\ \A j \in Jobs : Own(j)

(* What a step does to a row: nothing, its status, or it drops it. *)
LEMMA RowWritten ==
    ASSUME TInv, file = "sound", NEW i, NEW s, WriteRow(i, s)
    PROVE  /\ db'.last = db.last /\ DOMAIN db'.rows = DOMAIN db.rows /\ file' = "sound"
           /\ db'.bucket = db.bucket
           /\ \A l \in DOMAIN db.rows :
                /\ db'.rows[l].key = db.rows[l].key
                /\ db'.rows[l].status = IF l = i THEN s ELSE db.rows[l].status
BY Basics DEF WriteRow, Write

Added(j) ==
    LET i == db.last + 1 IN
    /\ db'.last = i /\ DOMAIN db'.rows = DOMAIN db.rows \cup {i}
    /\ file' = "sound" /\ db'.bucket = db.bucket
    /\ db'.rows[i].key = job[j].key /\ db'.rows[i].status = "pending"
    /\ \A l \in DOMAIN db.rows : l # i => db'.rows[l] = db.rows[l]
    /\ job'[j].pc = "claim" /\ job'[j].id = i /\ job'[j].key = job[j].key

LEMMA RowAdded ==
    ASSUME TInv, NEW j \in Jobs, CreateRow(j), job'[j].pc = "claim"
    PROVE  Added(j)
<1>1. job'[j].pc # "report"
    OBVIOUS
<1>2. /\ file = "sound"
      /\ Write([db EXCEPT !.rows = With(@, db.last + 1, [key |-> job[j].key,
                                  created |-> now, status |-> "pending"]),
                          !.last = db.last + 1])
      /\ job' = [job EXCEPT ![j].pc = "claim", ![j].id = db.last + 1]
    BY <1>1, Basics DEF CreateRow, Goto
<1> QED
    BY <1>2, Basics DEF Write, With, Added

(* What a statement that fails leaves of a run. *)
LEMMA RowMissed ==
    ASSUME TInv, NEW j \in Jobs, Miss,
           \/ CreateRow(j) /\ job'[j].pc # "claim"
           \/ ClaimRow(j) /\ Goto(j, "checkpoint")
           \/ Finish(j) /\ job' = [job EXCEPT ![j].pc = "ready", ![j].missed = TRUE]
           \/ MarkFailed(j) /\ job' = [job EXCEPT ![j].pc = "report", ![j].error = "none",
                                                 ![j].missed = TRUE]
    PROVE  /\ job'[j].id = job[j].id /\ job'[j].key = job[j].key
           /\ job[j].id # 0 /\ job'[j].pc \in {"ready", "report"} => job'[j].missed
<1>1. CASE CreateRow(j) /\ job'[j].pc # "claim"
    <2>1. job[j].id = 0
        BY <1>1 DEF CreateRow, TInv, Shape, Placed, BeforeRow
    <2> QED
        BY <1>1, <2>1, Basics DEF CreateRow, Goto
<1>2. CASE ~(CreateRow(j) /\ job'[j].pc # "claim")
    BY <1>2, Basics DEF Goto
<1> QED
    BY <1>1, <1>2

LEMMA RowsDropped ==
    ASSUME TInv, DropRows
    PROVE  /\ db'.last = db.last /\ file' = file /\ db'.bucket = db.bucket
           /\ DOMAIN db'.rows \subseteq DOMAIN db.rows
           /\ \A l \in DOMAIN db'.rows : db'.rows[l] = db.rows[l]
BY Basics DEF DropRows, Write, Without

LEMMA NotSound ==
    ASSUME file # "sound", NEW d, Write(d)
    PROVE  db' = db /\ file' = "spoiled"
BY DEF Write

LEMMA JobStepRows ==
    ASSUME TInv, RInv, NEW j \in Jobs, JobStep(j), Steady'
    PROVE  Apart' /\ \A i \in Jobs : Own(i)'
<1>0. /\ \A i \in Jobs \ {j} : job'[i] = job[i]
    BY Basics
       DEF JobStep, BeginRun, MarkRunning, CreateRow, ClaimRow, Checkpoint, CopyDatabase,
           Upload, Finish, MarkFailed, Report, Goto, Return, Fail
<1>1. UNCHANGED admin
    BY DEF JobStep, BeginRun, MarkRunning, CreateRow, ClaimRow, Checkpoint, CopyDatabase,
           Upload, Finish, MarkFailed, Report
<1>2. file = "sound"
    BY DEF Steady, JobStep, BeginRun, MarkRunning, CreateRow, ClaimRow, Checkpoint,
           CopyDatabase, Upload, Finish, MarkFailed, Report, WriteRow, Write, Miss
<1>3. Apart /\ \A i \in Jobs : Own(i)
    BY <1>1, <1>2 DEF RInv, Steady
<1>4. CASE CreateRow(j) /\ job'[j].pc = "claim"
    <2>1. \A i \in Jobs \ {j} : job[i].id # 0 => job[i].id <= db.last
        BY <1>3 DEF Own
    <2>2. db.last + 1 # 0 /\ db.last \in Nat
        BY DatabaseFacts, Basics
    <2>3. Apart'
        BY <1>0, <1>2, <1>3, <1>4, <2>1, <2>2, RowAdded, Basics DEF Apart, Added
    <2>4. ASSUME NEW i \in Jobs
          PROVE  Own(i)'
        <3>1. CASE i = j
            BY <1>2, <1>4, <2>2, <3>1, RowAdded DEF Own, Settled, Added
        <3>2. CASE i # j
            <4>1. job'[i] = job[i] /\ Own(i)
                BY <1>0, <1>3, <3>2
            <4>2. job[i].id # 0 => job[i].id # db.last + 1
                BY <2>1, <2>2, <3>2, Basics
            <4> QED
                BY <1>2, <1>4, <2>2, <4>1, <4>2, RowAdded, Basics DEF Own, Settled, Added
        <3> QED
            BY <3>1, <3>2
    <2> QED
        BY <2>3, <2>4
<1>5. ASSUME NEW s, WriteRow(job[j].id, s), job'[j].id = job[j].id, job'[j].key = job[j].key,
             job'[j].pc = "checkpoint" \/ s \in {"completed", "failed"}
      PROVE  Apart' /\ \A i \in Jobs : Own(i)'
    <2>1. Apart'
        BY <1>0, <1>3, <1>5 DEF Apart
    <2>2. ASSUME NEW i \in Jobs, job[i].id # 0
          PROVE  Own(i)'
        <3>1. CASE i = j
            BY <1>2, <1>3, <1>5, <2>2, <3>1, RowWritten DEF Own, Settled
        <3>2. CASE i # j
            <4>1. job'[i] = job[i] /\ Own(i) /\ job[i].id # job[j].id
                BY <1>0, <1>3, <2>2, <3>2 DEF Apart
            <4> QED
                BY <1>2, <1>5, <2>2, <4>1, RowWritten DEF Own, Settled
        <3> QED
            BY <3>1, <3>2
    <2>3. ASSUME NEW i \in Jobs, job[i].id = 0
          PROVE  Own(i)'
        BY <1>0, <1>5, <2>3 DEF Own
    <2> QED
        BY <2>1, <2>2, <2>3
<1>6. ASSUME Miss, job'[j].id = job[j].id, job'[j].key = job[j].key,
             job[j].id # 0 /\ job'[j].pc \in {"ready", "report"} => job'[j].missed
      PROVE  Apart' /\ \A i \in Jobs : Own(i)'
    <2>1. UNCHANGED db
        BY <1>6, MissLeaves
    <2>2. Apart'
        BY <1>0, <1>3, <1>6 DEF Apart
    <2> QED
        BY <1>0, <1>3, <1>6, <2>1, <2>2 DEF Own, Settled
<1>7. CASE ClaimRow(j)
    <2>1. CASE WriteRow(job[j].id, "uploading") /\ Goto(j, "checkpoint")
        BY <1>5, <2>1, Basics DEF Goto
    <2>2. CASE Miss /\ Goto(j, "checkpoint")
        BY <1>6, <1>7, <2>2, RowMissed
    <2> QED
        BY <1>7, <2>1, <2>2 DEF ClaimRow
<1>8. CASE Finish(j)
    <2>1. CASE WriteRow(job[j].id, "completed") /\ Goto(j, "ready")
        BY <1>5, <2>1, Basics DEF Goto
    <2>2. CASE Miss /\ job' = [job EXCEPT ![j].pc = "ready", ![j].missed = TRUE]
        BY <1>6, <1>8, <2>2, RowMissed
    <2> QED
        BY <1>8, <2>1, <2>2 DEF Finish
<1>9. CASE MarkFailed(j)
    <2>1. CASE /\ WriteRow(job[j].id, "failed")
               /\ job' = [job EXCEPT ![j].pc = "report", ![j].error = "none"]
        BY <1>5, <2>1, Basics
    <2>2. CASE /\ Miss
               /\ job' = [job EXCEPT ![j].pc = "report", ![j].error = "none",
                                     ![j].missed = TRUE]
        BY <1>6, <1>9, <2>2, RowMissed
    <2> QED
        BY <1>9, <2>1, <2>2 DEF MarkFailed
<1>10. CASE CreateRow(j) /\ job'[j].pc # "claim"
    <2>1. Miss
        BY <1>10, Basics DEF CreateRow
    <2> QED
        BY <1>6, <1>10, <2>1, RowMissed
<1>11. CASE BeginRun(j) \/ MarkRunning(j) \/ Checkpoint(j) \/ CopyDatabase(j) \/ Upload(j)
           \/ Report(j)
    <2>1. UNCHANGED db
        BY <1>11 DEF BeginRun, MarkRunning, Checkpoint, CopyDatabase, Upload, Report
    <2>2. \/ job'[j].id = 0
          \/ /\ job'[j].id = job[j].id /\ job'[j].key = job[j].key
             /\ job'[j].pc \notin {"ready", "report"}
        BY <1>11, Basics
           DEF BeginRun, MarkRunning, Checkpoint, CopyDatabase, Upload, Report, Goto, Return,
               Fail, IdleJob
    <2>3. Apart'
        BY <1>0, <1>3, <2>2 DEF Apart
    <2> QED
        BY <1>0, <1>3, <2>1, <2>2, <2>3 DEF Own, Settled
<1> QED
    BY <1>4, <1>7, <1>8, <1>9, <1>10, <1>11 DEF JobStep

LEMMA RowsKept ==
    ASSUME TInv, AInv, RInv, [Next]_vars
    PROVE  RInv'
<1> SUFFICES ASSUME Steady'
             PROVE  Apart' /\ \A i \in Jobs : Own(i)'
    BY DEF RInv
<1>1. ASSUME NEW j \in Jobs, JobStep(j)
      PROVE  Apart' /\ \A i \in Jobs : Own(i)'
    BY <1>1, JobStepRows
<1>2. CASE CheckSchedule \/ \E j \in Manual : BackupNow(j)
    <2>1. PICK j, p : j \in Jobs /\ Begins(j, p)
        BY <1>2, BeginsRun
    <2>2. \A i \in Jobs \ {j} : job'[i] = job[i]
        BY <2>1, Basics DEF Begins
    <2>3. job'[j].id = 0
        BY <2>1, Basics DEF Begins, TInv, Shape, Placed, BeforeRow
    <2>4. Apart /\ \A i \in Jobs : Own(i)
        BY <2>1 DEF Begins, RInv, Steady
    <2>5. Apart'
        BY <2>2, <2>3, <2>4 DEF Apart
    <2> QED
        BY <2>1, <2>2, <2>3, <2>4, <2>5 DEF Begins, Own, Settled
<1>3. CASE DropRows
    <2>1. UNCHANGED <<job, admin>>
        BY <1>3 DEF DropRows
    <2>2. Apart /\ \A i \in Jobs : Own(i)
        BY <1>3, <2>1, RowsDropped DEF RInv, Steady
    <2>3. Apart'
        BY <2>1, <2>2 DEF Apart
    <2> QED
        BY <1>3, <2>1, <2>2, <2>3, RowsDropped DEF Own, Settled
<1>4. CASE UNCHANGED <<job, db>> /\ Steady
    BY <1>4 DEF RInv, Apart, Own, Settled
<1>5. CASE CleanupStep
    <2>1. CASE ~DropRows
        BY <1>4, <1>5, <2>1 DEF CleanupStep, DeleteObject, CleanupEnds, LoopEnds, Steady
    <2> QED
        BY <1>3, <2>1
<1>6. CASE Tick
    BY <1>4, <1>6 DEF Tick, memVars, Steady
<1>7. CASE PageStep
    <2>1. UNCHANGED job
        BY <1>7, PageStepLeaves
    <2>2. Steady /\ db'.rows = db.rows /\ db'.last = db.last
        <3>1. ASSUME NEW b \in Buckets \cup {NoBucket}, SaveS3(b)
              PROVE  Steady /\ db'.rows = db.rows /\ db'.last = db.last
            BY <3>1, Basics DEF SaveS3, Steady
        <3>2. ASSUME NEW p \in Passphrases, SavePassphrase(p)
              PROVE  Steady /\ db'.rows = db.rows /\ db'.last = db.last
            BY <3>2, Basics, MissLeaves DEF SavePassphrase, Write, Steady
        <3>3. ASSUME NEW i \in Ids, Fetch(i)
              PROVE  Steady /\ db'.rows = db.rows /\ db'.last = db.last
            BY <3>3 DEF Fetch, Steady
        <3>4. CASE EndReplace \/ FailReplace \/ BeginReplace
            BY <3>4, Basics DEF EndReplace, FailReplace, BeginReplace, Steady
        <3>5. CASE UpdateS3Config \/ CacheKey \/ BackupCancel \/ Stop \/ UNCHANGED vars
            BY <3>5 DEF UpdateS3Config, CacheKey, BackupCancel, Stop, vars, memVars, Steady
        <3> QED
            BY <1>7, <3>1, <3>2, <3>3, <3>4, <3>5 DEF PageStep
    <2> QED
        BY <2>1, <2>2 DEF RInv, Apart, Own, Settled
<1>8. CASE Crash \/ Exit
    BY <1>8, RebootLeaves DEF Apart, Own, IdleJob
<1> QED
    BY <1>1, <1>2, <1>5, <1>6, <1>7, <1>8, NextCases

LEMMA RunSettles ==
    ASSUME TInv, RInv, [Next]_vars, NEW j \in Jobs,
           job[j].id # 0, job'[j].id = 0, restarts' = restarts,
           file = "sound", admin.pc # "exit"
    PROVE  Settled(job[j].id) \/ job[j].missed
<1>1. Own(j) /\ \A i \in Jobs : Placed(job[i])
    BY DEF RInv, Steady, TInv, Shape
<1>2. ASSUME NEW i \in Jobs, JobStep(i)
      PROVE  job[j].pc \in {"ready", "report"}
    <2>1. CASE i = j
        BY <1>1, <1>2, <2>1, Basics, BackupAssumption
           DEF JobStep, BeginRun, MarkRunning, CreateRow, ClaimRow, Checkpoint, CopyDatabase,
               Upload, Finish, MarkFailed, Report, Goto, Return, Fail, Placed, BeforeRow
    <2>2. CASE i # j
        BY <1>2, <2>2, Basics
           DEF JobStep, BeginRun, MarkRunning, CreateRow, ClaimRow, Checkpoint, CopyDatabase,
               Upload, Finish, MarkFailed, Report, Goto, Return, Fail
    <2> QED
        BY <2>1, <2>2
<1>3. ~(CheckSchedule \/ \E i \in Manual : BackupNow(i))
    <2>1. ASSUME NEW i \in Jobs, NEW p, Begins(i, p)
          PROVE  FALSE
        BY <1>1, <2>1, Basics DEF Begins, Placed, BeforeRow
    <2> QED
        BY <2>1, BeginsRun
<1>4. ~CleanupStep /\ ~Tick /\ ~PageStep
    BY PageStepLeaves DEF CleanupStep, DropRows, DeleteObject, CleanupEnds, LoopEnds, Tick,
                          memVars
<1>5. ~(Crash \/ Exit)
    BY TypeParts, BackupAssumption DEF TInv, Shape, Crash, Exit, Reboot
<1>6. job[j].pc \in {"ready", "report"}
    BY <1>2, <1>3, <1>4, <1>5, NextCases
<1> QED
    BY <1>1, <1>6 DEF Own

LEMMA InitAges ==
    ASSUME Init
    PROVE  AInv
<1>1. \A j \in Jobs : job[j].pc = "idle" /\ job[j].key = 0
    BY DEF Init, IdleJob
<1>2. doomed.keys = {}
    BY DEF Init, NothingDoomed
<1> QED
    BY <1>1, <1>2 DEF AInv

LEMMA InitRows ==
    ASSUME Init
    PROVE  RInv
<1>1. \A j \in Jobs : job[j].id = 0
    BY DEF Init, IdleJob
<1> QED
    BY <1>1 DEF RInv, Apart, Own

(* Every run that returns has settled its row, however runs, failures,     *)
(* clean-ups and changes of settings interleave (runBackup).               *)
THEOREM RunsSettle == Spec => RunsAreSettled
<1>1. Init => TInv /\ AInv /\ RInv
    BY InitTypes, InitAges, InitRows
<1>2. TInv /\ AInv /\ RInv /\ [Next]_vars => TInv' /\ AInv' /\ RInv'
    BY NextTypes, AgesKept, RowsKept
<1>3. TInv /\ RInv /\ [Next]_vars =>
          \A j \in Jobs :
              job[j].id # 0 /\ job'[j].id = 0 /\ restarts' = restarts
                  /\ file = "sound" /\ admin.pc # "exit" =>
                      Settled(job[j].id) \/ job[j].missed
    BY RunSettles
<1> QED
    BY <1>1, <1>2, <1>3, PTL DEF Spec, RunsAreSettled

-----------------------------------------------------------------------------
(* Databases.  What holds of the file must hold of all that may be         *)
(* restored: the copies that runs carry, the objects in S3 and the one a   *)
(* restore has fetched.                                                    *)

Held(d) ==
    \/ d = db \/ d = admin.object.db
    \/ \E j \in Jobs : d = job[j].copy
    \/ \E b \in Buckets : \E k \in DOMAIN store[b] : d = store[b][k].db

(* No row is above the last id, and young completed rows are in S3. *)
Sound(d) ==
    /\ d \in Databases
    /\ \A i \in DOMAIN d.rows : i <= d.last
    /\ "overlap" \notin faults =>
          \A i \in DOMAIN d.rows :
              d.rows[i].status = "completed" /\ now - d.rows[i].key <= Retention =>
                  \E b \in Buckets : d.rows[i].key \in DOMAIN store[b]

DInv == \A d : Held(d) => Sound(d)

LEMMA RowTypes ==
    ASSUME NEW d \in Databases
    PROVE  /\ DOMAIN d.rows \subseteq Ids /\ Ids \subseteq Int /\ d.last \in Nat
           /\ \A i \in DOMAIN d.rows : /\ DOMAIN d.rows[i] = {"key", "created", "status"}
                                       /\ d.rows[i].key \in Times /\ d.rows[i].key \in Int
<1>1. d.rows \in Tables /\ d.last \in Nat
    BY DatabaseFacts, BackupAssumption
<1>2. Ids \subseteq Int /\ Times \subseteq Int
    BY BackupAssumption DEF Ids, Times
<1>3. DOMAIN d.rows \subseteq Ids /\ \A i \in DOMAIN d.rows : d.rows[i] \in Rows
    BY <1>1, TableFacts
<1> QED
    BY <1>1, <1>2, <1>3 DEF Rows

LEMMA NoDatabaseIsSound ==
    Sound(NoDatabase) /\ NoDatabase.rows = NoRows
BY DatabaseFacts DEF Sound, NoDatabase, NoRows

LEMMA SoundPasses ==
    ASSUME TInv, TInv', NEW d, Sound(d), Passes
    PROVE  Sound(d)'
<1>1. now \in Int /\ now' \in Int /\ now' >= now /\ faults \subseteq faults'
    <2>1. now' \in Times /\ Times \subseteq Int
        BY Basics DEF TInv, Shape, TypeOK
    <2> QED
        BY <2>1, Basics DEF Passes
<1>2. ASSUME "overlap" \notin faults', NEW i \in DOMAIN d.rows, d.rows[i].status = "completed",
             now' - d.rows[i].key <= Retention
      PROVE  \E b \in Buckets : d.rows[i].key \in DOMAIN store'[b]
    <2>1. d.rows[i].key \in Int
        BY RowTypes DEF Sound
    <2>2. now - d.rows[i].key <= Retention
        BY <1>1, <1>2, <2>1, Basics
    <2>3. PICK b \in Buckets : d.rows[i].key \in DOMAIN store[b]
        BY <1>1, <1>2, <2>2 DEF Sound
    <2>4. ~(now' - d.rows[i].key > Retention)
        BY <1>1, <1>2, <2>1, Basics
    <2> QED
        BY <2>3, <2>4 DEF Passes
<1> QED
    BY <1>2 DEF Sound

(* Where a database can come from: it was held, or is the file's new one. *)
LEMMA HeldStep ==
    ASSUME TInv, TInv', AInv, [Next]_vars, NEW d, Held(d)'
    PROVE  Held(d) \/ d = NoDatabase \/ d = db'
<1>1. CASE d = db'
    BY <1>1
<1>2. CASE d = admin'.object.db
    <2>1. CASE UNCHANGED admin \/ admin'.object = admin.object \/ admin' = NoRequest
        BY <1>2, <2>1 DEF Held, NoRequest
    <2>2. ASSUME NEW i \in Ids, Fetch(i)
          PROVE  Held(d)
        <3>1. /\ admin'.object = store[bucket][db.rows[i].key]
              /\ bucket \in Buckets /\ db.rows[i].key \in DOMAIN store[bucket]
            BY <2>2, Basics, TypeParts DEF Fetch, NoRequest, TInv, Shape
        <3> QED
            BY <1>2, <3>1 DEF Held
    <2>3. ASSUME NEW b, SaveS3(b)
          PROVE  d = NoDatabase
        BY <1>2, <2>3 DEF SaveS3, NoRequest
    <2>4. ASSUME NEW p, SavePassphrase(p)
          PROVE  d = NoDatabase
        BY <1>2, <2>4 DEF SavePassphrase, NoRequest
    <2>5. ASSUME NEW j \in Jobs, JobStep(j)
          PROVE  UNCHANGED admin
        BY <2>5
           DEF JobStep, BeginRun, MarkRunning, CreateRow, ClaimRow, Checkpoint, CopyDatabase,
               Upload, Finish, MarkFailed, Report
    <2>6. CASE BeginReplace \/ EndReplace
        BY <1>2, <2>1, <2>6, Basics DEF BeginReplace, EndReplace
    <2>7. CASE UpdateS3Config \/ CacheKey \/ FailReplace \/ Crash \/ Exit
        BY <2>1, <2>7, RebootLeaves DEF UpdateS3Config, CacheKey, FailReplace
    <2>8. CASE \/ CheckSchedule \/ CleanupStep \/ \E j \in Manual : BackupNow(j)
               \/ BackupCancel \/ Stop \/ Tick \/ UNCHANGED vars
        BY <2>1, <2>8
           DEF CheckSchedule, CleanupStep, DropRows, DeleteObject, CleanupEnds, LoopEnds,
               BackupNow, BackupCancel, Stop, Tick, vars, memVars
    <2> QED
        BY <2>1, <2>2, <2>3, <2>4, <2>5, <2>6, <2>7, <2>8, NextCases DEF PageStep
<1>3. ASSUME NEW j \in Jobs, d = job'[j].copy
      PROVE  Held(d) \/ d = NoDatabase \/ d = db'
    <2>1. CASE UNCHANGED job \/ job' = [i \in Jobs |-> IdleJob]
        BY <1>3, <2>1 DEF Held, IdleJob
    <2>2. ASSUME NEW i \in Jobs, NEW p, Begins(i, p)
          PROVE  job'[j].copy = job[j].copy
        BY <2>2, Basics DEF Begins
    <2>3. ASSUME NEW i \in Jobs, JobStep(i)
          PROVE  job'[j].copy \in {job[j].copy, NoDatabase, db}
        BY <2>3, Basics
           DEF JobStep, BeginRun, MarkRunning, CreateRow, ClaimRow, Checkpoint, CopyDatabase,
               Upload, Finish, MarkFailed, Report, Goto, Return, Fail, IdleJob
    <2>4. CASE CleanupStep \/ Tick
        BY <2>1, <2>4
           DEF CleanupStep, DropRows, DeleteObject, CleanupEnds, LoopEnds, Tick, memVars
    <2>5. CASE PageStep \/ Crash \/ Exit
        BY <2>1, <2>5, PageStepLeaves, RebootLeaves
    <2> QED
        BY <1>3, <2>2, <2>3, <2>4, <2>5, NextCases, BeginsRun DEF Held
<1>4. ASSUME NEW b \in Buckets, NEW k \in DOMAIN store'[b], d = store'[b][k].db
      PROVE  Held(d)
    <2>1. CASE UNCHANGED store
        BY <1>4, <2>1 DEF Held
    <2>2. ASSUME NEW j \in Jobs, Put(j)
          PROVE  Held(d)
        BY <1>4, <2>2, Basics DEF Put, With, Held
    <2>3. ASSUME NEW j \in Jobs, JobStep(j)
          PROVE  UNCHANGED store \/ Put(j)
        BY <2>3
           DEF JobStep, BeginRun, MarkRunning, CreateRow, ClaimRow, Checkpoint, CopyDatabase,
               Upload, Finish, MarkFailed, Report
    <2>4. ASSUME NEW l \in Times, DeleteObject(l)
          PROVE  Held(d)
        <3>1. k \in DOMAIN store[b] /\ store'[b][k] = store[b][k]
            BY <1>4, <2>4, Basics DEF DeleteObject, Without
        <3> QED
            BY <1>4, <3>1 DEF Held
    <2>5. CASE DropRows \/ CleanupEnds \/ LoopEnds \/ Tick
        BY <2>1, <2>5 DEF DropRows, CleanupEnds, LoopEnds, Tick
    <2>6. ASSUME NEW i \in Jobs, NEW p, Begins(i, p)
          PROVE  UNCHANGED store
        BY <2>6 DEF Begins
    <2>7. CASE PageStep \/ Crash \/ Exit
        BY <2>1, <2>7, PageStepLeaves, RebootLeaves
    <2> QED
        BY <2>1, <2>2, <2>3, <2>4, <2>5, <2>6, <2>7, NextCases, BeginsRun DEF CleanupStep
<1> QED
    BY <1>1, <1>2, <1>3, <1>4 DEF Held

(* A database with the rows of a sound one, or fewer. *)
LEMMA SoundRows ==
    ASSUME TInv, NEW d, NEW e \in Databases, Sound(d), e.last = d.last,
           DOMAIN e.rows \subseteq DOMAIN d.rows,
           \A i \in DOMAIN e.rows : e.rows[i] = d.rows[i]
    PROVE  Sound(e)
BY DEF Sound

(* The file after a step is sound before time has passed. *)
SoundAfter(d) ==
    /\ d \in Databases
    /\ \A i \in DOMAIN d.rows : i <= d.last
    /\ "overlap" \notin faults' =>
          \A i \in DOMAIN d.rows :
              d.rows[i].status = "completed" /\ now' - d.rows[i].key <= Retention =>
                  \E b \in Buckets : d.rows[i].key \in DOMAIN store'[b]

LEMMA SoundRowWritten ==
    ASSUME TInv, TInv', AInv, RInv, Sound(db), Passes, NEW j \in Jobs, NEW s,
           WriteRow(job[j].id, s), job[j].id \in Ids, UNCHANGED <<admin, now, store>>,
           s # "completed" \/ job[j].pc = "finish"
    PROVE  SoundAfter(db')
<1>0. db' \in Databases
    BY Basics DEF TInv, Shape, TypeOK
<1>1. CASE file # "sound"
    <2>1. db' = db
        BY <1>1 DEF WriteRow, Write
    <2> QED
        BY <1>0, <2>1, SoundPasses DEF Sound, SoundAfter
<1>2. CASE file = "sound"
    <2>1. \A i \in DOMAIN db'.rows : i <= db'.last
        BY <1>2, RowWritten DEF Sound
    <2>2. ASSUME "overlap" \notin faults', NEW i \in DOMAIN db'.rows,
                 db'.rows[i].status = "completed", now' - db'.rows[i].key <= Retention
          PROVE  \E b \in Buckets : db'.rows[i].key \in DOMAIN store'[b]
        <3>1. CASE db.rows[i].status = "completed"
            BY <1>2, <2>2, <3>1, RowWritten DEF Sound, Passes
        <3>2. CASE db.rows[i].status # "completed"
            <4>1. i = job[j].id /\ s = "completed" /\ i \in DOMAIN db.rows
                BY <1>2, <2>2, <3>2, RowWritten
            <4>2. admin.pc # "exit"
                BY <2>2 DEF WriteRow, Write
            <4>3. db.rows[i].key = job[j].key /\ job[j].id # 0
                BY <1>2, <4>1, <4>2, BackupAssumption DEF RInv, Steady, Own, Ids
            <4>4. job[j].key \in DOMAIN store[job[j].to] /\ job[j].to \in Buckets
                BY <4>1 DEF AInv
            <4> QED
                BY <1>2, <4>1, <4>3, <4>4, RowWritten
        <3> QED
            BY <3>1, <3>2
    <2> QED
        BY <1>0, <2>1, <2>2 DEF SoundAfter
<1> QED
    BY <1>1, <1>2

LEMMA SoundDb ==
    ASSUME TInv, TInv', AInv, RInv, DInv, Passes, [Next]_vars
    PROVE  Sound(db)'
<1>0. Sound(db) /\ Sound(admin.object.db) /\ db' \in Databases
    BY Basics DEF DInv, Held, TInv, Shape, TypeOK
<1>1. SoundAfter(db') => Sound(db)'
    BY DEF SoundAfter, Sound
<1>2. ASSUME NEW d, d = db', Sound(d)
      PROVE  Sound(db)'
    <2>1. SoundAfter(d)
        BY <1>2, SoundPasses DEF Sound, SoundAfter
    <2> QED
        BY <1>1, <1>2, <2>1
<1>3. CASE UNCHANGED db
    BY <1>0, <1>2, <1>3
<1>4. ASSUME NEW e, e = db', e.last = db.last, DOMAIN e.rows \subseteq DOMAIN db.rows,
             \A i \in DOMAIN e.rows : e.rows[i] = db.rows[i]
      PROVE  Sound(db)'
    BY <1>0, <1>2, <1>4, SoundRows
<1>5. ASSUME NEW j \in Jobs, JobStep(j)
      PROVE  Sound(db)'
    <2>1. CASE CreateRow(j) /\ job'[j].pc = "claim"
        <3>1. UNCHANGED <<now, store>> /\ db.last \in Nat
            BY <2>1, RowTypes, Basics DEF CreateRow
        <3>2. faults \subseteq faults'
            BY DEF Passes
        <3>3. \A i \in DOMAIN db'.rows : i <= db'.last
            BY <1>0, <2>1, <3>1, RowAdded, Basics DEF Sound, Added
        <3>4. ASSUME NEW i \in DOMAIN db'.rows, db'.rows[i].status = "completed"
              PROVE  i \in DOMAIN db.rows /\ db'.rows[i] = db.rows[i]
            BY <2>1, <3>4, RowAdded DEF Added
        <3>5. SoundAfter(db')
            BY <1>0, <3>1, <3>2, <3>3, <3>4 DEF Sound, SoundAfter
        <3> QED
            BY <1>1, <3>5
    <2>2. CASE ClaimRow(j) \/ Finish(j) \/ MarkFailed(j)
        <3>1. CASE Miss
            BY <1>3, <3>1, MissLeaves
        <3>2. CASE ~Miss
            <4>1. PICK s : /\ WriteRow(job[j].id, s) /\ UNCHANGED <<admin, now, store>>
                           /\ s # "completed" \/ job[j].pc = "finish"
                BY <2>2, <3>2 DEF ClaimRow, Finish, MarkFailed
            <4>2. job[j].id \in Ids
                BY <2>2 DEF ClaimRow, Finish, MarkFailed, TInv, Shape, Placed, WithRow
            <4> QED
                BY <1>0, <1>1, <4>1, <4>2, SoundRowWritten
        <3> QED
            BY <3>1, <3>2
    <2>3. CASE BeginRun(j) \/ MarkRunning(j) \/ Checkpoint(j) \/ CopyDatabase(j) \/ Upload(j)
               \/ Report(j)
        BY <1>3, <2>3 DEF BeginRun, MarkRunning, Checkpoint, CopyDatabase, Upload, Report
    <2>4. CASE CreateRow(j) /\ job'[j].pc # "claim"
        <3>1. Miss
            BY <2>4, Basics DEF CreateRow
        <3> QED
            BY <1>3, <3>1, MissLeaves
    <2> QED
        BY <1>5, <2>1, <2>2, <2>3, <2>4 DEF JobStep
<1>6. CASE DropRows
    BY <1>4, <1>6, RowsDropped
<1>7. ASSUME NEW b, SaveS3(b)
      PROVE  Sound(db)'
    BY <1>4, <1>7, Basics DEF SaveS3
<1>8. ASSUME NEW p, SavePassphrase(p)
      PROVE  Sound(db)'
    <2>1. CASE Miss
        BY <1>3, <2>1, MissLeaves
    <2>2. CASE Write([db EXCEPT !.pass = p])
        BY <1>4, <2>2, Basics DEF Write
    <2> QED
        BY <1>8, <2>1, <2>2 DEF SavePassphrase
<1>9. CASE EndReplace
    BY <1>0, <1>2, <1>3, <1>9 DEF EndReplace
<1>10. ASSUME NEW j \in Jobs, NEW p, Begins(j, p)
       PROVE  UNCHANGED db
    BY <1>10 DEF Begins
<1>11. CASE CleanupEnds \/ LoopEnds \/ Tick \/ \E k \in Times : DeleteObject(k)
    BY <1>3, <1>11 DEF CleanupEnds, LoopEnds, Tick, DeleteObject
<1>12. CASE Crash \/ Exit
    BY <1>3, <1>12, RebootLeaves
<1>13. CASE \/ UpdateS3Config \/ CacheKey \/ BeginReplace \/ FailReplace
            \/ BackupCancel \/ Stop \/ UNCHANGED vars \/ \E i \in Ids : Fetch(i)
    BY <1>3, <1>13
       DEF UpdateS3Config, CacheKey, BeginReplace, FailReplace, BackupCancel, Stop, vars, Fetch
<1> QED
    BY <1>3, <1>5, <1>6, <1>7, <1>8, <1>9, <1>10, <1>11, <1>12, <1>13, NextCases, BeginsRun
       DEF PageStep, CleanupStep

LEMMA DatabasesKept ==
    ASSUME TInv, TInv', AInv, RInv, DInv, Passes, [Next]_vars
    PROVE  DInv'
<1>1. ASSUME NEW d, Held(d)'
      PROVE  Sound(d)'
    <2>1. CASE Held(d)
        BY <2>1, SoundPasses DEF DInv
    <2>2. CASE d = NoDatabase
        BY <2>2, NoDatabaseIsSound, SoundPasses
    <2>3. CASE d = db'
        BY <2>3, SoundDb
    <2> QED
        BY <1>1, <2>1, <2>2, <2>3, HeldStep
<1> QED
    BY <1>1 DEF DInv

LEMMA InitDatabases ==
    ASSUME Init
    PROVE  DInv
<1>1. ASSUME NEW d, Held(d)
      PROVE  d \in Databases /\ d.rows = NoRows
    <2>1. db \in Databases /\ db.rows = NoRows
        BY DatabaseFacts, BackupAssumption DEF Init
    <2>2. \A b \in Buckets : DOMAIN store[b] = {}
        BY DEF Init, NoRows
    <2>3. admin.object.db = NoDatabase /\ \A j \in Jobs : job[j].copy = NoDatabase
        BY DEF Init, NoRequest, IdleJob
    <2> QED
        BY <1>1, <2>1, <2>2, <2>3, NoDatabaseIsSound, DatabaseFacts DEF Held
<1>2. ASSUME NEW d, Held(d)
      PROVE  Sound(d)
    BY <1>1, <1>2 DEF Sound, NoRows
<1> QED
    BY <1>2 DEF DInv

(* Whatever fails, crashes, is restored or reconfigured: a backup listed   *)
(* as completed and not yet past its retention is in S3, unless a restore  *)
(* was written over before the exit (runBackup, Cleanup, Restore).         *)
THEOREM YoungBackupsAreKept == Spec => []YoungBackupsAreStored
<1>1. Init => TInv /\ AInv /\ RInv /\ DInv
    BY InitTypes, InitAges, InitRows, InitDatabases
<1>2. TInv /\ AInv /\ RInv /\ DInv /\ [Next]_vars => TInv' /\ AInv' /\ RInv' /\ DInv'
    BY NextTypes, AgesKept, RowsKept, DatabasesKept
<1>3. DInv => YoungBackupsAreStored
    <2>1. Held(db)
        BY DEF Held
    <2> QED
        BY <2>1 DEF DInv, Sound, YoungBackupsAreStored
<1> QED
    BY <1>1, <1>2, <1>3, PTL DEF Spec

-----------------------------------------------------------------------------
(* Objects.  Until something leaks, there is one bucket that holds, or     *)
(* will hold, all of them, and what a run uploads has its row.             *)

HasRow(k) == \E i \in DOMAIN db.rows : db.rows[i].key = k

Tracked == \A b \in Buckets : \A k \in DOMAIN store[b] : HasRow(k) \/ k \in doomed.keys

Carried ==
    \A j \in Jobs : job[j].id # 0 =>
        job[j].id \in DOMAIN db.rows /\ db.rows[job[j].id].key = job[j].key

OneBucket ==
    /\ \A b \in Buckets : \A k \in DOMAIN store[b] : b = bucket
    /\ \A j \in Jobs : job[j].to \in {NoBucket, bucket}
    /\ doomed.keys # {} => doomed.from = bucket /\ bucket # NoBucket
    /\ db.bucket = bucket \/ bucket = NoBucket
    /\ admin.pc = "s3" => db.bucket = admin.to /\ bucket \in {NoBucket, admin.to}
    /\ admin.pc # "exit"

OInv == "leak" \notin faults => Tracked /\ Carried /\ OneBucket

(* What keeps the buckets keeps all, if no row is dropped or rewritten. *)
LEMMA SameRows ==
    ASSUME Tracked, Carried, UNCHANGED <<store, doomed, job>>,
           DOMAIN db'.rows = DOMAIN db.rows,
           \A i \in DOMAIN db.rows : db'.rows[i].key = db.rows[i].key
    PROVE  Tracked' /\ Carried'
BY DEF Tracked, Carried, HasRow

LEMMA JobStepObjects ==
    ASSUME TInv, TInv', AInv, DInv, OInv, NEW j \in Jobs, JobStep(j), "leak" \notin faults'
    PROVE  Tracked' /\ Carried' /\ OneBucket'
<1>0. /\ \A i \in Jobs \ {j} : job'[i] = job[i]
      /\ UNCHANGED <<doomed, bucket, admin>>
    BY Basics
       DEF JobStep, BeginRun, MarkRunning, CreateRow, ClaimRow, Checkpoint, CopyDatabase,
           Upload, Finish, MarkFailed, Report, Goto, Return, Fail
<1>1. faults \subseteq faults' /\ Tracked /\ Carried /\ OneBucket
    BY JobStepAges DEF Passes, OInv
<1>2. db'.bucket = db.bucket
    BY Basics, MissLeaves
       DEF JobStep, BeginRun, MarkRunning, CreateRow, ClaimRow, Checkpoint, CopyDatabase,
           Upload, Finish, MarkFailed, Report, WriteRow, Write
<1>3. job'[j].to \in {NoBucket, job[j].to, bucket}
    BY Basics
       DEF JobStep, BeginRun, MarkRunning, CreateRow, ClaimRow, Checkpoint, CopyDatabase,
           Upload, Finish, MarkFailed, Report, Goto, Return, Fail, IdleJob
<1>4. \A b \in Buckets : \A k \in DOMAIN store'[b] :
          k \in DOMAIN store[b] \/ (b = bucket /\ HasRow(k) /\ UNCHANGED db)
    <2>1. CASE UNCHANGED store
        BY <2>1
    <2>2. CASE Upload(j) /\ Put(j)
        <3>1. job[j].to \in Buckets /\ job[j].to = bucket
            BY <1>1, <2>2, Basics DEF Upload, AInv, OneBucket
        <3>2. job[j].id # 0
            BY <2>2, BackupAssumption DEF Upload, TInv, Shape, Placed, WithRow, Ids
        <3>3. HasRow(job[j].key)
            BY <1>1, <3>2 DEF Carried, HasRow
        <3> QED
            BY <2>2, <3>1, <3>3, Basics DEF Upload, Put, With
    <2> QED
        BY <2>1, <2>2
           DEF JobStep, BeginRun, MarkRunning, CreateRow, ClaimRow, Checkpoint, CopyDatabase,
               Upload, Finish, MarkFailed, Report
<1>5. OneBucket'
    BY <1>0, <1>1, <1>2, <1>3, <1>4 DEF OneBucket
<1>6. CASE CreateRow(j) /\ job'[j].pc = "claim"
    <2>1. \A i \in DOMAIN db.rows : i # db.last + 1
        <3>1. Sound(db)
            BY DEF DInv, Held
        <3> QED
            BY <3>1, Basics DEF Sound
    <2>2. UNCHANGED store
        BY <1>6 DEF CreateRow
    <2>3. Tracked'
        <3>1. ASSUME NEW k, HasRow(k)
              PROVE  HasRow(k)'
            BY <1>6, <2>1, <3>1, RowAdded DEF HasRow, Added
        <3> QED
            BY <1>0, <1>1, <2>2, <3>1 DEF Tracked
    <2>4. Carried'
        BY <1>0, <1>1, <1>6, <2>1, RowAdded, Basics DEF Carried, Added
    <2> QED
        BY <1>5, <2>3, <2>4
<1>7. CASE ~(CreateRow(j) /\ job'[j].pc = "claim")
    <2>1. /\ DOMAIN db'.rows = DOMAIN db.rows
          /\ \A i \in DOMAIN db.rows : db'.rows[i].key = db.rows[i].key
        <3>1. CASE UNCHANGED db
            BY <3>1
        <3>2. ASSUME NEW s, WriteRow(job[j].id, s), file = "sound"
              PROVE  /\ DOMAIN db'.rows = DOMAIN db.rows
                     /\ \A i \in DOMAIN db.rows : db'.rows[i].key = db.rows[i].key
            BY <3>2, RowWritten
        <3>3. CASE CreateRow(j)
            <4>1. Miss
                BY <1>7, <3>3, Basics DEF CreateRow
            <4> QED
                BY <3>1, <4>1, MissLeaves
        <3>4. CASE ClaimRow(j) \/ Finish(j) \/ MarkFailed(j)
            <4>1. Miss \/ UNCHANGED db \/ (file = "sound" /\ \E s : WriteRow(job[j].id, s))
                BY <3>4 DEF ClaimRow, Finish, MarkFailed, WriteRow, Write
            <4> QED
                BY <3>1, <3>2, <4>1, MissLeaves
        <3> QED
            BY <1>7, <3>1, <3>3, <3>4
               DEF JobStep, BeginRun, MarkRunning, Checkpoint, CopyDatabase, Upload, Report
    <2>2. job'[j].id = 0 \/ (job'[j].id = job[j].id /\ job'[j].key = job[j].key)
        BY <1>7, Basics
           DEF JobStep, BeginRun, MarkRunning, CreateRow, ClaimRow, Checkpoint, CopyDatabase,
               Upload, Finish, MarkFailed, Report, Goto, Return, Fail, IdleJob
    <2>3. Carried'
        BY <1>0, <1>1, <2>1, <2>2 DEF Carried
    <2>4. Tracked'
        <3>1. \A k : HasRow(k) => HasRow(k)'
            BY <2>1 DEF HasRow
        <3> QED
            BY <1>0, <1>1, <1>4, <3>1 DEF Tracked
    <2> QED
        BY <1>5, <2>3, <2>4
<1> QED
    BY <1>6, <1>7

LEMMA CleanupObjects ==
    ASSUME TInv, AInv, Tracked, Carried, OneBucket, CleanupStep, "leak" \notin faults'
    PROVE  Tracked' /\ Carried' /\ OneBucket'
<1>1. CASE DropRows
    <2>0. UNCHANGED <<store, job, bucket, admin>> /\ doomed.keys = {}
        BY <1>1 DEF DropRows, AInv
    <2>1. CASE UNCHANGED <<db, doomed>>
        BY <2>0, <2>1 DEF Tracked, Carried, OneBucket, HasRow
    <2>2. CASE ~UNCHANGED <<db, doomed>>
        <3>0. /\ bucket # NoBucket /\ file = "sound"
              /\ Write([db EXCEPT !.rows = Without(@, Expired)])
              /\ doomed' = [keys |-> {db.rows[i].key : i \in Expired}, from |-> bucket]
            BY <1>1, <2>2 DEF DropRows
        <3>1. /\ DOMAIN db'.rows = DOMAIN db.rows \ Expired
              /\ \A i \in DOMAIN db'.rows : db'.rows[i] = db.rows[i]
              /\ doomed'.keys = {db.rows[i].key : i \in Expired} /\ doomed'.from = bucket
            BY <3>0, Basics DEF Write, Without
        <3>2. \A k : HasRow(k) => HasRow(k)' \/ k \in doomed'.keys
            BY <3>1 DEF HasRow
        <3>3. Tracked'
            BY <2>0, <3>2 DEF Tracked
        <3>4. \A j \in Jobs : job[j].id # 0 => job[j].id \notin Expired
            <4>1. ASSUME NEW j \in Jobs, job[j].id # 0, job[j].id \in Expired
                  PROVE  FALSE
                <5>1. /\ job[j].id \in DOMAIN db.rows
                      /\ db.rows[job[j].id].key = job[j].key
                      /\ now - db.rows[job[j].id].created > Retention
                    BY <4>1 DEF Carried, Expired
                <5>2. job[j].key # 0 /\ now - job[j].key <= Retention
                    BY <5>1, Basics DEF AInv
                <5> QED
                    BY <5>1, <5>2, Basics
            <4> QED
                BY <4>1
        <3>5. Carried'
            BY <2>0, <3>1, <3>4 DEF Carried
        <3>6. OneBucket'
            BY <1>1, <2>0, <3>0, <3>1, RowsDropped DEF OneBucket
        <3> QED
            BY <3>3, <3>5, <3>6
    <2> QED
        BY <1>1, <2>1, <2>2 DEF DropRows
<1>2. ASSUME NEW k \in Times, DeleteObject(k)
      PROVE  Tracked' /\ Carried' /\ OneBucket'
    <2>1. /\ UNCHANGED <<db, bucket, job, admin>>
          /\ doomed'.keys = doomed.keys \ {k} /\ doomed'.from = doomed.from
          /\ k \in doomed.keys
          /\ store' = [store EXCEPT ![doomed.from] = Without(@, {k})]
        BY <1>2, TypeParts DEF DeleteObject, TInv, Shape
    <2>2. \A b \in Buckets : \A l \in DOMAIN store'[b] : l \in DOMAIN store[b]
        BY <2>1, Basics DEF Without
    <2>3. \A b \in Buckets : \A l \in DOMAIN store'[b] : l # k
        <3>1. ASSUME NEW b \in Buckets, k \in DOMAIN store'[b]
              PROVE  FALSE
            <4>1. b = doomed.from
                BY <2>1, <2>2, <3>1 DEF OneBucket
            <4> QED
                BY <2>1, <3>1, <4>1, Basics DEF Without
        <3> QED
            BY <3>1
    <2>4. Tracked'
        BY <2>1, <2>2, <2>3 DEF Tracked, HasRow
    <2>5. Carried' /\ OneBucket'
        BY <2>1, <2>2 DEF Carried, OneBucket
    <2> QED
        BY <2>4, <2>5
<1>3. CASE CleanupEnds \/ LoopEnds
    <2>1. UNCHANGED <<db, store, job, bucket, admin>> /\ doomed'.keys = doomed.keys
          /\ (doomed.keys # {} => doomed' = doomed)
        BY <1>3, IdleTypes DEF CleanupEnds, LoopEnds
    <2> QED
        BY <2>1 DEF Tracked, Carried, OneBucket, HasRow
<1> QED
    BY <1>1, <1>2, <1>3 DEF CleanupStep

LEMMA PageObjects ==
    ASSUME TInv, Tracked, Carried, OneBucket, PageStep, "leak" \notin faults'
    PROVE  Tracked' /\ Carried' /\ OneBucket'
<1>0. UNCHANGED <<store, job, doomed>>
    BY PageStepLeaves
<1>1. ~EndReplace
    BY DEF EndReplace
<1>2. db'.rows = db.rows
    BY <1>1, Basics
       DEF PageStep, SaveS3, SavePassphrase, Miss, Write, UpdateS3Config, CacheKey, Fetch,
           BeginReplace, FailReplace, BackupCancel, Stop, vars
<1>3. Tracked' /\ Carried'
    BY <1>0, <1>2, SameRows
<1>4. ASSUME NEW b \in Buckets \cup {NoBucket}, SaveS3(b)
      PROVE  OneBucket'
    <2>1. bucket \in {NoBucket, b} /\ UNCHANGED bucket
        BY <1>4 DEF SaveS3
    <2>2. db'.bucket = b /\ admin'.pc = "s3" /\ admin'.to = b
        BY <1>4, Basics DEF SaveS3, NoRequest
    <2> QED
        BY <1>0, <2>1, <2>2 DEF OneBucket
<1>5. CASE UpdateS3Config
    <2>1. bucket' = admin.to /\ UNCHANGED db /\ admin.pc = "s3" /\ admin'.pc = "idle"
        BY <1>5, IdleTypes DEF UpdateS3Config
    <2>2. \A b \in Buckets : b # NoBucket
        BY Basics
    <2>3. CASE bucket = NoBucket
        <3>1. \A b \in Buckets : \A k \in DOMAIN store'[b] : FALSE
            BY <1>0, <2>2, <2>3 DEF OneBucket
        <3>2. (\A j \in Jobs : job'[j].to = NoBucket) /\ doomed'.keys = {}
            BY <1>0, <2>3 DEF OneBucket
        <3>3. db.bucket = admin.to
            BY <2>1 DEF OneBucket
        <3> QED
            BY <1>3, <2>1, <3>1, <3>2, <3>3 DEF OneBucket
    <2>4. CASE bucket # NoBucket
        <3>1. bucket' = bucket
            BY <2>1, <2>4 DEF OneBucket
        <3> QED
            BY <1>0, <1>3, <2>1, <3>1 DEF OneBucket
    <2> QED
        BY <2>3, <2>4
<1>6. ASSUME NEW p \in Passphrases, SavePassphrase(p)
      PROVE  OneBucket'
    <2>1. db'.bucket = db.bucket /\ UNCHANGED bucket /\ admin'.pc = "pass"
        BY <1>6, Basics DEF SavePassphrase, Miss, Write, NoRequest
    <2> QED
        BY <1>0, <2>1 DEF OneBucket
<1>7. CASE \/ CacheKey \/ (\E i \in Ids : Fetch(i)) \/ BeginReplace \/ FailReplace
           \/ BackupCancel \/ Stop \/ UNCHANGED vars
    <2>1. UNCHANGED <<db, bucket>>
        BY <1>7
           DEF CacheKey, Fetch, BeginReplace, FailReplace, BackupCancel, Stop, vars, memVars
    <2>2. UNCHANGED admin \/ admin'.pc \in {"idle", "replace", "replacing"}
        <3>1. CASE CacheKey \/ FailReplace
            BY <3>1, IdleTypes DEF CacheKey, FailReplace
        <3>2. CASE \E i \in Ids : Fetch(i)
            BY <3>2 DEF Fetch, NoRequest
        <3>3. CASE BeginReplace
            BY <3>3, Basics DEF BeginReplace
        <3>4. CASE BackupCancel \/ Stop \/ UNCHANGED vars
            BY <3>4 DEF BackupCancel, Stop, vars, memVars
        <3> QED
            BY <1>7, <3>1, <3>2, <3>3, <3>4
    <2>3. UNCHANGED admin \/ admin'.pc \notin {"s3", "exit"}
        BY <2>2
    <2> QED
        BY <1>0, <1>3, <2>1, <2>3 DEF OneBucket
<1> QED
    BY <1>1, <1>3, <1>4, <1>5, <1>6, <1>7 DEF PageStep

LEMMA ObjectsKept ==
    ASSUME TInv, TInv', AInv, DInv, OInv, Passes, [Next]_vars
    PROVE  OInv'
<1> SUFFICES ASSUME "leak" \notin faults'
             PROVE  Tracked' /\ Carried' /\ OneBucket'
    BY DEF OInv
<1>0. Tracked /\ Carried /\ OneBucket
    BY DEF OInv, Passes
<1>1. ASSUME NEW j \in Jobs, JobStep(j)
      PROVE  Tracked' /\ Carried' /\ OneBucket'
    BY <1>1, JobStepObjects
<1>2. CASE CheckSchedule \/ \E j \in Manual : BackupNow(j)
    <2>1. PICK j, p : j \in Jobs /\ Begins(j, p)
        BY <1>2, BeginsRun
    <2>2. /\ \A i \in Jobs : job'[i].id = job[i].id /\ job'[i].key = job[i].key
                             /\ job'[i].to = job[i].to
          /\ UNCHANGED <<db, store, bucket, doomed, admin>>
        BY <2>1, Basics DEF Begins
    <2> QED
        BY <1>0, <2>2 DEF Tracked, Carried, OneBucket, HasRow
<1>3. CASE CleanupStep
    BY <1>0, <1>3, CleanupObjects
<1>4. CASE PageStep
    BY <1>0, <1>4, PageObjects
<1>5. CASE Crash \/ Exit
    <2>1. /\ UNCHANGED <<db, store>> /\ job' = [j \in Jobs |-> IdleJob]
          /\ doomed' = NothingDoomed /\ admin' = NoRequest
        BY <1>5, RebootLeaves
    <2>2. doomed.keys = {} /\ (bucket' = db.bucket \/ bucket' = bucket)
        BY <1>5 DEF Crash, Exit, Reboot, Booted
    <2>3. Tracked' /\ Carried'
        BY <1>0, <2>1, <2>2 DEF Tracked, Carried, HasRow, IdleJob
    <2>4. OneBucket'
        BY <1>0, <2>1, <2>2, IdleTypes, Basics DEF OneBucket, IdleJob
    <2> QED
        BY <2>3, <2>4
<1>6. CASE Tick
    BY <1>0, <1>6 DEF Tick, memVars, Tracked, Carried, OneBucket, HasRow
<1> QED
    BY <1>1, <1>2, <1>3, <1>4, <1>5, <1>6, NextCases

LEMMA InitObjects ==
    ASSUME Init
    PROVE  OInv
<1>1. \A b \in Buckets : DOMAIN store[b] = {}
    BY DEF Init, NoRows
<1>2. \A j \in Jobs : job[j].id = 0 /\ job[j].to = NoBucket
    BY DEF Init, IdleJob
<1>3. doomed.keys = {} /\ admin.pc = "idle" /\ bucket = db.bucket
    BY IdleTypes DEF Init
<1> QED
    BY <1>1, <1>2, <1>3 DEF OInv, Tracked, Carried, OneBucket

(* Every object has its row or waits for deletion, unless a deletion was   *)
(* lost, the bucket was changed or the rows replaced: for any number of    *)
(* runs and crashes, nothing else leaks (runBackup, Cleanup, Restore).     *)
THEOREM ObjectsHaveRows == Spec => []NoOrphans
<1>1. Init => TInv /\ AInv /\ RInv /\ DInv /\ OInv
    BY InitTypes, InitAges, InitRows, InitDatabases, InitObjects
<1>2. TInv /\ AInv /\ RInv /\ DInv /\ OInv /\ [Next]_vars =>
          TInv' /\ AInv' /\ RInv' /\ DInv' /\ OInv'
    BY NextTypes, AgesKept, RowsKept, DatabasesKept, ObjectsKept
<1>3. OInv => NoOrphans
    BY DEF OInv, Tracked, HasRow, NoOrphans
<1> QED
    BY <1>1, <1>2, <1>3, PTL DEF Spec
=============================================================================
