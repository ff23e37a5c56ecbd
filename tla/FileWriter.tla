----------------------------- MODULE FileWriter -----------------------------
(***************************************************************************)
(* The rotating log file of internal/output/output.go with the background  *)
(* compression of internal/output/compression.go.  Write, Sync and Close   *)
(* run one at a time under w.mu; every system call of a Write is a step,   *)
(* so the compression goroutines and a crash of the process interleave     *)
(* with it.  The directory maps names to inodes: a rename replaces what it *)
(* finds, and a file that was opened stays readable when its name is gone. *)
(* The bytes of a file are abstracted to the records it holds; the gzip    *)
(* encoding is transparent.  Files survive a crash of the process.         *)
(***************************************************************************)
EXTENDS Integers, FiniteSets, Sequences

CONSTANTS
    Records,        \* what callers write, each by one Write
    Big,            \* the records larger than MaxSize
    MaxSize,        \* FileConfig.MaxSize
    Compress,       \* FileConfig.Compress
    DeleteOriginal, \* CompressionConfig.DeleteOriginal
    MaxTime,        \* bound: seconds the clock counts
    MaxFaults,      \* bound: system calls that fail
    MaxCrashes,     \* bound: crashes of the process
    None

ASSUME ConfigAssumption ==
    /\ Big \subseteq Records
    /\ {MaxSize, MaxTime, MaxFaults, MaxCrashes} \subseteq Nat
    /\ MaxTime > 0
    /\ {Compress, DeleteOriginal} \subseteq BOOLEAN
    /\ None \notin Nat \cup Records

Size(r) == IF r \in Big THEN MaxSize + 1 ELSE 2
TornSize == 1  \* what a failing write leaves behind, when it leaves anything

Log == <<"log", 0>>
Backup(t) == <<"backup", t>>  \* path.<second>
Gz(t) == <<"gz", t>>          \* path.<second><Extension>; no Extension is left empty
Seconds == 1 .. MaxTime
Names == {Log} \cup {Backup(t) : t \in Seconds} \cup {Gz(t) : t \in Seconds}

VARIABLES
    up,       \* the process runs and the writer exists
    dir,      \* the directory: name -> inode, or None
    data,     \* the records in each inode
    bytes,    \* the real size of the file named Log
    file,     \* w.file: an inode, or None once closed
    fileOpen, \* the descriptor behind w.file is open
    size,     \* w.size
    stage,    \* what the holder of w.mu does next
    rec,      \* the record being written, or None
    accepted, \* history: records whose Write returned no error, in order
    pending,  \* records not yet given to Write
    jobs,     \* compression goroutines: second, stage, source inode, gz inode
    synced,   \* how the last Sync ended
    now,      \* the clock, in seconds
    rotated,  \* history: the second of the last rotation
    collided, \* history: two rotations have shared a second
    torn,     \* history: a write has failed half way
    faults,   \* failures that may still happen
    crashes   \* crashes that may still happen

fsVars == <<dir, data, bytes>>
handleVars == <<file, fileOpen, size>>
callVars == <<stage, rec, accepted, pending>>
historyVars == <<rotated, collided, torn>>
envVars == <<now, historyVars, faults, crashes>>
vars == <<up, fsVars, handleVars, callVars, jobs, synced, envVars>>

Init ==
    /\ up = TRUE
    /\ dir = [n \in Names |-> IF n = Log THEN 1 ELSE None]
    /\ data = << <<>> >>
    /\ bytes = 0
    /\ file = 1 /\ fileOpen = TRUE /\ size = 0
    /\ stage = "idle" /\ rec = None
    /\ accepted = <<>> /\ pending = Records
    /\ jobs = <<>>
    /\ synced = "none"
    /\ now = 1 /\ rotated = 0
    /\ collided = FALSE /\ torn = FALSE
    /\ faults = MaxFaults /\ crashes = MaxCrashes

Fault == faults > 0 /\ faults' = faults - 1
NoFault == UNCHANGED faults

-----------------------------------------------------------------------------
(* Write. *)

\* The call ends with an error; w.file and w.size stay as they are.
Fail ==
    /\ stage' = "idle"
    /\ rec' = None
    /\ UNCHANGED accepted

\* Mutant: rotates only when the file is already too large.
NeedsRotation_Late(r) == size > MaxSize

NeedsRotation(r) == size + Size(r) > MaxSize

\* The first step of Write: append to the open file, or start rotate() by
\* closing it.  Closing fails if the file is not open any more.
WriteBegin(r) ==
    /\ up /\ stage = "idle" /\ r \in pending
    /\ pending' = pending \ {r}
    /\ IF ~NeedsRotation(r)
       THEN /\ stage' = "append" /\ rec' = r
            /\ NoFault /\ UNCHANGED <<accepted, fileOpen>>
       ELSE \/ /\ fileOpen
               /\ fileOpen' = FALSE
               /\ stage' = "rename" /\ rec' = r
               /\ NoFault /\ UNCHANGED accepted
            \/ /\ ~fileOpen
               /\ Fail
               /\ NoFault /\ UNCHANGED fileOpen
            \/ /\ fileOpen
               /\ Fault /\ fileOpen' = FALSE
               /\ Fail
    /\ UNCHANGED <<up, fsVars, file, size, jobs, synced, now, historyVars, crashes>>

\* rotate(): os.Rename to a name made of the current second, and the start of
\* the compression goroutine.
Rename ==
    /\ up /\ stage = "rename"
    /\ \/ /\ dir' = [dir EXCEPT ![Backup(now)] = dir[Log], ![Log] = None]
          /\ jobs' = IF Compress
                     THEN Append(jobs, [second |-> now, stage |-> "open", source |-> None, gz |-> None])
                     ELSE jobs
          /\ stage' = "create"
          /\ rotated' = now /\ collided' = (collided \/ rotated = now)
          /\ NoFault /\ UNCHANGED <<rec, accepted>>
       \/ Fault /\ Fail /\ UNCHANGED <<dir, jobs, rotated, collided>>
    /\ UNCHANGED <<up, data, bytes, handleVars, pending, synced, now, torn, crashes>>

\* Mutant: the new file inherits the size of the old one.
Create_KeepsSize ==
    /\ up /\ stage = "create"
    /\ \/ /\ data' = Append(data, <<>>)
          /\ dir' = [dir EXCEPT ![Log] = Len(data) + 1]
          /\ bytes' = 0
          /\ file' = Len(data) + 1 /\ fileOpen' = TRUE /\ UNCHANGED size
          /\ stage' = "append"
          /\ NoFault /\ UNCHANGED <<rec, accepted>>
       \/ Fault /\ Fail /\ UNCHANGED <<fsVars, handleVars>>
    /\ UNCHANGED <<up, pending, jobs, synced, now, historyVars, crashes>>

\* rotate(): the new log file.  A failure leaves the closed file in w.file.
Create ==
    /\ up /\ stage = "create"
    /\ \/ /\ data' = Append(data, <<>>)
          /\ dir' = [dir EXCEPT ![Log] = Len(data) + 1]
          /\ bytes' = 0
          /\ file' = Len(data) + 1 /\ fileOpen' = TRUE /\ size' = 0
          /\ stage' = "append"
          /\ NoFault /\ UNCHANGED <<rec, accepted>>
       \/ Fault /\ Fail /\ UNCHANGED <<fsVars, handleVars>>
    /\ UNCHANGED <<up, pending, jobs, synced, now, historyVars, crashes>>

\* file.Write.  A failing write may leave part of the record in the file, and
\* w.size does not count it.
AppendRecord ==
    /\ up /\ stage = "append"
    /\ \/ /\ fileOpen
          /\ data' = [data EXCEPT ![file] = Append(@, rec)]
          /\ bytes' = bytes + Size(rec)
          /\ stage' = "return"
          /\ NoFault /\ UNCHANGED <<rec, accepted, torn>>
       \/ /\ fileOpen
          /\ Fault /\ Fail
          /\ bytes' \in {bytes, bytes + TornSize}
          /\ torn' = (torn \/ bytes' # bytes)
          /\ UNCHANGED data
       \/ /\ ~fileOpen
          /\ Fail
          /\ NoFault /\ UNCHANGED <<data, bytes, torn>>
    /\ UNCHANGED <<up, dir, handleVars, pending, jobs, synced, now, rotated, collided, crashes>>

\* The end of a Write that wrote the whole record.
Return ==
    /\ up /\ stage = "return"
    /\ size' = size + Size(rec)
    /\ accepted' = Append(accepted, rec)
    /\ stage' = "idle" /\ rec' = None
    /\ UNCHANGED <<up, fsVars, file, fileOpen, pending, jobs, synced, envVars>>

-----------------------------------------------------------------------------
(* Sync and Close. *)

\* "stale" is the error of a sync on a descriptor that is closed already.
Sync ==
    /\ up /\ stage = "idle"
    /\ \/ file = None /\ synced' = "ok" /\ NoFault
       \/ file # None /\ fileOpen /\ synced' = "ok" /\ NoFault
       \/ file # None /\ fileOpen /\ synced' = "fault" /\ Fault
       \/ file # None /\ ~fileOpen /\ synced' = "stale" /\ NoFault
    /\ UNCHANGED <<up, fsVars, handleVars, callVars, jobs, now, historyVars, crashes>>

\* Only a clean sync and a clean close clear w.file.
Close ==
    /\ up /\ stage = "idle" /\ file # None
    /\ \/ fileOpen /\ file' = None /\ fileOpen' = FALSE /\ NoFault
       \/ fileOpen /\ Fault /\ fileOpen' \in BOOLEAN /\ UNCHANGED file
    /\ UNCHANGED <<up, fsVars, size, callVars, jobs, synced, now, historyVars, crashes>>

-----------------------------------------------------------------------------
(* The compression goroutine of one rotation: performCompression. *)

At(j, s) == up /\ jobs[j].stage = s
To(j, s) == jobs' = [jobs EXCEPT ![j].stage = s]
JobFrame == UNCHANGED <<up, bytes, handleVars, callVars, synced, now, historyVars, crashes>>

\* Opens the source: its descriptor keeps the inode.
JobOpen(j) ==
    LET source == dir[Backup(jobs[j].second)] IN
    /\ At(j, "open")
    /\ \/ source # None /\ NoFault
          /\ jobs' = [jobs EXCEPT ![j].stage = "create", ![j].source = source]
       \/ source = None /\ NoFault /\ To(j, "done")
       \/ Fault /\ To(j, "done")
    /\ UNCHANGED <<dir, data>>
    /\ JobFrame

\* Opens the .gz, which is not truncated if it exists.
JobCreate(j) ==
    LET name == Gz(jobs[j].second) IN
    /\ At(j, "create")
    /\ \/ /\ dir[name] = None /\ NoFault
          /\ data' = Append(data, <<>>)
          /\ dir' = [dir EXCEPT ![name] = Len(data) + 1]
          /\ jobs' = [jobs EXCEPT ![j].stage = "copy", ![j].gz = Len(data) + 1]
       \/ /\ dir[name] # None /\ NoFault
          /\ jobs' = [jobs EXCEPT ![j].stage = "copy", ![j].gz = dir[name]]
          /\ UNCHANGED <<dir, data>>
       \/ Fault /\ To(j, "done") /\ UNCHANGED <<dir, data>>
    /\ JobFrame

\* handleCompressedPathRemoval, and the end of the job.
RemoveGz(j) ==
    /\ dir' = [dir EXCEPT ![Gz(jobs[j].second)] = None]
    /\ To(j, "done")

\* The .gz is written from its start; what an older and longer one had behind
\* the new contents stays.
Overwrite(new, old) == new \o SubSeq(old, Len(new) + 1, Len(old))

Compressed(j) ==
    data' = [data EXCEPT ![jobs[j].gz] = Overwrite(data[jobs[j].source], @)]

\* Mutant: an error of the copy is not noticed.
JobCopy_Unchecked(j) ==
    /\ At(j, "copy")
    /\ \/ /\ Compressed(j)
          /\ To(j, "verify") /\ NoFault /\ UNCHANGED dir
       \/ Fault /\ To(j, "verify") /\ UNCHANGED <<dir, data>>
    /\ JobFrame

\* Copies, flushes, syncs and closes; any failure removes the .gz.
JobCopy(j) ==
    /\ At(j, "copy")
    /\ \/ /\ Compressed(j)
          /\ To(j, "verify") /\ NoFault /\ UNCHANGED dir
       \/ Fault /\ RemoveGz(j) /\ UNCHANGED data
    /\ JobFrame

\* Mutant: the original is left behind.
JobVerify_Stops(j) ==
    /\ At(j, "verify")
    /\ dir[Gz(jobs[j].second)] # None
    /\ To(j, "done") /\ NoFault /\ UNCHANGED <<dir, data>>
    /\ JobFrame

\* verifyCompressedFile opens the .gz by its name.
JobVerify(j) ==
    /\ At(j, "verify")
    /\ \/ /\ dir[Gz(jobs[j].second)] # None /\ NoFault
          /\ To(j, IF DeleteOriginal THEN "remove" ELSE "done")
          /\ UNCHANGED dir
       \/ dir[Gz(jobs[j].second)] = None /\ NoFault /\ To(j, "done") /\ UNCHANGED dir
       \/ Fault /\ RemoveGz(j)
    /\ UNCHANGED data
    /\ JobFrame

\* os.Remove takes away whatever the name stands for now; if it fails, the
\* .gz goes instead.
JobRemove(j) ==
    LET name == Backup(jobs[j].second) IN
    /\ At(j, "remove")
    /\ \/ /\ dir[name] # None /\ NoFault
          /\ dir' = [dir EXCEPT ![name] = None]
          /\ To(j, "done")
       \/ dir[name] = None /\ NoFault /\ RemoveGz(j)
       \/ Fault /\ RemoveGz(j)
    /\ UNCHANGED data
    /\ JobFrame

JobStep(j) == JobOpen(j) \/ JobCreate(j) \/ JobCopy(j) \/ JobVerify(j) \/ JobRemove(j)

-----------------------------------------------------------------------------
(* The clock, crashes and restarts. *)

Tick ==
    /\ now < MaxTime
    /\ now' = now + 1
    /\ UNCHANGED <<up, fsVars, handleVars, callVars, jobs, synced, historyVars, faults, crashes>>

Crash ==
    /\ up /\ crashes > 0
    /\ crashes' = crashes - 1
    /\ up' = FALSE
    /\ file' = None /\ fileOpen' = FALSE /\ size' = 0
    /\ Fail
    /\ jobs' = [j \in DOMAIN jobs |-> [jobs[j] EXCEPT !.stage = "done"]]
    /\ UNCHANGED <<fsVars, pending, synced, now, historyVars, faults>>

\* NewFileWriter: opens or creates the file and reads its size.  Nothing
\* looks for backups a crash left uncompressed.
Restart ==
    /\ ~up
    /\ up' = TRUE
    /\ IF dir[Log] = None
       THEN /\ data' = Append(data, <<>>)
            /\ dir' = [dir EXCEPT ![Log] = Len(data) + 1]
            /\ file' = Len(data) + 1
            /\ bytes' = 0 /\ size' = 0
       ELSE /\ file' = dir[Log]
            /\ size' = bytes
            /\ UNCHANGED fsVars
    /\ fileOpen' = TRUE
    /\ UNCHANGED <<callVars, jobs, synced, envVars>>

JobsDone == \A j \in DOMAIN jobs : jobs[j].stage = "done"

Next ==
    \/ \E r \in Records : WriteBegin(r)
    \/ Rename \/ Create \/ AppendRecord \/ Return
    \/ Sync \/ Close
    \/ \E j \in DOMAIN jobs : JobStep(j)
    \/ Tick \/ Crash \/ Restart
    \/ stage = "idle" /\ JobsDone /\ UNCHANGED vars

Spec == Init /\ [][Next]_vars

\* A started Write goes on, and compression goroutines run.  A Write starts one
\* of them at most.
FairSpec ==
    /\ Spec
    /\ WF_vars(Rename \/ Create \/ AppendRecord \/ Return)
    /\ \A j \in 1 .. Cardinality(Records) : WF_vars(j \in DOMAIN jobs /\ JobStep(j))

-----------------------------------------------------------------------------
Inodes == DOMAIN data \cup {None}
Job == [second : Seconds,
        stage  : {"open", "create", "copy", "verify", "remove", "done"},
        source : Inodes,
        gz     : Inodes]

\* The largest file: one record alone, or several within MaxSize, and what
\* failed writes have left.
FileSizes == 0 .. MaxSize + 2 + MaxFaults * TornSize

TypeOK ==
    /\ {up, fileOpen} \subseteq BOOLEAN
    /\ dir \in [Names -> Inodes]
    /\ data \in Seq(Seq(Records))
    /\ {bytes, size} \subseteq FileSizes
    /\ file \in Inodes
    /\ stage \in {"idle", "rename", "create", "append", "return"}
    /\ rec \in Records \cup {None}
    /\ accepted \in Seq(Records)
    /\ pending \subseteq Records
    /\ jobs \in Seq(Job)
    /\ synced \in {"none", "ok", "fault", "stale"}
    /\ now \in Seconds /\ rotated \in 0 .. now
    /\ {collided, torn} \subseteq BOOLEAN
    /\ faults \in 0 .. MaxFaults /\ crashes \in 0 .. MaxCrashes

\* What a reader of the directory finds: the backups by their time, compressed
\* or not, and then, as if of a later second, the log file.
Contents(name) == IF dir[name] = None THEN <<>> ELSE data[dir[name]]
BackupContents(t) == IF dir[Backup(t)] # None THEN Contents(Backup(t)) ELSE Contents(Gz(t))
Shelves == 1 .. MaxTime + 1
Shelf(t) == IF t \in Seconds THEN BackupContents(t) ELSE Contents(Log)

\* No record is in the directory twice.
FoundOnce ==
    \A t, u \in Shelves : \A k \in DOMAIN Shelf(t), l \in DOMAIN Shelf(u) :
        Shelf(t)[k] = Shelf(u)[l] => t = u /\ k = l

\* Every record whose Write succeeded is there.
Found ==
    \A i \in DOMAIN accepted : \E t \in Shelves : \E k \in DOMAIN Shelf(t) :
        Shelf(t)[k] = accepted[i]

\* A reader meets the records in the order of their Writes.
FoundInOrder ==
    \A i, j \in DOMAIN accepted : \A t, u \in Shelves :
        \A k \in DOMAIN Shelf(t), l \in DOMAIN Shelf(u) :
            /\ Shelf(t)[k] = accepted[i] /\ Shelf(u)[l] = accepted[j]
            /\ i < j
            => t < u \/ (t = u /\ k < l)

\* What was accepted can be read back, in order and once: false where two rotations
\* share a second, since the later one renames over the backup of the earlier.
BackupsKeepRecords == Found /\ FoundOnce /\ FoundInOrder

\* As long as no two rotations share a second, nothing is lost: at every moment
\* of a rotation or a compression, after any failed system call and after any
\* crash, what was accepted can be read back, in order and once.
NothingLost == ~collided => BackupsKeepRecords

\* A file with more than one record is not larger than MaxSize.
MaxSizeHolds == dir[Log] # None /\ Len(data[dir[Log]]) > 1 => bytes <= MaxSize

\* Rotation comes before the record that would not fit, after failed rotations
\* and restarts too, unless a write has failed half way.
RotationBound == ~torn => MaxSizeHolds

\* The induction hypotheses of the proofs.  While a call goes on it has a
\* record, which no other call has; an open descriptor is the file named Log.
HandleInv ==
    /\ stage # "idle" => up /\ rec \in Records \ pending
    /\ stage = "return" => fileOpen
    /\ stage \in {"rename", "create"} => ~fileOpen
    /\ stage = "rename" => dir[Log] # None
    /\ stage = "create" => dir[Log] = None
    /\ fileOpen => up /\ file # None /\ dir[Log] = file

\* No file has two names, and no job writes into the log.
NamesInv ==
    /\ \A m, n \in Names : dir[m] # None /\ dir[m] = dir[n] => m = n
    /\ \A j \in DOMAIN jobs :
          /\ jobs[j].stage \in {"create", "copy"} => jobs[j].source # None
          /\ jobs[j].stage = "copy" => jobs[j].gz # None /\ jobs[j].gz # dir[Log]

\* w.size counts what is in the file, but for what failed writes have left; a
\* record is about to be appended because it fits or because the file is new.
Uncounted == TornSize * (MaxFaults - faults)
Counted == IF stage = "return" THEN size + Size(rec) ELSE size
SizeInv ==
    /\ {bytes, size} \subseteq 0 .. MaxSize + 2 + Uncounted
    /\ fileOpen =>
          /\ Counted <= bytes /\ bytes <= Counted + Uncounted
          /\ ~torn => bytes = Counted
    /\ fileOpen /\ stage = "append" =>
          size + Size(rec) <= MaxSize \/ (bytes = 0 /\ data[file] = <<>>)
    /\ RotationBound

\* A second that no rotation has used has no files, and a job is the only one
\* of its second: until it is done, the backup is there and the .gz is its own.
JobKeeps(job) ==
    LET backup == dir[Backup(job.second)]
        gz == dir[Gz(job.second)] IN
    /\ job.stage \in {"open", "create"} => gz = None
    /\ job.stage \in {"create", "copy", "verify", "remove"} => backup # None
    /\ job.stage \in {"create", "copy", "verify"} => backup = job.source
    /\ job.stage \in {"copy", "verify", "remove"} => gz # None /\ gz = job.gz
    /\ job.stage = "copy" => data[gz] = <<>>
    /\ job.stage \in {"verify", "remove"} => data[gz] = data[backup]

JobInv ==
    /\ \A t \in Seconds : t > rotated => dir[Backup(t)] = None /\ dir[Gz(t)] = None
    /\ \A j \in DOMAIN jobs : jobs[j].second <= rotated /\ JobKeeps(jobs[j])
    /\ \A i, j \in DOMAIN jobs : i # j => jobs[i].second # jobs[j].second

\* A record reaches the directory after its Write began and is accepted after
\* that, when it is the last one of the log.
KeepInv ==
    /\ Found /\ FoundOnce /\ FoundInOrder
    /\ \A t \in Shelves : \A k \in DOMAIN Shelf(t) :
          /\ Shelf(t)[k] \notin pending
          /\ stage \in {"rename", "create", "append"} => Shelf(t)[k] # rec
    /\ \A i \in DOMAIN accepted :
          accepted[i] \notin pending /\ (stage # "idle" => accepted[i] # rec)
    /\ stage = "return" => LET log == Contents(Log) IN log # <<>> /\ log[Len(log)] = rec

FileInv == HandleInv /\ NamesInv /\ SizeInv /\ (~collided => JobInv /\ KeepInv)

\* Sync of a file that is closed already returns no error.
SyncOfClosedIsClean == synced # "stale"

\* A backup ends up compressed, and only compressed, when nothing fails on the
\* way: rotations, Writes and Close that overtake the compression do not stop it,
\* unless the backup shares its second with another one.
Mishap == faults < MaxFaults \/ crashes < MaxCrashes
BackupsAreCompressed ==
    \A t \in Seconds :
        (dir[Backup(t)] # None) ~>
            (collided \/ Mishap \/ (dir[Backup(t)] = None /\ dir[Gz(t)] # None))
=============================================================================
