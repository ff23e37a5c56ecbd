-------------------------- MODULE FileWriterProofs --------------------------
(* Theorems about FileWriter, for every set of records, every MaxSize, with *)
(* and without compression, and every number of seconds, faults and crashes. *)
EXTENDS FileWriter, SequenceTheorems, TLAPS

-----------------------------------------------------------------------------
(* Names, inodes and jobs. *)

LEMMA Numbers ==
    /\ MaxSize \in Nat /\ MaxTime \in Nat /\ MaxTime > 0 /\ MaxFaults \in Nat
    /\ MaxCrashes \in Nat /\ Compress \in BOOLEAN /\ DeleteOriginal \in BOOLEAN
    /\ None \notin Nat /\ None \notin Records
BY ConfigAssumption

LEMMA Sizes == \A r \in Records : Size(r) \in 1 .. MaxSize + 2
BY Numbers DEF Size

LEMMA NamesApart ==
    /\ Log \in Names
    /\ \A t \in Seconds : /\ Backup(t) \in Names /\ Backup(t) # Log
                          /\ Gz(t) \in Names /\ Gz(t) # Log
    /\ \A t, u \in Seconds : /\ Backup(t) # Gz(u)
                             /\ Backup(t) = Backup(u) => t = u
                             /\ Gz(t) = Gz(u) => t = u
    /\ \A n \in Names : n = Log \/ \E t \in Seconds : n = Backup(t) \/ n = Gz(t)
BY DEF Names, Log, Backup, Gz

\* A new file, under an inode nobody has seen.
LEMMA NewFile ==
    ASSUME TypeOK, data' = Append(data, <<>>)
    PROVE  /\ data' \in Seq(Seq(Records))
           /\ Inodes \subseteq Inodes' /\ Len(data) + 1 \in Inodes' \ Inodes
           /\ Len(data) + 1 \in DOMAIN data' /\ data'[Len(data) + 1] = <<>>
           /\ \A i \in DOMAIN data : i \in DOMAIN data' /\ data'[i] = data[i]
<1>1. data \in Seq(Seq(Records)) /\ <<>> \in Seq(Records)
  BY DEF TypeOK
<1>2. /\ data' \in Seq(Seq(Records)) /\ Len(data') = Len(data) + 1
      /\ \A i \in 1 .. Len(data) : data'[i] = data[i]
      /\ data'[Len(data) + 1] = <<>>
  BY <1>1, AppendProperties
<1>3. Len(data) \in Nat /\ DOMAIN data = 1 .. Len(data) /\ DOMAIN data' = 1 .. Len(data) + 1
  BY <1>1, <1>2
<1>4. Len(data) + 1 # None
  BY <1>3, Numbers
<1> QED BY <1>2, <1>3, <1>4 DEF Inodes

\* New contents in a file.
LEMMA NewContents ==
    ASSUME TypeOK, NEW i \in DOMAIN data, NEW new \in Seq(Records),
           data' = [data EXCEPT ![i] = new]
    PROVE  /\ data' \in Seq(Seq(Records)) /\ DOMAIN data' = DOMAIN data /\ Inodes' = Inodes
           /\ data'[i] = new /\ \A k \in DOMAIN data : k # i => data'[k] = data[k]
<1>1. data \in Seq(Seq(Records)) /\ i \in 1 .. Len(data)
  BY DEF TypeOK
<1>2. data' \in Seq(Seq(Records)) /\ DOMAIN data' = DOMAIN data
  BY <1>1
<1> QED BY <1>1, <1>2 DEF Inodes

\* A name that stands for another file, or for none.
LEMMA NewEntry ==
    ASSUME TypeOK, Inodes \subseteq Inodes', NEW n \in Names, NEW x \in Inodes',
           dir' = [dir EXCEPT ![n] = x]
    PROVE  /\ dir' \in [Names -> Inodes'] /\ dir'[n] = x
           /\ \A m \in Names : m # n => dir'[m] = dir[m]
BY DEF TypeOK

\* What a job step may change, whatever the outcome.
JobMoves(j) ==
    /\ jobs' \in Seq(Job') /\ DOMAIN jobs' = DOMAIN jobs
    /\ jobs'[j].second = jobs[j].second
    /\ \A i \in DOMAIN jobs : i # j => jobs'[i] = jobs[i]

LEMMA JobChanges ==
    ASSUME TypeOK, Inodes \subseteq Inodes', NEW j \in DOMAIN jobs, NEW new \in Job',
           new.second = jobs[j].second, jobs' = [jobs EXCEPT ![j] = new]
    PROVE  JobMoves(j) /\ jobs'[j] = new
<1>1. jobs \in Seq(Job) /\ j \in 1 .. Len(jobs)
  BY DEF TypeOK
<1>2. Job \subseteq Job'
  BY DEF Job
<1>3. jobs \in Seq(Job')
  BY <1>1, <1>2
<1>4. jobs' \in Seq(Job') /\ DOMAIN jobs' = DOMAIN jobs
  BY <1>1, <1>3
<1> QED BY <1>1, <1>4 DEF JobMoves

LEMMA JobTo ==
    ASSUME TypeOK, Inodes \subseteq Inodes', NEW j \in DOMAIN jobs,
           NEW s \in {"open", "create", "copy", "verify", "remove", "done"}, To(j, s)
    PROVE  /\ JobMoves(j) /\ jobs'[j].stage = s
           /\ jobs'[j].source = jobs[j].source /\ jobs'[j].gz = jobs[j].gz
<1> DEFINE new == [jobs[j] EXCEPT !.stage = s]
<1>1. jobs[j] \in Job
  BY DEF TypeOK
<1>2. /\ new \in Job' /\ new.second = jobs[j].second /\ new.stage = s
      /\ new.source = jobs[j].source /\ new.gz = jobs[j].gz
  BY <1>1 DEF Job
<1>3. jobs' = [jobs EXCEPT ![j] = new]
  BY DEF To
<1> HIDE DEF new
<1> QED BY <1>2, <1>3, JobChanges

-----------------------------------------------------------------------------
(* One step of a compression goroutine. *)

LEMMA OverwriteType ==
    ASSUME NEW new \in Seq(Records), NEW old \in Seq(Records)
    PROVE  Overwrite(new, old) \in Seq(Records)
<1>1. SubSeq(old, Len(new) + 1, Len(old)) \in Seq(Records)
  OBVIOUS
<1> QED BY <1>1 DEF Overwrite

LEMMA JobFields ==
    ASSUME TypeOK, NEW j \in DOMAIN jobs
    PROVE  /\ jobs[j] \in Job /\ jobs[j].second \in Seconds
           /\ jobs[j].source \in Inodes /\ jobs[j].gz \in Inodes
<1>1. jobs \in Seq(Job)
  BY DEF TypeOK
<1>2. jobs[j] \in Job
  BY <1>1
<1> QED BY <1>2 DEF Job

\* It keeps types and names apart, and leaves the log file alone.
JobEffect(j) ==
    /\ JobMoves(j)
    /\ data' \in Seq(Seq(Records)) /\ Inodes \subseteq Inodes'
    /\ dir' \in [Names -> Inodes'] /\ dir'[Log] = dir[Log]
    /\ dir[Log] # None => data'[dir[Log]] = data[dir[Log]]
    /\ faults' \in 0 .. faults
    /\ NamesInv'

LEMMA FaultsCountDown ==
    ASSUME TypeOK, Fault \/ NoFault
    PROVE  faults' \in 0 .. faults
BY Numbers DEF TypeOK, Fault, NoFault

\* The shape of most steps: a name may disappear, a stage changes.
LEMMA JobDrops ==
    ASSUME TypeOK, NamesInv, NEW j \in DOMAIN jobs, UNCHANGED data,
           NEW s \in {"verify", "remove", "done"}, To(j, s),
           NEW t \in Seconds, NEW n \in {Backup(t), Gz(t)},
           dir' = dir \/ dir' = [dir EXCEPT ![n] = None], Fault \/ NoFault
    PROVE  JobEffect(j)
<1>1. Inodes' = Inodes /\ None \in Inodes
  BY DEF Inodes
<1>2. n \in Names /\ n # Log /\ Log \in Names
  BY NamesApart
<1>3. /\ dir' \in [Names -> Inodes'] /\ dir'[Log] = dir[Log]
      /\ \A m \in Names : dir'[m] = dir[m] \/ dir'[m] = None
  <2>1. CASE dir' = dir
    BY <1>1, <2>1 DEF TypeOK
  <2>2. CASE dir' = [dir EXCEPT ![n] = None]
    BY <1>1, <1>2, <2>2, NewEntry
  <2> QED BY <2>1, <2>2
<1>4. JobMoves(j) /\ jobs'[j].stage = s
  BY <1>1, JobTo
<1>5. NamesInv'
  <2>1. \A m, k \in Names : dir'[m] # None /\ dir'[m] = dir'[k] => m = k
    BY <1>3 DEF NamesInv
  <2>2. \A i \in DOMAIN jobs' : jobs'[i].stage \in {"create", "copy"} => jobs'[i] = jobs[i]
    BY <1>4 DEF JobMoves
  <2>3. DOMAIN jobs' = DOMAIN jobs
    BY <1>4 DEF JobMoves
  <2> QED BY <1>3, <2>1, <2>2, <2>3 DEF NamesInv
<1>6. data' = data /\ data \in Seq(Seq(Records))
  BY DEF TypeOK
<1> QED BY <1>1, <1>3, <1>4, <1>5, <1>6, FaultsCountDown DEF JobEffect

LEMMA JobStepEffect ==
    ASSUME TypeOK, NamesInv, NEW j \in DOMAIN jobs, JobStep(j)
    PROVE  JobEffect(j)
<1>1. /\ jobs[j] \in Job /\ jobs[j].second \in Seconds
      /\ jobs[j].source \in Inodes /\ jobs[j].gz \in Inodes
  BY JobFields
<1>2. PICK t \in Seconds : t = jobs[j].second
  BY <1>1
<1>3. Backup(t) \in Names /\ Gz(t) \in Names /\ Gz(t) # Log /\ Log \in Names
  BY NamesApart
<1>4. CASE JobOpen(j)
  <2>1. CASE To(j, "done")
    BY <1>2, <1>4, <2>1, JobDrops DEF JobOpen
  <2>2. CASE ~To(j, "done")
    <3> DEFINE source == dir[Backup(t)]
               new == [jobs[j] EXCEPT !.stage = "create", !.source = source]
    <3>1. jobs' = [jobs EXCEPT ![j] = new] /\ dir' = dir /\ data' = data /\ NoFault
      BY <1>2, <1>4, <2>2 DEF JobOpen
    <3>2. Inodes' = Inodes /\ dir \in [Names -> Inodes'] /\ source \in Inodes
      BY <1>3, <3>1 DEF TypeOK, Inodes
    <3>3. /\ new \in Job' /\ new.second = jobs[j].second /\ new.stage = "create"
          /\ new.source # None
      BY <1>1, <1>2, <1>4, <2>2, <3>2 DEF Job, JobOpen
    <3> HIDE DEF new
    <3>4. JobMoves(j) /\ jobs'[j] = new
      BY <3>1, <3>2, <3>3, JobChanges
    <3>5. \A i \in DOMAIN jobs' :
             /\ i \in DOMAIN jobs
             /\ jobs'[i].stage \in {"create", "copy"} => jobs'[i] = jobs[i] \/ jobs'[i] = new
      BY <3>3, <3>4 DEF JobMoves
    <3>6. NamesInv'
      BY <3>1, <3>3, <3>5 DEF NamesInv
    <3> QED BY <3>1, <3>2, <3>4, <3>6, FaultsCountDown DEF JobEffect, TypeOK
  <2> QED BY <2>1, <2>2
<1>5. CASE JobCreate(j)
  <2>1. CASE Fault /\ To(j, "done") /\ UNCHANGED <<dir, data>>
    BY <1>2, <2>1, JobDrops
  <2>2. CASE /\ dir[Gz(t)] = None /\ NoFault /\ data' = Append(data, <<>>)
             /\ dir' = [dir EXCEPT ![Gz(t)] = Len(data) + 1]
             /\ jobs' = [jobs EXCEPT ![j].stage = "copy", ![j].gz = Len(data) + 1]
    <3>1. PICK x : x = Len(data) + 1
      OBVIOUS
    <3>2. /\ data' \in Seq(Seq(Records)) /\ Inodes \subseteq Inodes'
          /\ x \in Inodes' /\ x \notin Inodes
          /\ \A i \in DOMAIN data : data'[i] = data[i]
      BY <2>2, <3>1, NewFile
    <3>3. /\ dir' \in [Names -> Inodes'] /\ dir'[Gz(t)] = x
          /\ \A m \in Names : m # Gz(t) => dir'[m] = dir[m]
      BY <1>3, <2>2, <3>1, <3>2, NewEntry
    <3> DEFINE new == [jobs[j] EXCEPT !.stage = "copy", !.gz = x]
    <3>4. /\ new \in Job' /\ new.second = jobs[j].second /\ new.stage = "copy"
          /\ new.source = jobs[j].source /\ new.gz = x
      BY <1>1, <3>2 DEF Job
    <3>5. jobs' = [jobs EXCEPT ![j] = new]
      BY <2>2, <3>1
    <3> HIDE DEF new
    <3>6. JobMoves(j) /\ jobs'[j] = new
      BY <3>2, <3>4, <3>5, JobChanges
    <3>7. \A m, k \in Names : dir'[m] # None /\ dir'[m] = dir'[k] => m = k
      BY <3>2, <3>3 DEF NamesInv, TypeOK
    <3>8. new.source # None /\ x # None /\ x # dir[Log] /\ dir'[Log] = dir[Log]
      BY <1>3, <1>5, <3>2, <3>3, <3>4 DEF NamesInv, TypeOK, Inodes, JobCreate, At
    <3>9. NamesInv'
      BY <3>4, <3>6, <3>7, <3>8 DEF NamesInv, JobMoves
    <3>10. dir[Log] # None => data'[dir[Log]] = data[dir[Log]]
      BY <1>3, <3>2 DEF TypeOK, Inodes
    <3> QED BY <2>2, <3>2, <3>3, <3>6, <3>8, <3>9, <3>10, FaultsCountDown DEF JobEffect
  <2>3. CASE /\ dir[Gz(t)] # None /\ NoFault /\ UNCHANGED <<dir, data>>
             /\ jobs' = [jobs EXCEPT ![j].stage = "copy", ![j].gz = dir[Gz(t)]]
    <3>1. PICK x : x = dir[Gz(t)]
      OBVIOUS
    <3>2. Inodes' = Inodes /\ dir' = dir /\ dir \in [Names -> Inodes'] /\ x \in Inodes'
      BY <1>3, <2>3, <3>1 DEF TypeOK, Inodes
    <3> DEFINE new == [jobs[j] EXCEPT !.stage = "copy", !.gz = x]
    <3>3. /\ new \in Job' /\ new.second = jobs[j].second /\ new.stage = "copy"
          /\ new.source = jobs[j].source /\ new.gz = x
      BY <1>1, <3>2 DEF Job
    <3>4. jobs' = [jobs EXCEPT ![j] = new]
      BY <2>3, <3>1
    <3> HIDE DEF new
    <3>5. JobMoves(j) /\ jobs'[j] = new
      BY <3>2, <3>3, <3>4, JobChanges
    <3>6. new.source # None /\ x # None /\ x # dir[Log]
      BY <1>3, <1>5, <2>3, <3>1, <3>3 DEF NamesInv, JobCreate, At
    <3>7. NamesInv'
      BY <3>2, <3>3, <3>5, <3>6 DEF NamesInv, JobMoves
    <3> QED BY <2>3, <3>2, <3>5, <3>7, FaultsCountDown DEF JobEffect, TypeOK
  <2> QED BY <1>2, <1>5, <2>1, <2>2, <2>3 DEF JobCreate
<1>6. CASE JobCopy(j)
  <2>1. CASE Fault /\ RemoveGz(j) /\ UNCHANGED data
    BY <1>2, <2>1, JobDrops DEF RemoveGz
  <2>2. CASE Compressed(j) /\ To(j, "verify") /\ NoFault /\ UNCHANGED dir
    <3>1. PICK source \in DOMAIN data, gz \in DOMAIN data :
             source = jobs[j].source /\ gz = jobs[j].gz /\ gz # dir[Log]
      BY <1>1, <1>6 DEF NamesInv, Inodes, JobCopy, At
    <3>2. PICK new : new = Overwrite(data[source], data[gz])
      OBVIOUS
    <3>3. data' = [data EXCEPT ![gz] = new] /\ new \in Seq(Records)
      <4>1. data[source] \in Seq(Records) /\ data[gz] \in Seq(Records)
        BY DEF TypeOK
      <4>2. new \in Seq(Records)
        BY <3>2, <4>1, OverwriteType
      <4> QED BY <2>2, <3>1, <3>2, <4>2 DEF Compressed
    <3>4. /\ data' \in Seq(Seq(Records)) /\ Inodes' = Inodes
          /\ \A k \in DOMAIN data : k # gz => data'[k] = data[k]
      BY <3>3, NewContents
    <3>5. JobMoves(j) /\ jobs'[j].stage = "verify"
      BY <2>2, <3>4, JobTo
    <3>6. dir' = dir /\ dir \in [Names -> Inodes']
      BY <2>2, <3>4 DEF TypeOK
    <3>7. NamesInv'
      BY <3>5, <3>6 DEF NamesInv, JobMoves
    <3>8. dir[Log] # None => data'[dir[Log]] = data[dir[Log]]
      BY <1>3, <3>1, <3>4 DEF TypeOK, Inodes
    <3> QED BY <2>2, <3>4, <3>5, <3>6, <3>7, <3>8, FaultsCountDown DEF JobEffect
  <2> QED BY <1>6, <2>1, <2>2 DEF JobCopy
<1>7. CASE JobVerify(j)
  BY <1>2, <1>7, JobDrops DEF JobVerify, RemoveGz
<1>8. CASE JobRemove(j)
  BY <1>2, <1>8, JobDrops DEF JobRemove, RemoveGz
<1> QED BY <1>4, <1>5, <1>6, <1>7, <1>8 DEF JobStep
-----------------------------------------------------------------------------
(* Types, the call in progress, and names. *)

LEMMA HandleStep ==
    ASSUME TypeOK, HandleInv, NamesInv, [Next]_vars
    PROVE  HandleInv'
<1> USE DEF HandleInv
<1>1. Log \in Names /\ \A t \in Seconds : Backup(t) \in Names /\ Backup(t) # Log
  BY NamesApart
<1>2. ASSUME NEW r \in Records, WriteBegin(r) PROVE HandleInv'
  <2>1. pending \subseteq Records
    BY DEF TypeOK
  <2>2. r \in Records \ pending' /\ up' = up /\ up /\ file' = file /\ dir' = dir /\ stage = "idle"
    BY <1>2 DEF WriteBegin, fsVars
  <2>3. CASE stage' = "append" /\ rec' = r /\ fileOpen' = fileOpen
    BY <2>2, <2>3
  <2>4. CASE fileOpen /\ ~fileOpen' /\ stage' = "rename" /\ rec' = r
    BY <2>2, <2>4
  <2>5. CASE stage' = "idle" /\ ~fileOpen'
    BY <2>2, <2>5
  <2> QED BY <1>2, <2>3, <2>4, <2>5 DEF WriteBegin, Fail
<1>3. CASE Rename
  BY <1>1, <1>3 DEF Rename, Fail, handleVars, TypeOK
<1>4. CASE Create
  <2>1. dir' = [dir EXCEPT ![Log] = Len(data) + 1] => dir'[Log] = Len(data) + 1
    BY <1>1 DEF TypeOK
  <2>2. Len(data) + 1 # None
    BY Numbers DEF TypeOK
  <2> QED BY <1>4, <2>1, <2>2 DEF Create, Fail, fsVars, handleVars
<1>5. CASE AppendRecord
  BY <1>5 DEF AppendRecord, Fail, handleVars
<1>6. CASE Return
  BY <1>6 DEF Return, fsVars
<1>7. CASE Sync
  BY <1>7 DEF Sync, fsVars, handleVars, callVars
<1>8. CASE Close
  BY <1>8 DEF Close, fsVars, callVars
<1>9. ASSUME NEW j \in DOMAIN jobs, JobStep(j) PROVE HandleInv'
  <2>1. dir'[Log] = dir[Log]
    BY <1>9, JobStepEffect DEF JobEffect
  <2>2. JobFrame
    BY <1>9 DEF JobStep, JobOpen, JobCreate, JobCopy, JobVerify, JobRemove
  <2> QED BY <2>1, <2>2 DEF JobFrame, handleVars, callVars
<1>10. CASE Tick
  BY <1>10 DEF Tick, fsVars, handleVars, callVars
<1>11. CASE Crash
  BY <1>11 DEF Crash, Fail, fsVars
<1>12. CASE Restart
  <2>1. dir' = [dir EXCEPT ![Log] = Len(data) + 1] => dir'[Log] = Len(data) + 1
    BY <1>1 DEF TypeOK
  <2>2. Len(data) + 1 # None
    BY Numbers DEF TypeOK
  <2>3. stage = "idle" /\ stage' = "idle" /\ up'
    BY <1>12 DEF Restart, callVars
  <2> QED BY <1>12, <2>1, <2>2, <2>3 DEF Restart, fsVars
<1>13. CASE UNCHANGED vars
  BY <1>13 DEF vars, fsVars, handleVars, callVars
<1> QED BY <1>2, <1>3, <1>4, <1>5, <1>6, <1>7, <1>8, <1>9, <1>10, <1>11, <1>12, <1>13 DEF Next

LEMMA NamesStep ==
    ASSUME TypeOK, HandleInv, NamesInv, [Next]_vars
    PROVE  NamesInv'
<1>1. Log \in Names /\ \A t \in Seconds : Backup(t) \in Names /\ Backup(t) # Log
  BY NamesApart
<1>2. CASE UNCHANGED <<dir, jobs>>
  BY <1>2 DEF NamesInv
<1>3. ASSUME Rename PROVE NamesInv'
  <2>1. CASE UNCHANGED <<dir, jobs>>
    BY <1>2, <2>1
  <2>2. CASE /\ dir' = [dir EXCEPT ![Backup(now)] = dir[Log], ![Log] = None]
             /\ jobs' = jobs \/ jobs' = Append(jobs, [second |-> now, stage |-> "open",
                                                     source |-> None, gz |-> None])
    <3>1. now \in Seconds
      BY DEF TypeOK
    <3>2. /\ dir'[Backup(now)] = dir[Log] /\ dir'[Log] = None
          /\ \A m \in Names : m \notin {Log, Backup(now)} => dir'[m] = dir[m]
      BY <1>1, <2>2, <3>1 DEF TypeOK
    <3>3. \A m, k \in Names : dir'[m] # None /\ dir'[m] = dir'[k] => m = k
      BY <1>1, <3>2 DEF NamesInv
    <3>4. \A i \in DOMAIN jobs' : jobs'[i].stage = "open" \/ (i \in DOMAIN jobs /\ jobs'[i] = jobs[i])
      <4>1. jobs \in Seq(Job)
        BY DEF TypeOK
      <4>2. CASE jobs' = jobs
        BY <4>2
      <4>3. PICK new : new = [second |-> now, stage |-> "open", source |-> None, gz |-> None]
        OBVIOUS
      <4>4. CASE jobs' = Append(jobs, new)
        BY <4>1, <4>3, <4>4
      <4> QED BY <2>2, <4>2, <4>3, <4>4
    <3>5. \A i \in DOMAIN jobs :
             jobs[i].stage = "copy" => jobs[i].gz # None
      BY DEF NamesInv
    <3> QED BY <3>2, <3>3, <3>4, <3>5 DEF NamesInv
  <2> QED BY <1>3, <2>1, <2>2 DEF Rename
<1>4. ASSUME data' = Append(data, <<>>), dir' = [dir EXCEPT ![Log] = Len(data) + 1], jobs' = jobs
      PROVE  NamesInv'
  <2>1. PICK x : x = Len(data) + 1
    OBVIOUS
  <2>2. Inodes \subseteq Inodes' /\ x \in Inodes' /\ x \notin Inodes
    BY <1>4, <2>1, NewFile
  <2>3. dir'[Log] = x /\ \A m \in Names : m # Log => dir'[m] = dir[m]
    BY <1>1, <1>4, <2>1, <2>2, NewEntry
  <2>4. \A m, k \in Names : dir'[m] # None /\ dir'[m] = dir'[k] => m = k
    BY <2>2, <2>3 DEF NamesInv, TypeOK
  <2>5. \A i \in DOMAIN jobs : jobs[i].gz # x
    BY <2>2, JobFields
  <2> QED BY <1>4, <2>3, <2>4, <2>5 DEF NamesInv
<1>5. CASE Create
  BY <1>2, <1>4, <1>5 DEF Create, fsVars
<1>6. CASE Restart
  BY <1>2, <1>4, <1>6 DEF Restart, fsVars
<1>7. CASE Crash
  <2>1. dir' = dir /\ \A j \in DOMAIN jobs' : jobs'[j].stage = "done"
    <3>1. \A j \in DOMAIN jobs : [jobs[j] EXCEPT !.stage = "done"].stage = "done"
      BY JobFields DEF Job
    <3> QED BY <1>7, <3>1 DEF Crash, fsVars
  <2> QED BY <2>1 DEF NamesInv
<1>8. ASSUME NEW j \in DOMAIN jobs, JobStep(j) PROVE NamesInv'
  BY <1>8, JobStepEffect DEF JobEffect
<1>9. ASSUME NEW r \in Records, WriteBegin(r) PROVE UNCHANGED <<dir, jobs>>
  BY <1>9 DEF WriteBegin, fsVars
<1>10. AppendRecord \/ Return \/ Sync \/ Close \/ Tick \/ UNCHANGED vars => UNCHANGED <<dir, jobs>>
  BY DEF AppendRecord, Return, Sync, Close, Tick, vars, fsVars
<1> QED BY <1>2, <1>3, <1>5, <1>6, <1>7, <1>8, <1>9, <1>10 DEF Next

-----------------------------------------------------------------------------
(* Sizes. *)

\* What SizeInv says of a state in plain arithmetic.
LEMMA SizesAsNumbers ==
    ASSUME TypeOK, SizeInv
    PROVE  /\ bytes \in Nat /\ size \in Nat /\ faults \in Nat /\ faults <= MaxFaults
           /\ bytes <= MaxSize + 2 + (MaxFaults - faults)
           /\ size <= MaxSize + 2 + (MaxFaults - faults)
           /\ fileOpen /\ stage # "return" =>
                 /\ size <= bytes /\ bytes <= size + (MaxFaults - faults)
                 /\ ~torn => bytes = size
           /\ fileOpen /\ stage = "return" =>
                 /\ size + Size(rec) <= bytes
                 /\ bytes <= size + Size(rec) + (MaxFaults - faults)
                 /\ ~torn => bytes = size + Size(rec)
<1>1. faults \in Nat /\ faults <= MaxFaults /\ Uncounted = MaxFaults - faults
  BY Numbers DEF TypeOK, Uncounted, TornSize
<1>2. stage # "return" => Counted = size
  BY DEF Counted
<1>3. stage = "return" => Counted = size + Size(rec)
  BY DEF Counted
<1> QED BY <1>1, <1>2, <1>3, Numbers DEF SizeInv

\* The bound, when a step leaves the log file alone.
LEMMA SameLog ==
    ASSUME TypeOK, SizeInv, UNCHANGED <<bytes, torn>>,
           dir'[Log] = None \/ (dir'[Log] = dir[Log] /\ data'[dir[Log]] = data[dir[Log]])
    PROVE  RotationBound'
BY DEF SizeInv, RotationBound, MaxSizeHolds

\* A step that closes the log, or leaves the writer's numbers as they are.
LEMMA SizesKept ==
    ASSUME TypeOK, HandleInv, SizeInv, UNCHANGED <<bytes, torn>>,
           size' = size \/ (size' = 0 /\ ~fileOpen'), faults' \in 0 .. faults,
           dir'[Log] = None \/ (dir'[Log] = dir[Log] /\ data'[dir[Log]] = data[dir[Log]]),
           fileOpen' => fileOpen,
           stage' # stage /\ fileOpen' => stage' # "return" /\ stage # "return",
           stage' = "return" => rec' = rec,
           stage' = "append" /\ fileOpen' =>
             \/ size + Size(rec') <= MaxSize
             \/ stage = "append" /\ rec' = rec /\ dir'[Log] = dir[Log] /\ file' = file
    PROVE  SizeInv'
<1>1. /\ faults' \in Nat /\ faults' <= faults /\ Uncounted' = MaxFaults - faults'
      /\ faults <= MaxFaults /\ faults \in Nat
  BY Numbers DEF TypeOK, Uncounted, TornSize
<1>2. RotationBound'
  BY SameLog
<1>3. {bytes', size'} \subseteq 0 .. MaxSize + 2 + Uncounted'
  BY <1>1, SizesAsNumbers, Numbers
<1>4. ASSUME fileOpen'
      PROVE  /\ Counted' <= bytes' /\ bytes' <= Counted' + Uncounted'
             /\ ~torn' => bytes' = Counted'
  <2>1. fileOpen /\ size' = size
    BY <1>4
  <2>2. CASE stage' = "return"
    <3>1. stage = "return" /\ rec' = rec /\ rec \in Records
      BY <1>4, <2>2 DEF HandleInv
    <3>2. Counted' = size + Size(rec) /\ Size(rec) \in Nat
      BY <2>1, <2>2, <3>1, Sizes, Numbers DEF Counted
    <3> QED BY <1>1, <2>1, <3>1, <3>2, SizesAsNumbers, Numbers
  <2>3. CASE stage' # "return"
    <3>1. stage # "return"
      BY <1>4, <2>3
    <3>2. Counted' = size
      BY <2>1, <2>3 DEF Counted
    <3> QED BY <1>1, <2>1, <3>1, <3>2, SizesAsNumbers, Numbers
  <2> QED BY <2>2, <2>3
<1>5. ASSUME fileOpen', stage' = "append"
      PROVE  size' + Size(rec') <= MaxSize \/ (bytes' = 0 /\ data'[file'] = <<>>)
  <2>1. fileOpen /\ size' = size /\ file = dir[Log] /\ file # None
    BY <1>5 DEF HandleInv
  <2>2. CASE size + Size(rec') <= MaxSize
    BY <2>1, <2>2
  <2>3. CASE stage = "append" /\ rec' = rec /\ dir'[Log] = dir[Log] /\ file' = file
    BY <2>1, <2>3 DEF SizeInv
  <2> QED BY <1>5, <2>2, <2>3
<1> QED BY <1>2, <1>3, <1>4, <1>5 DEF SizeInv

LEMMA EmptyLog ==
    ASSUME TypeOK, NEW x, data'[x] = <<>>, dir'[Log] = x, file' = x,
           bytes' = 0, size' = 0, stage' # "return", faults' = faults
    PROVE  SizeInv'
<1>1. Len(data'[dir'[Log]]) = 0
  OBVIOUS
<1>2. ~(Len(data'[dir'[Log]]) > 1)
  BY <1>1
<1>3. RotationBound'
  BY <1>2 DEF RotationBound, MaxSizeHolds
<1>4. PICK u \in Nat : Uncounted' = u /\ Counted' = 0
  BY Numbers DEF TypeOK, Uncounted, TornSize, Counted
<1>5. {bytes', size'} \subseteq 0 .. MaxSize + 2 + Uncounted'
  BY <1>4, Numbers
<1>6. Counted' <= bytes' /\ bytes' <= Counted' + Uncounted' /\ bytes' = Counted'
  BY <1>4
<1> QED BY <1>3, <1>5, <1>6 DEF SizeInv

LEMMA SizeOfNew ==
    ASSUME TypeOK, data' = Append(data, <<>>),
           dir' = [dir EXCEPT ![Log] = Len(data) + 1],
           bytes' = 0, size' = 0, file' = Len(data) + 1, stage' # "return", faults' = faults
    PROVE  SizeInv'
<1>1. PICK x : x = Len(data) + 1
  OBVIOUS
<1>2. x \in Inodes' /\ Inodes \subseteq Inodes' /\ data'[x] = <<>>
  BY <1>1, NewFile
<1>3. dir'[Log] = x
  BY <1>1, <1>2, NewEntry, NamesApart
<1> QED BY <1>1, <1>2, <1>3, EmptyLog, Zenon

LEMMA SizeStep ==
    ASSUME TypeOK, HandleInv, NamesInv, SizeInv, [Next]_vars
    PROVE  SizeInv'
<1>1. Log \in Names /\ \A t \in Seconds : Backup(t) \in Names /\ Backup(t) # Log
  BY NamesApart
<1>2. faults' = faults => faults' \in 0 .. faults
  BY Numbers DEF TypeOK
<1>3. ASSUME NEW r \in Records, WriteBegin(r) PROVE SizeInv'
  <2>1. /\ UNCHANGED <<dir, data, bytes, size, torn, file>> /\ (Fault \/ NoFault)
        /\ stage = "idle" /\ stage' # "return" /\ (fileOpen' => fileOpen)
    BY <1>3 DEF WriteBegin, fsVars, historyVars, Fail
  <2>2. stage' = "append" => rec' = r /\ ~NeedsRotation(r)
    BY <1>3 DEF WriteBegin, Fail
  <2>3. ~NeedsRotation(r) => size + Size(r) <= MaxSize
    BY Sizes, Numbers, SizesAsNumbers DEF NeedsRotation
  <2> QED BY <2>1, <2>2, <2>3, FaultsCountDown, SizesKept
<1>4. CASE Rename
  <2>1. /\ UNCHANGED <<data, bytes, size, torn, file, fileOpen>> /\ (Fault \/ NoFault)
        /\ ~fileOpen /\ stage' # "return"
    BY <1>4 DEF Rename, handleVars, Fail, HandleInv
  <2>2. dir'[Log] = None \/ dir'[Log] = dir[Log]
    BY <1>1, <1>4 DEF Rename, TypeOK
  <2> QED BY <2>1, <2>2, FaultsCountDown, SizesKept
<1>5. CASE Create
  <2>1. CASE Fault /\ Fail /\ UNCHANGED <<fsVars, handleVars>>
    <3>1. UNCHANGED <<dir, data, bytes, size, torn, file, fileOpen>> /\ ~fileOpen /\ stage' = "idle"
      BY <1>5, <2>1 DEF Create, fsVars, handleVars, Fail, HandleInv, historyVars
    <3> QED BY <2>1, <3>1, FaultsCountDown, SizesKept
  <2> QED BY <1>5, <2>1, SizeOfNew DEF Create, NoFault
<1>6. CASE AppendRecord
  <2>1. UNCHANGED <<dir, file, fileOpen, size>> /\ stage = "append"
    BY <1>6 DEF AppendRecord, handleVars
  <2>2. rec \in Records /\ Size(rec) \in 1 .. MaxSize + 2
    BY <2>1, Sizes DEF HandleInv
  <2>3. CASE ~fileOpen
    BY <1>6, <2>1, <2>3, FaultsCountDown, SizesKept DEF AppendRecord, Fail, fsVars
  <2>4. CASE /\ fileOpen /\ Fault /\ Fail /\ bytes' \in {bytes, bytes + TornSize}
             /\ torn' = (torn \/ bytes' # bytes) /\ UNCHANGED data
    <3>1. faults' \in Nat /\ faults' = faults - 1 /\ stage' = "idle"
      BY <2>4, Numbers DEF Fault, Fail, TypeOK
    <3>2. Uncounted' = MaxFaults - faults' /\ Counted' = size
      BY <2>1, <3>1, Numbers DEF Uncounted, TornSize, Counted
    <3>3. bytes' = bytes \/ bytes' = bytes + 1
      BY <2>4 DEF TornSize
    <3>4. {bytes', size'} \subseteq 0 .. MaxSize + 2 + Uncounted'
      BY <2>1, <3>1, <3>2, <3>3, SizesAsNumbers, Numbers
    <3>5. Counted' <= bytes' /\ bytes' <= Counted' + Uncounted'
      BY <2>1, <2>4, <3>1, <3>2, <3>3, SizesAsNumbers, Numbers
    <3>6. ~torn' => ~torn /\ bytes' = bytes
      BY <2>4 DEF TypeOK
    <3>7. ~torn' => bytes' = Counted'
      BY <2>1, <2>4, <3>2, <3>6, SizesAsNumbers
    <3>8. RotationBound'
      BY <2>1, <2>4, <3>6 DEF SizeInv, RotationBound, MaxSizeHolds
    <3> QED BY <3>1, <3>4, <3>5, <3>7, <3>8 DEF SizeInv
  <2>5. CASE /\ fileOpen /\ data' = [data EXCEPT ![file] = Append(@, rec)]
             /\ bytes' = bytes + Size(rec) /\ stage' = "return"
             /\ NoFault /\ UNCHANGED <<rec, accepted, torn>>
    <3>1. PICK i \in DOMAIN data : i = file /\ dir[Log] = i
      BY <2>5 DEF HandleInv, TypeOK, Inodes
    <3>2. PICK new : new = Append(data[i], rec)
      OBVIOUS
    <3>3. data[i] \in Seq(Records)
      BY DEF TypeOK
    <3>4. new \in Seq(Records) /\ Len(new) = Len(data[i]) + 1
      BY <2>2, <3>2, <3>3
    <3>5. data'[i] = new
      BY <2>5, <3>1, <3>2, <3>4, NewContents
    <3>6. faults' = faults /\ Uncounted' = MaxFaults - faults /\ Counted' = size + Size(rec)
      BY <2>1, <2>5, Numbers DEF NoFault, Uncounted, TornSize, Counted, TypeOK
    <3>7. PICK w \in 1 .. MaxSize + 2 : w = Size(rec)
      BY <2>2
    <3>8. size + w <= MaxSize \/ (bytes = 0 /\ data[i] = <<>>)
      BY <2>1, <2>5, <3>1, <3>7 DEF SizeInv
    <3>9. {bytes', size'} \subseteq 0 .. MaxSize + 2 + Uncounted'
      BY <2>1, <2>5, <3>6, <3>7, <3>8, SizesAsNumbers, Numbers
    <3>10. Counted' <= bytes' /\ bytes' <= Counted' + Uncounted' /\ (~torn' => bytes' = Counted')
      <4>1. Counted' = size + w /\ bytes' = bytes + w /\ torn' = torn
        BY <2>5, <3>6, <3>7
      <4>2. size <= bytes /\ bytes <= size + (MaxFaults - faults) /\ (~torn => bytes = size)
        BY <2>1, <2>5, SizesAsNumbers
      <4>3. Counted' <= bytes' /\ bytes' <= Counted' + Uncounted'
        BY <3>6, <4>1, <4>2, SizesAsNumbers, Numbers
      <4> QED BY <4>1, <4>2, <4>3
    <3>11. RotationBound'
      <4>1. CASE size + w <= MaxSize
        <5>1. ~torn => bytes' <= MaxSize
          BY <2>1, <2>5, <3>7, <4>1, SizesAsNumbers, Numbers
        <5> QED BY <2>5, <5>1 DEF RotationBound, MaxSizeHolds
      <4>2. CASE data[i] = <<>>
        <5>1. ~(Len(data'[i]) > 1)
          <6>1. Len(data[i]) = 0
            BY <4>2
          <6>2. Len(data'[i]) = 1
            BY <3>4, <3>5, <6>1
          <6> QED BY <6>2
        <5>2. dir'[Log] = i
          BY <2>1, <3>1
        <5> QED BY <5>1, <5>2 DEF RotationBound, MaxSizeHolds
      <4> QED BY <3>8, <4>1, <4>2
    <3> QED BY <2>5, <3>9, <3>10, <3>11 DEF SizeInv
  <2> QED BY <1>6, <2>3, <2>4, <2>5 DEF AppendRecord
<1>7. CASE Return
  <2>1. /\ UNCHANGED <<dir, data, bytes, torn, file, fileOpen, faults>> /\ fileOpen
        /\ size' = size + Size(rec) /\ stage = "return" /\ stage' = "idle" /\ rec \in Records
    BY <1>7 DEF Return, HandleInv, fsVars, envVars, historyVars
  <2>2. Uncounted' = Uncounted /\ Counted' = Counted /\ Counted = size'
    BY <2>1 DEF Uncounted, Counted
  <2>3. size' \in Nat
    BY <2>1, Sizes, SizesAsNumbers, Numbers
  <2>4. Uncounted = MaxFaults - faults
    BY Numbers DEF TypeOK, Uncounted, TornSize
  <2>5. size' <= bytes /\ bytes <= MaxSize + 2 + Uncounted
    BY <2>1, <2>4, SizesAsNumbers
  <2>6. {bytes', size'} \subseteq 0 .. MaxSize + 2 + Uncounted'
    BY <2>1, <2>2, <2>3, <2>4, <2>5, SizesAsNumbers, Numbers
  <2>7. RotationBound'
    BY <2>1, SameLog
  <2> QED BY <2>1, <2>2, <2>6, <2>7 DEF SizeInv
<1>8. CASE Sync
  <2>1. /\ UNCHANGED <<dir, data, bytes, size, torn, file, fileOpen, stage, rec>>
        /\ (Fault \/ NoFault)
    BY <1>8 DEF Sync, fsVars, handleVars, callVars, historyVars
  <2> QED BY <2>1, FaultsCountDown, SizesKept
<1>9. CASE Close
  <2>1. /\ UNCHANGED <<dir, data, bytes, size, torn, stage, rec>> /\ (Fault \/ NoFault)
        /\ stage = "idle" /\ (fileOpen' => fileOpen)
    BY <1>9 DEF Close, fsVars, callVars, historyVars
  <2> QED BY <2>1, FaultsCountDown, SizesKept
<1>10. ASSUME NEW j \in DOMAIN jobs, JobStep(j) PROVE SizeInv'
  <2>1. /\ dir'[Log] = dir[Log] /\ (dir[Log] # None => data'[dir[Log]] = data[dir[Log]])
        /\ faults' \in 0 .. faults
    BY <1>10, JobStepEffect DEF JobEffect
  <2>2. JobFrame
    BY <1>10 DEF JobStep, JobOpen, JobCreate, JobCopy, JobVerify, JobRemove
  <2>3. UNCHANGED <<bytes, size, torn, file, fileOpen, stage, rec>>
    BY <2>2 DEF JobFrame, handleVars, callVars, historyVars
  <2> QED BY <2>1, <2>3, SizesKept
<1>11. CASE Tick
  <2>1. UNCHANGED <<dir, data, bytes, size, torn, file, fileOpen, stage, rec, faults>>
    BY <1>11 DEF Tick, fsVars, handleVars, callVars, historyVars
  <2> QED BY <1>2, <2>1, SizesKept
<1>12. CASE Crash
  <2>1. /\ UNCHANGED <<dir, data, bytes, torn, faults>> /\ size' = 0 /\ ~fileOpen'
        /\ stage' = "idle"
    BY <1>12 DEF Crash, Fail, fsVars, historyVars
  <2> QED BY <1>2, <2>1, SizesKept
<1>13. CASE Restart
  <2>1. stage = "idle" /\ stage' = "idle" /\ faults' = faults /\ torn' = torn
    BY <1>13 DEF Restart, callVars, envVars, historyVars, HandleInv
  <2>2. CASE dir[Log] = None
    BY <1>13, <2>1, <2>2, SizeOfNew DEF Restart
  <2>3. CASE dir[Log] # None
    <3>1. UNCHANGED <<dir, data, bytes>> /\ size' = bytes
      BY <1>13, <2>3 DEF Restart, fsVars
    <3>2. Uncounted' = Uncounted /\ Uncounted \in Nat /\ Counted' = bytes
      BY <2>1, <3>1, Numbers DEF Uncounted, TornSize, Counted, TypeOK
    <3>3. RotationBound'
      BY <2>1, <3>1, SameLog
    <3>4. {bytes', size'} \subseteq 0 .. MaxSize + 2 + Uncounted'
      BY <3>1, <3>2 DEF SizeInv
    <3>5. Counted' <= bytes' /\ bytes' <= Counted' + Uncounted'
      BY <3>1, <3>2, SizesAsNumbers
    <3> QED BY <2>1, <3>1, <3>2, <3>3, <3>4, <3>5 DEF SizeInv
  <2> QED BY <2>2, <2>3
<1>14. CASE UNCHANGED vars
  <2>1. UNCHANGED <<dir, data, bytes, size, torn, file, fileOpen, stage, rec, faults>>
    BY <1>14 DEF vars, fsVars, handleVars, callVars, envVars, historyVars
  <2> QED BY <1>2, <2>1, SizesKept
<1> QED BY <1>3, <1>4, <1>5, <1>6, <1>7, <1>8, <1>9, <1>10, <1>11, <1>12, <1>13, <1>14 DEF Next

-----------------------------------------------------------------------------
(* Type correctness, and the bound that rotation keeps. *)

\* The parts of TypeOK that most steps leave alone, and those that grow.
CallTypes ==
    /\ stage \in {"idle", "rename", "create", "append", "return"}
    /\ rec \in Records \cup {None}
    /\ accepted \in Seq(Records)
    /\ pending \subseteq Records
ClockTypes ==
    /\ now \in Seconds /\ rotated \in 0 .. now
    /\ {up, collided, torn} \subseteq BOOLEAN
    /\ synced \in {"none", "ok", "fault", "stale"}
    /\ crashes \in 0 .. MaxCrashes

LEMMA TypesByParts ==
    ASSUME TypeOK, SizeInv', faults' \in 0 .. faults, CallTypes', ClockTypes',
           fileOpen' \in BOOLEAN, data' \in Seq(Seq(Records)), dir' \in [Names -> Inodes'],
           jobs' \in Seq(Job'), file' \in Inodes'
    PROVE  TypeOK'
<1>1. faults' \in 0 .. MaxFaults
  BY Numbers DEF TypeOK
<1>2. {bytes', size'} \subseteq FileSizes
  <2>1. Uncounted' = MaxFaults - faults'
    BY <1>1, Numbers DEF Uncounted, TornSize
  <2>2. {bytes', size'} \subseteq 0 .. MaxSize + 2 + Uncounted'
    BY DEF SizeInv
  <2> QED BY <1>1, <2>1, <2>2, Numbers DEF FileSizes, TornSize
<1> QED BY <1>1, <1>2 DEF TypeOK, CallTypes, ClockTypes

LEMMA TypesNow ==
    ASSUME TypeOK
    PROVE  /\ CallTypes /\ ClockTypes /\ fileOpen \in BOOLEAN /\ data \in Seq(Seq(Records))
           /\ dir \in [Names -> Inodes] /\ jobs \in Seq(Job) /\ file \in Inodes
           /\ None \in Inodes /\ faults \in 0 .. faults
BY Numbers DEF TypeOK, CallTypes, ClockTypes, Inodes

\* A step that adds no inode.
LEMMA SameInodes ==
    ASSUME TypeOK, Inodes' = Inodes
    PROVE  Job' = Job
BY DEF Job

LEMMA TypeStep ==
    ASSUME TypeOK, HandleInv, NamesInv, SizeInv, [Next]_vars
    PROVE  TypeOK'
<1>1. SizeInv'
  BY SizeStep
<1>2. Fault \/ NoFault \/ faults' = faults => faults' \in 0 .. faults
  BY FaultsCountDown DEF NoFault
<1>3. UNCHANGED data => Inodes' = Inodes /\ Job' = Job
  BY DEF Inodes, Job
<1>4. CallTypes /\ ClockTypes
  BY TypesNow
<1>5. UNCHANGED callVars => CallTypes'
  BY <1>4 DEF callVars, CallTypes
<1>6. UNCHANGED <<up, now, rotated, collided, torn, synced, crashes>> => ClockTypes'
  BY <1>4 DEF ClockTypes
<1>7. ASSUME NEW r \in Records, WriteBegin(r) PROVE TypeOK'
  <2>1. UNCHANGED <<dir, data, jobs, file, up, now, rotated, collided, torn, synced, crashes>>
    BY <1>7 DEF WriteBegin, fsVars, historyVars
  <2>2. CallTypes'
    BY <1>4, <1>7 DEF WriteBegin, Fail, CallTypes
  <2>3. fileOpen' \in BOOLEAN /\ (Fault \/ NoFault)
    BY <1>7, TypesNow DEF WriteBegin
  <2> QED BY <1>1, <1>2, <1>3, <1>6, <2>1, <2>2, <2>3, TypesNow, TypesByParts
<1>8. CASE Rename
  <2>1. UNCHANGED <<data, file, fileOpen, pending, up, synced, now, torn, crashes>>
    BY <1>8 DEF Rename, handleVars
  <2>2. CallTypes' /\ (Fault \/ NoFault)
    BY <1>4, <1>8, <2>1 DEF Rename, Fail, CallTypes
  <2>3. rotated' \in {rotated, now} /\ collided' \in BOOLEAN
    BY <1>4, <1>8 DEF Rename, ClockTypes
  <2>4. ClockTypes'
    <3>1. now \in Nat /\ rotated \in 0 .. now
      BY <1>4, Numbers DEF ClockTypes, Seconds
    <3>2. rotated' \in 0 .. now'
      BY <2>1, <2>3, <3>1
    <3> QED BY <1>4, <2>1, <2>3, <3>2 DEF ClockTypes
  <2>5. dir' \in [Names -> Inodes']
    BY <1>3, <1>8, <2>1, TypesNow, NamesApart DEF Rename
  <2>6. jobs' \in Seq(Job')
    <3>1. PICK new : new = [second |-> now, stage |-> "open", source |-> None, gz |-> None]
      OBVIOUS
    <3>2. new \in Job
      BY <1>4, <3>1, TypesNow DEF Job, ClockTypes
    <3>3. jobs' = jobs \/ jobs' = Append(jobs, new)
      BY <1>8, <3>1 DEF Rename
    <3> QED BY <1>3, <2>1, <3>2, <3>3, TypesNow
  <2> QED BY <1>1, <1>2, <1>3, <2>1, <2>2, <2>4, <2>5, <2>6, TypesNow, TypesByParts
<1>9. ASSUME data' = Append(data, <<>>), dir' = [dir EXCEPT ![Log] = Len(data) + 1],
             file' = Len(data) + 1, fileOpen' = TRUE, jobs' = jobs, faults' = faults,
             CallTypes', ClockTypes'
      PROVE  TypeOK'
  <2>1. PICK x : x = Len(data) + 1
    OBVIOUS
  <2>2. data' \in Seq(Seq(Records)) /\ Inodes \subseteq Inodes' /\ x \in Inodes'
    BY <1>9, <2>1, NewFile
  <2>3. dir' \in [Names -> Inodes']
    BY <1>9, <2>1, <2>2, NewEntry, NamesApart
  <2>4. Job \subseteq Job'
    BY <2>2 DEF Job
  <2>5. jobs' \in Seq(Job')
    BY <1>9, <2>4, TypesNow
  <2> QED BY <1>1, <1>2, <1>9, <2>1, <2>2, <2>3, <2>5, TypesByParts
<1>10. CASE Create
  <2>1. ClockTypes'
    BY <1>6, <1>10 DEF Create, historyVars
  <2>2. CallTypes'
    BY <1>4, <1>10 DEF Create, Fail, CallTypes
  <2>3. CASE Fault /\ Fail /\ UNCHANGED <<fsVars, handleVars>>
    BY <1>1, <1>2, <1>3, <1>10, <2>1, <2>2, <2>3, TypesNow, TypesByParts DEF Create, fsVars, handleVars
  <2> QED BY <1>9, <1>10, <2>1, <2>2, <2>3 DEF Create, NoFault
<1>11. CASE AppendRecord
  <2>1. UNCHANGED <<dir, file, fileOpen, pending, jobs, up, synced, now, rotated, collided, crashes>>
    BY <1>11 DEF AppendRecord, handleVars
  <2>2. CallTypes' /\ (Fault \/ NoFault)
    BY <1>4, <1>11, <2>1 DEF AppendRecord, Fail, CallTypes
  <2>3. torn' \in BOOLEAN
    BY <1>4, <1>11 DEF AppendRecord, ClockTypes
  <2>4. ClockTypes'
    BY <1>4, <2>1, <2>3 DEF ClockTypes
  <2>5. data' \in Seq(Seq(Records)) /\ Inodes' = Inodes /\ Job' = Job
    <3>1. CASE data' = data
      BY <1>3, <3>1, TypesNow
    <3>2. CASE fileOpen /\ data' = [data EXCEPT ![file] = Append(@, rec)]
      <4>1. rec \in Records /\ file # None
        BY <1>11, <3>2 DEF HandleInv, AppendRecord
      <4>2. PICK i \in DOMAIN data : i = file
        BY <4>1, TypesNow DEF Inodes
      <4>3. Append(data[i], rec) \in Seq(Records)
        BY <4>1, TypesNow
      <4>4. data' \in Seq(Seq(Records)) /\ Inodes' = Inodes
        BY <3>2, <4>2, <4>3, NewContents
      <4> QED BY <4>4, SameInodes
    <3> QED BY <1>11, <3>1, <3>2 DEF AppendRecord
  <2> QED BY <1>1, <1>2, <2>1, <2>2, <2>4, <2>5, TypesNow, TypesByParts
<1>12. CASE Return
  <2>1. /\ UNCHANGED <<dir, data, jobs, file, fileOpen, pending, up, now, rotated, collided, torn,
                       synced, crashes, faults>>
        /\ stage' = "idle" /\ rec' = None /\ accepted' = Append(accepted, rec)
    BY <1>12 DEF Return, fsVars, envVars, historyVars
  <2>2. rec \in Records
    BY <1>12 DEF Return, HandleInv
  <2>3. CallTypes'
    BY <1>4, <2>1, <2>2 DEF CallTypes
  <2> QED BY <1>1, <1>2, <1>3, <1>6, <2>1, <2>3, TypesNow, TypesByParts
<1>13. CASE Sync
  <2>1. /\ UNCHANGED <<dir, data, jobs, file, fileOpen, callVars, up, now, rotated, collided, torn,
                       crashes>>
        /\ (Fault \/ NoFault) /\ synced' \in {"ok", "fault", "stale"}
    BY <1>13 DEF Sync, fsVars, handleVars, historyVars
  <2>2. ClockTypes'
    BY <1>4, <2>1 DEF ClockTypes
  <2> QED BY <1>1, <1>2, <1>3, <1>5, <2>1, <2>2, TypesNow, TypesByParts
<1>14. CASE Close
  <2>1. /\ UNCHANGED <<dir, data, jobs, callVars, up, now, rotated, collided, torn, synced, crashes>>
        /\ (Fault \/ NoFault) /\ fileOpen' \in BOOLEAN /\ file' \in {file, None}
    BY <1>14 DEF Close, fsVars, historyVars
  <2> QED BY <1>1, <1>2, <1>3, <1>5, <1>6, <2>1, TypesNow, TypesByParts
<1>15. ASSUME NEW j \in DOMAIN jobs, JobStep(j) PROVE TypeOK'
  <2>1. JobFrame
    BY <1>15 DEF JobStep, JobOpen, JobCreate, JobCopy, JobVerify, JobRemove
  <2>2. UNCHANGED <<file, fileOpen, callVars, up, now, rotated, collided, torn, synced, crashes>>
    BY <2>1 DEF JobFrame, handleVars, historyVars
  <2>3. /\ data' \in Seq(Seq(Records)) /\ Inodes \subseteq Inodes' /\ dir' \in [Names -> Inodes']
        /\ jobs' \in Seq(Job') /\ faults' \in 0 .. faults
    BY <1>15, JobStepEffect DEF JobEffect, JobMoves
  <2> QED BY <1>1, <1>5, <1>6, <2>2, <2>3, TypesNow, TypesByParts
<1>16. CASE Tick
  <2>1. /\ UNCHANGED <<dir, data, jobs, file, fileOpen, callVars, up, rotated, collided, torn, synced,
                       crashes, faults>>
        /\ now < MaxTime /\ now' = now + 1
    BY <1>16 DEF Tick, fsVars, handleVars, historyVars
  <2>2. now' \in Seconds /\ rotated' \in 0 .. now'
    BY <1>4, <2>1, Numbers DEF ClockTypes, Seconds
  <2>3. ClockTypes'
    BY <1>4, <2>1, <2>2 DEF ClockTypes
  <2> QED BY <1>1, <1>2, <1>3, <1>5, <2>1, <2>3, TypesNow, TypesByParts
<1>17. CASE Crash
  <2>1. /\ UNCHANGED <<dir, data, pending, now, rotated, collided, torn, synced, faults>>
        /\ file' = None /\ fileOpen' = FALSE /\ up' = FALSE /\ Fail
        /\ crashes > 0 /\ crashes' = crashes - 1
        /\ jobs' = [j \in DOMAIN jobs |-> [jobs[j] EXCEPT !.stage = "done"]]
    BY <1>17 DEF Crash, fsVars, historyVars
  <2>2. CallTypes'
    BY <1>4, <2>1 DEF CallTypes, Fail
  <2>3. crashes' \in 0 .. MaxCrashes
    BY <1>4, <2>1, Numbers DEF ClockTypes
  <2>4. ClockTypes'
    BY <1>4, <2>1, <2>3 DEF ClockTypes
  <2>5. jobs' \in Seq(Job)
    <3>1. \A j \in DOMAIN jobs : [jobs[j] EXCEPT !.stage = "done"] \in Job
      BY JobFields DEF Job
    <3>2. Len(jobs) \in Nat /\ DOMAIN jobs = 1 .. Len(jobs)
      BY TypesNow
    <3>3. jobs' \in [1 .. Len(jobs) -> Job]
      BY <2>1, <3>1, <3>2
    <3> QED BY <3>2, <3>3, SeqDef
  <2> QED BY <1>1, <1>2, <1>3, <2>1, <2>2, <2>4, <2>5, TypesNow, TypesByParts
<1>18. CASE Restart
  <2>1. /\ UNCHANGED <<callVars, jobs, now, rotated, collided, torn, synced, crashes, faults>>
        /\ up' = TRUE /\ fileOpen' = TRUE
    BY <1>18 DEF Restart, envVars, historyVars
  <2>2. ClockTypes'
    BY <1>4, <2>1 DEF ClockTypes
  <2>3. CASE dir[Log] = None
    BY <1>5, <1>9, <1>18, <2>1, <2>2, <2>3 DEF Restart
  <2>4. CASE dir[Log] # None
    <3>1. UNCHANGED <<dir, data>> /\ file' = dir[Log]
      BY <1>18, <2>4 DEF Restart, fsVars
    <3>2. file' \in Inodes
      BY <3>1, TypesNow, NamesApart
    <3> QED BY <1>1, <1>2, <1>3, <1>5, <2>1, <2>2, <3>1, <3>2, TypesNow, TypesByParts
  <2> QED BY <2>3, <2>4
<1>19. CASE UNCHANGED vars
  <2>1. UNCHANGED <<dir, data, jobs, file, fileOpen, callVars, up, now, rotated, collided, torn,
                    synced, crashes, faults>>
    BY <1>19 DEF vars, fsVars, handleVars, envVars, historyVars
  <2> QED BY <1>1, <1>2, <1>3, <1>5, <1>6, <2>1, TypesNow, TypesByParts
<1> QED BY <1>7, <1>8, <1>10, <1>11, <1>12, <1>13, <1>14, <1>15, <1>16, <1>17, <1>18, <1>19 DEF Next

BaseInv == TypeOK /\ HandleInv /\ NamesInv /\ SizeInv

LEMMA BaseInit == Init => BaseInv
<1> SUFFICES ASSUME Init PROVE BaseInv
  OBVIOUS
<1> USE DEF Init
<1>1. data \in Seq(Seq(Records)) /\ Inodes = {1, None} /\ dir \in [Names -> Inodes]
  <2>1. <<>> \in Seq(Records) /\ data = << <<>> >>
    OBVIOUS
  <2>2. data \in Seq(Seq(Records)) /\ DOMAIN data = {1}
    BY <2>1
  <2> QED BY <2>2 DEF Inodes
<1>2. jobs = <<>> /\ jobs \in Seq(Job) /\ accepted = <<>> /\ accepted \in Seq(Records)
  OBVIOUS
<1>3. Uncounted = 0 /\ Counted = 0 /\ bytes = 0 /\ size = 0
  BY Numbers DEF Uncounted, TornSize, Counted
<1>4. 0 \in FileSizes /\ {bytes, size} \subseteq FileSizes
  BY <1>3, Numbers DEF FileSizes, TornSize
<1>5. now \in Seconds /\ rotated \in 0 .. now /\ faults \in 0 .. MaxFaults /\ crashes \in 0 .. MaxCrashes
  BY Numbers DEF Seconds
<1>6. TypeOK
  BY <1>1, <1>2, <1>4, <1>5 DEF TypeOK
<1>7. \A m \in Names : dir[m] = IF m = Log THEN 1 ELSE None
  OBVIOUS
<1>8. HandleInv
  BY <1>7, NamesApart, Numbers DEF HandleInv
<1>9. NamesInv
  <2>1. \A j \in DOMAIN jobs : FALSE
    BY <1>2
  <2> QED BY <1>7, <2>1 DEF NamesInv
<1>10. RotationBound
  BY <1>3, Numbers DEF RotationBound, MaxSizeHolds
<1>11. SizeInv
  <2>1. {bytes, size} \subseteq 0 .. MaxSize + 2 + Uncounted
    BY <1>3, Numbers
  <2> QED BY <1>3, <1>10, <2>1 DEF SizeInv
<1> QED BY <1>6, <1>8, <1>9, <1>11 DEF BaseInv

LEMMA BaseStep == BaseInv /\ [Next]_vars => BaseInv'
BY TypeStep, HandleStep, NamesStep, SizeStep DEF BaseInv

LEMMA BaseInvariant == Spec => []BaseInv
BY BaseInit, BaseStep, PTL DEF Spec

\* Every variable keeps to its type; the size the writer counts and the size of
\* the file stay within what one record alone, or records within MaxSize, and
\* the remains of failed writes amount to.
THEOREM TypeCorrect == Spec => []TypeOK
<1>1. BaseInv => TypeOK
  BY DEF BaseInv
<1> QED BY <1>1, BaseInvariant, PTL

\* Rotation comes before the record that would not fit: after failed rotations,
\* restarts and steps of the compression goroutines too, a log of more than one
\* record is within MaxSize, unless a write has failed half way.
THEOREM RotationKeepsTheBound == Spec => []RotationBound
<1>1. BaseInv => RotationBound
  BY DEF BaseInv, SizeInv
<1> QED BY <1>1, BaseInvariant, PTL

-----------------------------------------------------------------------------
(* What a compression goroutine does to the backup of its second. *)

\* A step touches no file but those of second t.
Elsewhere(t) ==
    \A n \in Names \ {Backup(t), Gz(t)} :
        dir'[n] = dir[n] /\ (dir[n] # None => data'[dir[n]] = data[dir[n]])

\* What the names stand for.
LEMMA Entries ==
    ASSUME BaseInv, NEW n \in Names
    PROVE  /\ dir[n] \in Inodes /\ (dir[n] # None => dir[n] \in DOMAIN data)
           /\ \A i \in DOMAIN data : data[i] \in Seq(Records)
           /\ \A m \in Names : m # n /\ dir[n] # None => dir[m] # dir[n]
<1>1. dir \in [Names -> Inodes] /\ data \in Seq(Seq(Records))
  BY DEF BaseInv, TypeOK
<1>2. \A i \in DOMAIN data : data[i] \in Seq(Records)
  BY <1>1
<1> QED BY <1>1, <1>2 DEF BaseInv, NamesInv, Inodes

\* A .gz that is new holds, once written, what was copied.
LEMMA OverwriteNew ==
    ASSUME NEW new \in Seq(Records)
    PROVE  Overwrite(new, <<>>) = new
<1>1. Len(new) \in Nat /\ Len(<<>>) = 0
  OBVIOUS
<1>2. SubSeq(<<>>, Len(new) + 1, 0) = <<>>
  BY <1>1
<1>3. new \o <<>> = new
  OBVIOUS
<1> QED BY <1>1, <1>2, <1>3 DEF Overwrite

LEMMA JobTurn ==
    ASSUME BaseInv, JobInv, NEW j \in DOMAIN jobs, JobStep(j),
           NEW t \in Seconds, t = jobs[j].second
    PROVE  /\ JobMoves(j) /\ Elsewhere(t)
           /\ JobKeeps(jobs[j])' /\ BackupContents(t)' = BackupContents(t)
<1>1. TypeOK /\ NamesInv
  BY DEF BaseInv
<1>2. JobMoves(j) /\ jobs'[j].second = t
  BY <1>1, JobStepEffect DEF JobEffect, JobMoves
<1>3. JobKeeps(jobs[j])
  BY DEF JobInv
<1>4. /\ Backup(t) \in Names /\ Gz(t) \in Names /\ Backup(t) # Gz(t)
      /\ dir \in [Names -> Inodes]
  BY <1>1, NamesApart DEF TypeOK
<1>5. PICK backup, gz : backup = dir[Backup(t)] /\ gz = dir[Gz(t)]
  OBVIOUS
<1>6. jobs[j] \in Job
  BY <1>1, JobFields
<1>7. ASSUME UNCHANGED <<dir, data>>
      PROVE  Elsewhere(t) /\ BackupContents(t)' = BackupContents(t)
  BY <1>7 DEF Elsewhere, BackupContents, Contents
<1>8. ASSUME jobs'[j].stage = "done" PROVE JobKeeps(jobs[j])'
  BY <1>8 DEF JobKeeps
<1>9. ASSUME NEW s \in {"verify", "remove", "done"}, To(j, s)
      PROVE  jobs'[j].stage = s /\ jobs'[j].source = jobs[j].source /\ jobs'[j].gz = jobs[j].gz
  <2>1. jobs'[j] = [jobs[j] EXCEPT !.stage = s]
    BY <1>9 DEF To
  <2> QED BY <1>6, <2>1 DEF Job
<1>10. ASSUME backup # None, dir' = [dir EXCEPT ![Gz(t)] = None], data' = data, To(j, "done")
       PROVE  Elsewhere(t) /\ JobKeeps(jobs[j])' /\ BackupContents(t)' = BackupContents(t)
  <2>1. dir'[Backup(t)] = backup /\ \A n \in Names : n # Gz(t) => dir'[n] = dir[n]
    BY <1>4, <1>5, <1>10
  <2> QED BY <1>5, <1>8, <1>9, <1>10, <2>1 DEF Elsewhere, BackupContents, Contents
<1>11. CASE JobOpen(j)
  <2>1. dir' = dir /\ data' = data /\ jobs[j].stage = "open"
    BY <1>11 DEF JobOpen, At
  <2>2. CASE To(j, "done")
    BY <1>2, <1>7, <1>8, <1>9, <2>1, <2>2
  <2>3. CASE /\ backup # None
             /\ jobs' = [jobs EXCEPT ![j].stage = "create", ![j].source = backup]
    <3>1. jobs'[j].stage = "create" /\ jobs'[j].source = backup
      BY <1>6, <2>3 DEF Job
    <3>2. gz = None
      BY <1>3, <1>5, <2>1 DEF JobKeeps
    <3>3. JobKeeps(jobs[j])'
      BY <1>2, <1>5, <2>1, <2>3, <3>1, <3>2 DEF JobKeeps
    <3> QED BY <1>2, <1>7, <2>1, <3>3
  <2> QED BY <1>5, <1>11, <2>2, <2>3 DEF JobOpen
<1>12. CASE JobCreate(j)
  <2>1. jobs[j].stage = "create" /\ gz = None /\ backup # None /\ backup = jobs[j].source
    BY <1>3, <1>5, <1>12 DEF JobCreate, At, JobKeeps
  <2>2. CASE To(j, "done") /\ UNCHANGED <<dir, data>>
    BY <1>2, <1>7, <1>8, <1>9, <2>2
  <2>3. CASE /\ data' = Append(data, <<>>)
             /\ dir' = [dir EXCEPT ![Gz(t)] = Len(data) + 1]
             /\ jobs' = [jobs EXCEPT ![j].stage = "copy", ![j].gz = Len(data) + 1]
    <3>1. PICK x : x = Len(data) + 1
      OBVIOUS
    <3>2. /\ Inodes \subseteq Inodes' /\ x \in Inodes' /\ x \notin Inodes /\ data'[x] = <<>>
          /\ \A i \in DOMAIN data : data'[i] = data[i]
      BY <1>1, <2>3, <3>1, NewFile
    <3>3. dir'[Gz(t)] = x /\ \A n \in Names : n # Gz(t) => dir'[n] = dir[n]
      BY <1>1, <1>4, <2>3, <3>1, <3>2, NewEntry
    <3>4. jobs'[j].stage = "copy" /\ jobs'[j].source = backup /\ jobs'[j].gz = x
      BY <1>6, <2>1, <2>3, <3>1 DEF Job
    <3>5. x # None
      BY <3>2 DEF Inodes
    <3>6. dir'[Backup(t)] = backup /\ data'[backup] = data[backup]
      BY <1>4, <1>5, <2>1, <3>2, <3>3, Entries
    <3>7. JobKeeps(jobs[j])'
      BY <1>2, <2>1, <3>2, <3>3, <3>4, <3>5, <3>6 DEF JobKeeps
    <3>8. Elsewhere(t)
      BY <3>2, <3>3, Entries DEF Elsewhere
    <3>9. BackupContents(t)' = BackupContents(t)
      BY <1>5, <2>1, <3>6 DEF BackupContents, Contents
    <3> QED BY <1>2, <3>7, <3>8, <3>9
  <2> QED BY <1>5, <1>12, <2>1, <2>2, <2>3 DEF JobCreate
<1>13. CASE JobCopy(j)
  <2>1. /\ jobs[j].stage = "copy" /\ gz # None /\ gz = jobs[j].gz /\ data[gz] = <<>>
        /\ backup # None /\ backup = jobs[j].source
    BY <1>3, <1>5, <1>13 DEF JobCopy, At, JobKeeps
  <2>2. CASE RemoveGz(j) /\ UNCHANGED data
    BY <1>2, <1>10, <2>1, <2>2 DEF RemoveGz
  <2>3. CASE Compressed(j) /\ To(j, "verify") /\ UNCHANGED dir
    <3>1. gz \in DOMAIN data /\ backup \in DOMAIN data /\ backup # gz /\ data[backup] \in Seq(Records)
      BY <1>4, <1>5, <2>1, Entries
    <3>2. data' = [data EXCEPT ![gz] = data[backup]]
      <4>1. Overwrite(data[backup], data[gz]) = data[backup]
        BY <2>1, <3>1, OverwriteNew
      <4> QED BY <2>1, <2>3, <4>1 DEF Compressed
    <3>3. data'[gz] = data[backup] /\ \A i \in DOMAIN data : i # gz => data'[i] = data[i]
      BY <1>1, <3>1, <3>2, NewContents
    <3>4. JobKeeps(jobs[j])'
      BY <1>2, <1>5, <1>9, <2>1, <2>3, <3>1, <3>3 DEF JobKeeps
    <3>5. Elsewhere(t)
      <4> SUFFICES ASSUME NEW n \in Names, n # Gz(t), dir[n] # None
                   PROVE  data'[dir[n]] = data[dir[n]]
        BY <2>3 DEF Elsewhere
      <4>1. dir[n] \in DOMAIN data /\ dir[n] # gz
        BY <1>4, <1>5, <2>1, Entries
      <4> QED BY <3>3, <4>1
    <3>6. BackupContents(t)' = BackupContents(t)
      BY <1>5, <2>1, <2>3, <3>1, <3>3 DEF BackupContents, Contents
    <3> QED BY <1>2, <3>4, <3>5, <3>6
  <2> QED BY <1>13, <2>2, <2>3 DEF JobCopy
<1>14. CASE JobVerify(j)
  <2>1. /\ jobs[j].stage = "verify" /\ gz # None /\ gz = jobs[j].gz
        /\ backup # None /\ data[gz] = data[backup] /\ data' = data
    BY <1>3, <1>5, <1>14 DEF JobVerify, At, JobKeeps
  <2>2. CASE RemoveGz(j)
    BY <1>2, <1>10, <2>1, <2>2 DEF RemoveGz
  <2>3. CASE To(j, "done") /\ UNCHANGED dir
    BY <1>2, <1>7, <1>8, <1>9, <2>1, <2>3
  <2>4. CASE To(j, "remove") /\ UNCHANGED dir
    <3>1. JobKeeps(jobs[j])'
      BY <1>2, <1>5, <1>9, <2>1, <2>4 DEF JobKeeps
    <3> QED BY <1>2, <1>7, <2>1, <2>4, <3>1
  <2> QED BY <1>14, <2>2, <2>3, <2>4 DEF JobVerify
<1>15. CASE JobRemove(j)
  <2>1. /\ jobs[j].stage = "remove" /\ gz # None
        /\ backup # None /\ data[gz] = data[backup] /\ data' = data
    BY <1>3, <1>5, <1>15 DEF JobRemove, At, JobKeeps
  <2>2. CASE RemoveGz(j)
    BY <1>2, <1>10, <2>1, <2>2 DEF RemoveGz
  <2>3. CASE dir' = [dir EXCEPT ![Backup(t)] = None] /\ To(j, "done")
    <3>1. dir'[Backup(t)] = None /\ \A n \in Names : n # Backup(t) => dir'[n] = dir[n]
      BY <1>4, <2>3
    <3>2. dir'[Gz(t)] = gz
      BY <1>4, <1>5, <3>1
    <3>3. BackupContents(t)' = BackupContents(t)
      BY <1>5, <2>1, <3>1, <3>2 DEF BackupContents, Contents
    <3> QED BY <1>2, <1>8, <1>9, <2>1, <2>3, <3>1, <3>3 DEF Elsewhere
  <2> QED BY <1>15, <2>2, <2>3 DEF JobRemove
<1> QED BY <1>2, <1>11, <1>12, <1>13, <1>14, <1>15 DEF JobStep

-----------------------------------------------------------------------------
(* Three kinds of steps: those that leave the backups alone, the rename of a *)
(* rotation, and those of the compression goroutines.                       *)

QuietStep ==
    /\ \A n \in Names \ {Log} :
          dir'[n] = dir[n] /\ (dir[n] # None => data'[dir[n]] = data[dir[n]])
    /\ rotated' = rotated
    /\ DOMAIN jobs' = DOMAIN jobs
    /\ \A j \in DOMAIN jobs : /\ jobs'[j].second = jobs[j].second
                              /\ jobs'[j] = jobs[j] \/ jobs'[j].stage = "done"

Moved == Rename /\ stage' = "create"

LEMMA QuietNew ==
    ASSUME BaseInv, data' = Append(data, <<>>), dir' = [dir EXCEPT ![Log] = Len(data) + 1],
           UNCHANGED <<rotated, jobs>>
    PROVE  /\ QuietStep
           /\ dir'[Log] # None /\ data'[dir'[Log]] = <<>>
<1>1. PICK x : x = Len(data) + 1
  OBVIOUS
<1>2. TypeOK
  BY DEF BaseInv
<1>3. /\ Inodes \subseteq Inodes' /\ x \in Inodes' /\ x \notin Inodes /\ data'[x] = <<>>
      /\ \A i \in DOMAIN data : data'[i] = data[i]
  BY <1>1, <1>2, NewFile
<1>4. dir'[Log] = x /\ \A n \in Names : n # Log => dir'[n] = dir[n]
  BY <1>1, <1>2, <1>3, NewEntry, NamesApart
<1>5. x # None
  BY <1>3 DEF Inodes
<1>6. QuietStep
  BY <1>3, <1>4, Entries DEF QuietStep
<1> QED BY <1>3, <1>4, <1>5, <1>6

LEMMA QuietSame ==
    ASSUME UNCHANGED <<dir, data, rotated, jobs>>
    PROVE  QuietStep
BY DEF QuietStep

LEMMA AppendQuiet ==
    ASSUME BaseInv, AppendRecord
    PROVE  QuietStep
<1>1. TypeOK /\ HandleInv
  BY DEF BaseInv
<1>2. UNCHANGED <<dir, jobs, rotated>>
  BY DEF AppendRecord
<1>3. CASE data' = data
  BY <1>2, <1>3, QuietSame
<1>4. CASE fileOpen /\ data' = [data EXCEPT ![file] = Append(@, rec)]
  <2>1. rec \in Records /\ file # None /\ dir[Log] = file
    BY <1>1, <1>4 DEF HandleInv, AppendRecord
  <2>2. file \in DOMAIN data /\ Append(data[file], rec) \in Seq(Records)
    BY <2>1, NamesApart, Entries
  <2>3. \A i \in DOMAIN data : i # file => data'[i] = data[i]
    BY <1>1, <1>4, <2>2, NewContents
  <2>4. \A n \in Names \ {Log} : dir[n] # None => dir[n] \in DOMAIN data /\ dir[n] # file
    BY <2>1, NamesApart, Entries
  <2> QED BY <1>2, <2>3, <2>4 DEF QuietStep
<1> QED BY <1>3, <1>4 DEF AppendRecord

LEMMA StepKinds ==
    ASSUME BaseInv, [Next]_vars
    PROVE  QuietStep \/ Moved \/ \E j \in DOMAIN jobs : JobStep(j)
<1>1. TypeOK /\ HandleInv
  BY DEF BaseInv
<1>2. ASSUME NEW r \in Records, WriteBegin(r) PROVE QuietStep
  BY <1>2, QuietSame DEF WriteBegin, fsVars, historyVars
<1>3. CASE Rename
  <2>1. stage' # "create" => UNCHANGED <<dir, data, rotated, jobs>>
    BY <1>3 DEF Rename, Fail
  <2> QED BY <1>3, <2>1, QuietSame DEF Moved
<1>4. CASE Create
  BY <1>4, QuietSame, QuietNew DEF Create, fsVars, historyVars
<1>5. CASE AppendRecord
  BY <1>5, AppendQuiet
<1>6. Return \/ Sync \/ Close \/ Tick \/ UNCHANGED vars => QuietStep
  BY QuietSame DEF Return, Sync, Close, Tick, vars, fsVars, envVars, historyVars
<1>7. CASE Crash
  <2>1. /\ UNCHANGED <<dir, data, rotated>>
        /\ jobs' = [j \in DOMAIN jobs |-> [jobs[j] EXCEPT !.stage = "done"]]
    BY <1>7 DEF Crash, fsVars, historyVars
  <2>2. \A j \in DOMAIN jobs : jobs[j] \in Job
    BY <1>1, JobFields
  <2>3. \A j \in DOMAIN jobs : jobs'[j].stage = "done" /\ jobs'[j].second = jobs[j].second
    BY <2>1, <2>2 DEF Job
  <2>4. DOMAIN jobs' = DOMAIN jobs
    BY <2>1
  <2> QED BY <2>1, <2>3, <2>4 DEF QuietStep
<1>8. CASE Restart
  BY <1>8, QuietSame, QuietNew DEF Restart, fsVars, envVars, historyVars
<1> QED BY <1>2, <1>3, <1>4, <1>5, <1>6, <1>7, <1>8 DEF Next

LEMMA QuietBackups ==
    ASSUME QuietStep, NEW t \in Seconds
    PROVE  BackupContents(t)' = BackupContents(t)
BY NamesApart DEF QuietStep, BackupContents, Contents

\* The rename of a rotation, as the names and the jobs see it.
LEMMA MovedNames ==
    ASSUME BaseInv, Moved
    PROVE  /\ dir[Log] # None /\ dir'[Log] = None /\ dir'[Backup(now)] = dir[Log]
           /\ \A n \in Names : n \notin {Log, Backup(now)} => dir'[n] = dir[n]
           /\ UNCHANGED <<data, accepted, pending, rec>> /\ stage = "rename"
           /\ rotated' = now /\ now' = now /\ now \in Seconds
           /\ collided' = (collided \/ rotated = now)
<1>1. TypeOK /\ HandleInv
  BY DEF BaseInv
<1>2. /\ dir' = [dir EXCEPT ![Backup(now)] = dir[Log], ![Log] = None]
      /\ UNCHANGED <<data, accepted, pending, rec>> /\ stage = "rename"
      /\ rotated' = now /\ now' = now /\ collided' = (collided \/ rotated = now)
  BY DEF Moved, Rename, Fail
<1>3. now \in Seconds /\ dir \in [Names -> Inodes]
  BY <1>1 DEF TypeOK
<1>4. dir[Log] # None
  BY <1>1, <1>2 DEF HandleInv
<1> QED BY <1>2, <1>3, <1>4, NamesApart

LEMMA JobInvStep ==
    ASSUME BaseInv, JobInv, [Next]_vars, ~collided'
    PROVE  JobInv'
<1>1. TypeOK
  BY DEF BaseInv
<1>2. \A j \in DOMAIN jobs : jobs[j].second \in Seconds
  BY <1>1, JobFields
<1>3. CASE QuietStep
  <2>1. \A t \in Seconds : t > rotated' => dir'[Backup(t)] = None /\ dir'[Gz(t)] = None
    BY <1>3, NamesApart DEF QuietStep, JobInv
  <2>2. ASSUME NEW j \in DOMAIN jobs PROVE JobKeeps(jobs[j])'
    <3>1. CASE jobs'[j].stage = "done"
      BY <3>1 DEF JobKeeps
    <3>2. CASE jobs'[j] = jobs[j]
      <4>1. PICK t \in Seconds : t = jobs[j].second
        BY <1>2
      <4>2. /\ dir'[Backup(t)] = dir[Backup(t)] /\ dir'[Gz(t)] = dir[Gz(t)]
            /\ dir[Backup(t)] # None => data'[dir[Backup(t)]] = data[dir[Backup(t)]]
            /\ dir[Gz(t)] # None => data'[dir[Gz(t)]] = data[dir[Gz(t)]]
        BY <1>3, NamesApart DEF QuietStep
      <4>3. JobKeeps(jobs[j])
        BY DEF JobInv
      <4> QED BY <3>2, <4>1, <4>2, <4>3 DEF JobKeeps
    <3> QED BY <1>3, <3>1, <3>2 DEF QuietStep
  <2>3. DOMAIN jobs' = DOMAIN jobs /\ \A j \in DOMAIN jobs : jobs'[j].second = jobs[j].second
    BY <1>3 DEF QuietStep
  <2> QED BY <1>3, <2>1, <2>2, <2>3 DEF JobInv, QuietStep
<1>4. CASE Moved
  <2>1. rotated < now /\ rotated' = now /\ now \in Seconds
    <3>1. rotated \in 0 .. now /\ now \in Nat
      BY <1>1, Numbers DEF TypeOK, Seconds
    <3>2. collided' = (collided \/ rotated = now) /\ rotated' = now
      BY <1>4, MovedNames
    <3>3. rotated # now
      BY <3>2, Zenon
    <3>4. now \in Seconds
      BY <1>1 DEF TypeOK
    <3> QED BY <3>1, <3>2, <3>3, <3>4
  <2>2. /\ \A u \in Seconds : dir'[Gz(u)] = dir[Gz(u)] /\ (u # now => dir'[Backup(u)] = dir[Backup(u)])
        /\ data' = data
    BY <1>4, <2>1, MovedNames, NamesApart
  <2>3. \A u \in Seconds : u > now => u > rotated /\ u # now
    BY <1>1, <2>1, Numbers DEF TypeOK, Seconds
  <2>4. \A u \in Seconds : u > rotated' => dir'[Backup(u)] = None /\ dir'[Gz(u)] = None
    BY <2>1, <2>2, <2>3 DEF JobInv
  <2>5. ASSUME NEW i \in DOMAIN jobs, jobs'[i] = jobs[i]
        PROVE  /\ JobKeeps(jobs[i])' /\ jobs'[i].second # now
               /\ jobs'[i].second <= rotated'
    <3>1. PICK u \in Seconds : u = jobs[i].second
      BY <1>2
    <3>2. u <= rotated /\ rotated \in Nat /\ now \in Nat
      BY <1>1, <3>1, Numbers DEF JobInv, TypeOK, Seconds
    <3>3. u # now /\ u <= now
      BY <2>1, <3>1, <3>2, Numbers DEF Seconds
    <3>4. JobKeeps(jobs[i])
      BY DEF JobInv
    <3>5. dir'[Backup(u)] = dir[Backup(u)] /\ dir'[Gz(u)] = dir[Gz(u)] /\ data' = data
      BY <2>2, <3>3
    <3>6. JobKeeps(jobs[i])'
      BY <2>5, <3>1, <3>4, <3>5 DEF JobKeeps
    <3> QED BY <2>1, <2>5, <3>1, <3>3, <3>6
  <2>6. PICK new : new = [second |-> now, stage |-> "open", source |-> None, gz |-> None]
    OBVIOUS
  <2>7. jobs' = jobs \/ jobs' = Append(jobs, new)
    BY <1>4, <2>6 DEF Moved, Rename, Fail
  <2>8. jobs \in Seq(Job)
    BY <1>1 DEF TypeOK
  <2>9. CASE jobs' = jobs
    <3>1. \A i \in DOMAIN jobs : JobKeeps(jobs[i])' /\ jobs'[i].second <= rotated'
      BY <2>5, <2>9
    <3> QED BY <2>4, <2>9, <3>1 DEF JobInv
  <2>10. CASE jobs' = Append(jobs, new)
    <3>1. /\ Len(jobs) \in Nat /\ DOMAIN jobs = 1 .. Len(jobs) /\ DOMAIN jobs' = 1 .. Len(jobs) + 1
          /\ \A i \in DOMAIN jobs : jobs'[i] = jobs[i]
          /\ jobs'[Len(jobs) + 1] = new
      BY <2>8, <2>10
    <3>2. PICK n : n = Len(jobs) + 1
      OBVIOUS
    <3>3. /\ \A i \in DOMAIN jobs' : i \in DOMAIN jobs \/ i = n
          /\ jobs'[n] = new /\ n \in DOMAIN jobs'
      BY <3>1, <3>2
    <3>4. JobKeeps(jobs[n])'
      <4>1. dir'[Gz(now)] = None
        <5>1. now > rotated
          BY <1>1, <2>1, Numbers DEF TypeOK, Seconds
        <5> QED BY <2>1, <2>2, <5>1 DEF JobInv
      <4>2. jobs'[n].second = now /\ jobs'[n].stage = "open" /\ now' = now
        BY <1>4, <2>6, <3>3, MovedNames
      <4> QED BY <4>1, <4>2 DEF JobKeeps
    <3>5. jobs'[n].second = now /\ now <= rotated'
      BY <2>1, <2>6, <3>3, Numbers DEF Seconds
    <3>6. \A i \in DOMAIN jobs' : JobKeeps(jobs[i])' /\ jobs'[i].second <= rotated'
      BY <2>5, <3>1, <3>3, <3>4, <3>5
    <3>7. \A i, k \in DOMAIN jobs' : i # k => jobs'[i].second # jobs'[k].second
      BY <2>5, <3>1, <3>3, <3>5 DEF JobInv
    <3> QED BY <2>4, <3>6, <3>7 DEF JobInv
  <2> QED BY <2>7, <2>9, <2>10
<1>5. ASSUME NEW j \in DOMAIN jobs, JobStep(j) PROVE JobInv'
  <2>1. PICK t \in Seconds : t = jobs[j].second
    BY <1>2
  <2>2. JobMoves(j) /\ Elsewhere(t) /\ JobKeeps(jobs[j])'
    BY <1>5, <2>1, JobTurn
  <2>3. rotated' = rotated
    BY <1>5 DEF JobStep, JobOpen, JobCreate, JobCopy, JobVerify, JobRemove, JobFrame, historyVars
  <2>4. DOMAIN jobs' = DOMAIN jobs /\ \A i \in DOMAIN jobs : jobs'[i].second = jobs[i].second
    BY <2>2 DEF JobMoves
  <2>5. t <= rotated
    BY <2>1 DEF JobInv
  <2>6. \A u \in Seconds : u # t => Backup(u) \in Names \ {Backup(t), Gz(t)}
                                   /\ Gz(u) \in Names \ {Backup(t), Gz(t)}
    BY <2>1, NamesApart
  <2>7. ASSUME NEW u \in Seconds, u > rotated'
        PROVE  dir'[Backup(u)] = None /\ dir'[Gz(u)] = None
    <3>1. u # t /\ u > rotated
      BY <1>1, <2>3, <2>5, <2>7, Numbers DEF TypeOK, Seconds
    <3> QED BY <2>2, <2>6, <3>1 DEF Elsewhere, JobInv
  <2>8. ASSUME NEW i \in DOMAIN jobs, i # j PROVE JobKeeps(jobs[i])'
    <3>1. jobs'[i] = jobs[i] /\ JobKeeps(jobs[i])
      BY <2>2, <2>8 DEF JobMoves, JobInv
    <3>2. PICK u \in Seconds : u = jobs[i].second
      BY <1>2
    <3>3. u # t
      BY <2>1, <2>8, <3>2 DEF JobInv
    <3>4. /\ dir'[Backup(u)] = dir[Backup(u)] /\ dir'[Gz(u)] = dir[Gz(u)]
          /\ dir[Backup(u)] # None => data'[dir[Backup(u)]] = data[dir[Backup(u)]]
          /\ dir[Gz(u)] # None => data'[dir[Gz(u)]] = data[dir[Gz(u)]]
      BY <2>2, <2>6, <3>3 DEF Elsewhere
    <3> QED BY <3>1, <3>2, <3>4 DEF JobKeeps
  <2>9. \A i \in DOMAIN jobs : JobKeeps(jobs[i])'
    BY <2>2, <2>8
  <2> QED BY <2>3, <2>4, <2>7, <2>9 DEF JobInv
<1> QED BY <1>3, <1>4, <1>5, StepKinds

-----------------------------------------------------------------------------
(* What can be read back. *)

Last == MaxTime + 1

LEMMA LogIsLast ==
    /\ Last \in Shelves /\ Last \notin Seconds /\ Shelves = Seconds \cup {Last}
    /\ \A t \in Seconds : t < Last
    /\ Shelf(Last) = Contents(Log) /\ \A t \in Seconds : Shelf(t) = BackupContents(t)
<1>1. /\ Last \in Shelves /\ Last \notin Seconds /\ Shelves = Seconds \cup {Last}
      /\ \A t \in Seconds : t < Last
  BY Numbers DEF Last, Shelves, Seconds
<1> QED BY <1>1 DEF Shelf

LEMMA ShelfTypes ==
    ASSUME BaseInv, NEW t \in Shelves
    PROVE  Shelf(t) \in Seq(Records)
<1>1. \A n \in Names : Contents(n) \in Seq(Records)
  BY Entries DEF Contents
<1>2. \A u \in Seconds : BackupContents(u) \in Seq(Records)
  BY <1>1, NamesApart DEF BackupContents
<1>3. Contents(Log) \in Seq(Records)
  BY <1>1, NamesApart
<1> QED BY <1>2, <1>3 DEF Shelf

\* A step that leaves every file readable as it was.
LEMMA KeepSame ==
    ASSUME KeepInv, accepted' = accepted, pending' \subseteq pending,
           \A t \in Shelves : Shelf(t)' = Shelf(t),
           stage' # "idle" =>
              \/ stage = "idle" /\ stage' # "return" /\ rec' \in pending \ pending'
              \/ stage # "idle" /\ rec' = rec /\ (stage = "return") = (stage' = "return"),
           stage \in {"idle", "rename", "create", "append", "return"},
           stage' \in {"idle", "rename", "create", "append", "return"}
    PROVE  KeepInv'
<1>1. Found' /\ FoundOnce' /\ FoundInOrder'
  BY DEF KeepInv, Found, FoundOnce, FoundInOrder
<1>2. ASSUME NEW t \in Shelves, NEW k \in DOMAIN Shelf(t)
      PROVE  /\ Shelf(t)[k] \notin pending'
             /\ stage' \in {"rename", "create", "append"} => Shelf(t)[k] # rec'
  BY <1>2 DEF KeepInv
<1>3. ASSUME NEW i \in DOMAIN accepted
      PROVE  accepted[i] \notin pending' /\ (stage' # "idle" => accepted[i] # rec')
  BY <1>3 DEF KeepInv
<1>4. stage' = "return" => LET log == Contents(Log)' IN log # <<>> /\ log[Len(log)] = rec'
  <2>1. Contents(Log)' = Contents(Log)
    <3>1. Shelf(Last)' = Shelf(Last)
      BY LogIsLast
    <3>2. Shelf(Last)' = Contents(Log)'
      BY LogIsLast DEF Shelf
    <3> QED BY <3>1, <3>2, LogIsLast
  <2> QED BY <2>1 DEF KeepInv
<1> QED BY <1>1, <1>2, <1>3, <1>4 DEF KeepInv

\* A record arrives at the end of the log.
LEMMA KeepAppend ==
    ASSUME BaseInv, KeepInv, stage = "append", stage' = "return", rec \in Records \ pending,
           UNCHANGED <<accepted, pending, rec>>,
           \A t \in Seconds : Shelf(t)' = Shelf(t), Shelf(Last)' = Append(Shelf(Last), rec)
    PROVE  KeepInv'
<1>1. PICK n : n = Len(Shelf(Last)) + 1
  OBVIOUS
<1>2. /\ Shelf(Last)' \in Seq(Records) /\ Len(Shelf(Last)') = n /\ n \in Nat \ {0}
      /\ DOMAIN Shelf(Last)' = DOMAIN Shelf(Last) \cup {n} /\ n \notin DOMAIN Shelf(Last)
      /\ Shelf(Last)'[n] = rec
      /\ \A k \in DOMAIN Shelf(Last) : Shelf(Last)'[k] = Shelf(Last)[k]
  <2>1. PICK old \in Seq(Records) : old = Shelf(Last)
    BY ShelfTypes, LogIsLast
  <2>2. PICK new : new = Append(old, rec)
    OBVIOUS
  <2>3. /\ new \in Seq(Records) /\ Len(new) = Len(old) + 1 /\ new[Len(old) + 1] = rec
        /\ \A k \in 1 .. Len(old) : new[k] = old[k]
        /\ Len(old) \in Nat /\ DOMAIN old = 1 .. Len(old)
    BY <2>1, <2>2, AppendProperties
  <2>4. DOMAIN new = DOMAIN old \cup {Len(old) + 1} /\ Len(old) + 1 \notin DOMAIN old
    BY <2>3
  <2> QED BY <1>1, <2>1, <2>2, <2>3, <2>4
<1>3. \A t \in Shelves : \A k \in DOMAIN Shelf(t) :
         k \in DOMAIN Shelf(t)' /\ Shelf(t)'[k] = Shelf(t)[k]
  BY <1>2, LogIsLast
<1>4. \A t \in Shelves : \A k \in DOMAIN Shelf(t)' :
         \/ k \in DOMAIN Shelf(t) /\ Shelf(t)'[k] = Shelf(t)[k]
         \/ t = Last /\ k = n /\ Shelf(t)'[k] = rec
  BY <1>2, LogIsLast
<1>5. \A t \in Shelves : \A k \in DOMAIN Shelf(t) : Shelf(t)[k] # rec /\ Shelf(t)[k] \notin pending
  BY DEF KeepInv
<1>6. \A i \in DOMAIN accepted : accepted[i] # rec /\ accepted[i] \notin pending
  BY DEF KeepInv
<1>7. Found'
  BY <1>3 DEF KeepInv, Found
<1>8. FoundOnce'
  <2> SUFFICES ASSUME NEW t \in Shelves, NEW u \in Shelves,
                      NEW k, k \in DOMAIN Shelf(t)', NEW l, l \in DOMAIN Shelf(u)',
                      Shelf(t)'[k] = Shelf(u)'[l]
               PROVE  t = u /\ k = l
    BY DEF FoundOnce
  <2>1. FoundOnce
    BY DEF KeepInv
  <2>2. CASE Shelf(t)'[k] = rec
    <3>1. t = Last /\ k = n
      BY <1>4, <1>5, <2>2
    <3>2. u = Last /\ l = n
      BY <1>4, <1>5, <2>2
    <3> QED BY <3>1, <3>2
  <2>3. CASE Shelf(t)'[k] # rec
    BY <1>4, <2>1, <2>3 DEF FoundOnce
  <2> QED BY <2>2, <2>3
<1>9. FoundInOrder'
  <2> SUFFICES ASSUME NEW i \in DOMAIN accepted, NEW j \in DOMAIN accepted,
                      NEW t \in Shelves, NEW u \in Shelves,
                      NEW k, k \in DOMAIN Shelf(t)', NEW l, l \in DOMAIN Shelf(u)',
                      Shelf(t)'[k] = accepted[i], Shelf(u)'[l] = accepted[j], i < j
               PROVE  t < u \/ (t = u /\ k < l)
    BY DEF FoundInOrder
  <2>1. /\ k \in DOMAIN Shelf(t) /\ Shelf(t)[k] = accepted[i]
        /\ l \in DOMAIN Shelf(u) /\ Shelf(u)[l] = accepted[j]
    BY <1>4, <1>6
  <2> QED BY <2>1 DEF KeepInv, FoundInOrder
<1>10. \A t \in Shelves : \A k \in DOMAIN Shelf(t)' : Shelf(t)'[k] \notin pending'
  BY <1>4, <1>5
<1>11. LET log == Contents(Log)' IN log # <<>> /\ log[Len(log)] = rec'
  <2>1. Contents(Log)' = Shelf(Last)'
    BY LogIsLast DEF Shelf
  <2> QED BY <1>2, <2>1
<1> QED BY <1>6, <1>7, <1>8, <1>9, <1>10, <1>11 DEF KeepInv

\* The record at the end of the log is accepted.
LEMMA KeepReturn ==
    ASSUME BaseInv, KeepInv, stage = "return", stage' = "idle", rec \in Records \ pending,
           accepted' = Append(accepted, rec), pending' = pending,
           \A t \in Shelves : Shelf(t)' = Shelf(t)
    PROVE  KeepInv'
<1>1. PICK m : m = Len(accepted) + 1
  OBVIOUS
<1>2. /\ m \in Nat \ {0} /\ DOMAIN accepted = 1 .. m - 1 /\ DOMAIN accepted' = 1 .. m
      /\ accepted'[m] = rec /\ \A i \in DOMAIN accepted : accepted'[i] = accepted[i]
  <2>1. accepted \in Seq(Records)
    BY DEF BaseInv, TypeOK
  <2> QED BY <1>1, <2>1
<1>3. \A i \in DOMAIN accepted' : i \in DOMAIN accepted \/ i = m
  BY <1>2
<1>4. PICK e : /\ e \in DOMAIN Shelf(Last) /\ Shelf(Last)[e] = rec
               /\ \A k \in DOMAIN Shelf(Last) : k <= e
  <2>1. PICK log \in Seq(Records) : log = Contents(Log)
    BY ShelfTypes, LogIsLast
  <2>2. log # <<>> /\ log[Len(log)] = rec
    BY <2>1 DEF KeepInv
  <2>3. Len(log) \in DOMAIN log /\ \A k \in DOMAIN log : k <= Len(log)
    BY <2>1, <2>2
  <2> QED BY <2>1, <2>2, <2>3, LogIsLast
<1>5. Found'
  <2> SUFFICES ASSUME NEW i \in DOMAIN accepted'
               PROVE  \E t \in Shelves : \E k \in DOMAIN Shelf(t) : Shelf(t)[k] = accepted'[i]
    BY DEF Found
  <2>1. CASE i = m
    BY <1>2, <1>4, <2>1, LogIsLast
  <2>2. CASE i \in DOMAIN accepted
    BY <1>2, <2>2 DEF KeepInv, Found
  <2> QED BY <1>3, <2>1, <2>2
<1>6. FoundOnce'
  BY DEF KeepInv, FoundOnce
<1>7. FoundInOrder'
  <2> SUFFICES ASSUME NEW i \in DOMAIN accepted', NEW j \in DOMAIN accepted',
                      NEW t \in Shelves, NEW u \in Shelves,
                      NEW k \in DOMAIN Shelf(t), NEW l \in DOMAIN Shelf(u),
                      Shelf(t)[k] = accepted'[i], Shelf(u)[l] = accepted'[j], i < j
               PROVE  t < u \/ (t = u /\ k < l)
    BY DEF FoundInOrder
  <2>1. i \in DOMAIN accepted /\ accepted'[i] = accepted[i]
    BY <1>2
  <2>2. CASE j \in DOMAIN accepted
    BY <1>2, <2>1, <2>2 DEF KeepInv, FoundInOrder
  <2>3. CASE j = m
    <3>1. u = Last /\ l = e
      BY <1>2, <1>4, <2>3, LogIsLast DEF KeepInv, FoundOnce
    <3>2. Shelf(t)[k] # rec
      BY <2>1 DEF KeepInv
    <3>3. CASE t = Last
      <4>1. k # e /\ k <= e
        BY <1>4, <3>2, <3>3
      <4>2. k \in Nat /\ e \in Nat
        BY <1>4, <3>3, ShelfTypes, LogIsLast
      <4> QED BY <3>1, <3>3, <4>1, <4>2
    <3>4. CASE t # Last
      BY <3>1, <3>4, LogIsLast
    <3> QED BY <3>3, <3>4
  <2> QED BY <1>3, <2>2, <2>3
<1>8. ASSUME NEW t \in Shelves, NEW k, k \in DOMAIN Shelf(t)'
      PROVE  Shelf(t)'[k] \notin pending'
  <2>1. k \in DOMAIN Shelf(t) /\ Shelf(t)'[k] = Shelf(t)[k]
    BY <1>8
  <2>2. Shelf(t)[k] \notin pending
    BY <2>1 DEF KeepInv
  <2> QED BY <2>1, <2>2
<1>9. \A i \in DOMAIN accepted' : accepted'[i] \notin pending'
  BY <1>2, <1>3 DEF KeepInv
<1> QED BY <1>5, <1>6, <1>7, <1>8, <1>9 DEF KeepInv

\* The log becomes the backup of a second later than every other backup.
LEMMA KeepMoved ==
    ASSUME BaseInv, KeepInv, stage = "rename", stage' = "create",
           UNCHANGED <<accepted, pending, rec>>,
           NEW now1 \in Seconds, Shelf(now1)' = Shelf(Last), Shelf(Last)' = <<>>,
           \A t \in Seconds : t # now1 => Shelf(t)' = Shelf(t),
           \A t \in Seconds : t >= now1 => Shelf(t) = <<>>
    PROVE  KeepInv'
<1>1. \A t \in Shelves : \A k \in DOMAIN Shelf(t)' :
         \/ t = now1 /\ k \in DOMAIN Shelf(Last) /\ Shelf(t)'[k] = Shelf(Last)[k]
         \/ t \in Seconds /\ t < now1 /\ k \in DOMAIN Shelf(t) /\ Shelf(t)'[k] = Shelf(t)[k]
  <2> SUFFICES ASSUME NEW t \in Shelves, NEW k, k \in DOMAIN Shelf(t)', t # now1
               PROVE  /\ t \in Seconds /\ t < now1
                      /\ k \in DOMAIN Shelf(t) /\ Shelf(t)'[k] = Shelf(t)[k]
    OBVIOUS
  <2>1. DOMAIN <<>> = {}
    OBVIOUS
  <2>2. t \in Seconds
    BY <2>1, LogIsLast
  <2>3. ~(t >= now1)
    BY <2>1, <2>2
  <2>4. t < now1
    BY <2>2, <2>3, Numbers DEF Seconds
  <2> QED BY <2>2, <2>4
<1>2. Found'
  <2> SUFFICES ASSUME NEW i \in DOMAIN accepted
               PROVE  \E t \in Shelves : \E k \in DOMAIN Shelf(t)' : Shelf(t)'[k] = accepted[i]
    BY DEF Found
  <2>1. PICK t \in Shelves : \E k \in DOMAIN Shelf(t) : Shelf(t)[k] = accepted[i]
    BY DEF KeepInv, Found
  <2>2. CASE t = Last
    BY <2>1, <2>2, LogIsLast
  <2>3. CASE t \in Seconds
    <3>1. Shelf(t) # <<>>
      BY <2>1
    <3>2. t # now1
      BY <2>3, <3>1, Numbers DEF Seconds
    <3> QED BY <2>1, <2>3, <3>2, LogIsLast
  <2> QED BY <2>2, <2>3, LogIsLast
<1>3. FoundOnce'
  <2> SUFFICES ASSUME NEW t \in Shelves, NEW u \in Shelves,
                      NEW k, k \in DOMAIN Shelf(t)', NEW l, l \in DOMAIN Shelf(u)',
                      Shelf(t)'[k] = Shelf(u)'[l]
               PROVE  t = u /\ k = l
    BY DEF FoundOnce
  <2> QED BY <1>1, LogIsLast DEF KeepInv, FoundOnce
<1>4. FoundInOrder'
  <2> SUFFICES ASSUME NEW i \in DOMAIN accepted, NEW j \in DOMAIN accepted,
                      NEW t \in Shelves, NEW u \in Shelves,
                      NEW k, k \in DOMAIN Shelf(t)', NEW l, l \in DOMAIN Shelf(u)',
                      Shelf(t)'[k] = accepted[i], Shelf(u)'[l] = accepted[j], i < j
               PROVE  t < u \/ (t = u /\ k < l)
    BY DEF FoundInOrder
  <2>1. CASE t = now1 /\ u = now1
    <3>1. Last < Last \/ (Last = Last /\ k < l)
      <4>1. /\ k \in DOMAIN Shelf(Last) /\ Shelf(Last)[k] = accepted[i]
            /\ l \in DOMAIN Shelf(Last) /\ Shelf(Last)[l] = accepted[j]
        BY <1>1, <2>1, Numbers DEF Seconds
      <4> QED BY <4>1, LogIsLast DEF KeepInv, FoundInOrder
    <3>2. Last \in Nat
      BY Numbers DEF Last
    <3> QED BY <2>1, <3>1, <3>2
  <2>2. CASE t = now1 /\ u # now1
    <3>1. Last < u \/ Last = u
      BY <1>1, <2>2, LogIsLast DEF KeepInv, FoundInOrder
    <3>2. u \in Seconds /\ Last \in Nat /\ u \in Nat
      BY <1>1, <2>2, Numbers DEF Seconds, Last
    <3> QED BY <3>1, <3>2, LogIsLast
  <2>3. CASE t # now1 /\ u = now1
    BY <1>1, <2>3
  <2>4. CASE t # now1 /\ u # now1
    BY <1>1, <2>4, LogIsLast DEF KeepInv, FoundInOrder
  <2> QED BY <2>1, <2>2, <2>3, <2>4
<1>5. ASSUME NEW t \in Shelves, NEW k, k \in DOMAIN Shelf(t)'
      PROVE  Shelf(t)'[k] \notin pending' /\ Shelf(t)'[k] # rec'
  <2>1. \A u \in Shelves : \A l \in DOMAIN Shelf(u) : Shelf(u)[l] \notin pending /\ Shelf(u)[l] # rec
    BY DEF KeepInv
  <2> QED BY <1>1, <1>5, <2>1, LogIsLast
<1>6. \A i \in DOMAIN accepted : accepted[i] \notin pending /\ accepted[i] # rec
  BY DEF KeepInv
<1> QED BY <1>2, <1>3, <1>4, <1>5, <1>6 DEF KeepInv

LEMMA SameFiles ==
    ASSUME UNCHANGED <<dir, data>>
    PROVE  \A t \in Shelves : Shelf(t)' = Shelf(t)
BY DEF Shelf, BackupContents, Contents

LEMMA QuietFiles ==
    ASSUME QuietStep, Contents(Log)' = Contents(Log)
    PROVE  \A t \in Shelves : Shelf(t)' = Shelf(t)
BY QuietBackups, LogIsLast DEF Shelf

LEMMA KeepStep ==
    ASSUME BaseInv, JobInv, KeepInv, [Next]_vars, ~collided'
    PROVE  KeepInv'
<1>1. TypeOK /\ HandleInv /\ NamesInv /\ SizeInv
  BY DEF BaseInv
<1>2. /\ stage \in {"idle", "rename", "create", "append", "return"}
      /\ stage' \in {"idle", "rename", "create", "append", "return"}
  <2>1. TypeOK'
    BY <1>1, TypeStep
  <2> QED BY <1>1, <2>1 DEF TypeOK
<1>3. ASSUME NEW r \in Records, WriteBegin(r) PROVE KeepInv'
  <2>1. UNCHANGED <<dir, data, accepted>> /\ stage = "idle" /\ stage' \in {"idle", "append", "rename"}
    BY <1>3 DEF WriteBegin, Fail, fsVars
  <2>2. r \in pending /\ pending' = pending \ {r} /\ (stage' # "idle" => rec' = r)
    BY <1>3 DEF WriteBegin, Fail
  <2> QED BY <1>2, <2>1, <2>2, SameFiles, KeepSame
<1>4. CASE Rename
  <2>1. CASE Moved
    <3>1. PICK now1 \in Seconds : now1 = now
      BY <2>1, MovedNames
    <3>2. rotated < now1
      <4>1. rotated \in 0 .. now /\ now \in Nat
        BY <1>1, Numbers DEF TypeOK, Seconds
      <4>2. collided' = (collided \/ rotated = now)
        BY <2>1, MovedNames
      <4>3. rotated # now
        BY <4>2, Zenon
      <4> QED BY <3>1, <4>1, <4>3
    <3>3. \A t \in Seconds : t >= now1 => dir[Backup(t)] = None /\ dir[Gz(t)] = None
      <4>1. \A t \in Seconds : t >= now1 => t > rotated
        BY <1>1, <3>1, <3>2, Numbers DEF TypeOK, Seconds
      <4> QED BY <4>1 DEF JobInv
    <3>4. \A t \in Seconds : t >= now1 => Shelf(t) = <<>>
      BY <3>3, LogIsLast DEF BackupContents, Contents
    <3>5. Shelf(now1)' = Shelf(Last)
      <4>1. BackupContents(now1)' = Contents(Log)
        BY <2>1, <3>1, MovedNames, NamesApart DEF BackupContents, Contents
      <4> QED BY <4>1, LogIsLast DEF Shelf
    <3>6. Shelf(Last)' = <<>>
      BY <2>1, MovedNames, LogIsLast DEF Shelf, Contents
    <3>7. \A t \in Seconds : t # now1 => Shelf(t)' = Shelf(t)
      BY <2>1, <3>1, MovedNames, NamesApart DEF Shelf, BackupContents, Contents
    <3>8. stage' = "create" /\ stage = "rename" /\ UNCHANGED <<accepted, pending, rec>>
      BY <2>1, MovedNames DEF Moved
    <3> QED BY <3>4, <3>5, <3>6, <3>7, <3>8, KeepMoved
  <2>2. CASE ~Moved
    <3>1. UNCHANGED <<dir, data, accepted, pending>> /\ stage' = "idle"
      BY <1>4, <2>2 DEF Moved, Rename, Fail
    <3> QED BY <1>2, <3>1, SameFiles, KeepSame
  <2> QED BY <2>1, <2>2
<1>5. ASSUME data' = Append(data, <<>>), dir' = [dir EXCEPT ![Log] = Len(data) + 1],
             UNCHANGED <<rotated, jobs>>, dir[Log] = None
      PROVE  \A t \in Shelves : Shelf(t)' = Shelf(t)
  <2>1. QuietStep /\ dir'[Log] # None /\ data'[dir'[Log]] = <<>>
    BY <1>5, QuietNew
  <2>2. Contents(Log)' = Contents(Log)
    BY <1>5, <2>1 DEF Contents
  <2> QED BY <2>1, <2>2, QuietFiles
<1>6. CASE Create
  <2>1. UNCHANGED <<rotated, jobs, accepted, pending>> /\ stage = "create" /\ dir[Log] = None
    BY <1>1, <1>6 DEF Create, Fail, historyVars, HandleInv
  <2>2. stage' = "idle" \/ (stage' = "append" /\ rec' = rec)
    BY <1>6 DEF Create, Fail
  <2>3. \A t \in Shelves : Shelf(t)' = Shelf(t)
    BY <1>5, <1>6, <2>1, SameFiles DEF Create, fsVars
  <2> QED BY <1>2, <2>1, <2>2, <2>3, KeepSame
<1>7. CASE AppendRecord
  <2>1. UNCHANGED <<dir, accepted, pending>> /\ stage = "append"
    BY <1>7 DEF AppendRecord, Fail
  <2>2. CASE stage' = "idle"
    <3>1. data' = data
      BY <1>7, <2>2 DEF AppendRecord
    <3> QED BY <1>2, <2>1, <2>2, <3>1, SameFiles, KeepSame
  <2>3. CASE /\ fileOpen /\ data' = [data EXCEPT ![file] = Append(@, rec)]
             /\ stage' = "return" /\ rec' = rec
    <3>1. rec \in Records \ pending /\ file # None /\ dir[Log] = file
      BY <1>1, <2>1, <2>3 DEF HandleInv
    <3>2. file \in DOMAIN data /\ Append(data[file], rec) \in Seq(Records)
      BY <3>1, NamesApart, Entries
    <3>3. data'[file] = Append(data[file], rec)
      BY <1>1, <2>3, <3>2, NewContents
    <3>4. Contents(Log)' = Append(Contents(Log), rec)
      BY <2>1, <3>1, <3>3 DEF Contents
    <3>5. Shelf(Last)' = Append(Shelf(Last), rec)
      BY <3>4, LogIsLast DEF Shelf
    <3>6. \A t \in Seconds : Shelf(t)' = Shelf(t)
      BY <1>7, AppendQuiet, QuietBackups DEF Shelf
    <3> QED BY <2>1, <2>3, <3>1, <3>5, <3>6, KeepAppend
  <2> QED BY <1>7, <2>2, <2>3 DEF AppendRecord, Fail
<1>8. CASE Return
  <2>1. UNCHANGED <<dir, data, pending>> /\ stage = "return" /\ stage' = "idle"
    BY <1>8 DEF Return, fsVars
  <2>2. rec \in Records \ pending /\ accepted' = Append(accepted, rec)
    BY <1>1, <1>8 DEF Return, HandleInv
  <2> QED BY <2>1, <2>2, SameFiles, KeepReturn
<1>9. Sync \/ Close \/ Tick \/ UNCHANGED vars => UNCHANGED <<dir, data, stage, rec, accepted, pending>>
  BY DEF Sync, Close, Tick, vars, fsVars, callVars
<1>10. CASE UNCHANGED <<dir, data, stage, rec, accepted, pending>>
  BY <1>2, <1>10, SameFiles, KeepSame
<1>11. ASSUME NEW j \in DOMAIN jobs, JobStep(j) PROVE KeepInv'
  <2>1. PICK t \in Seconds : t = jobs[j].second
    BY <1>1, JobFields
  <2>2. Elsewhere(t) /\ BackupContents(t)' = BackupContents(t)
    BY <1>11, <2>1, JobTurn
  <2>3. \A u \in Seconds : u # t => BackupContents(u)' = BackupContents(u)
    BY <2>1, <2>2, NamesApart DEF Elsewhere, BackupContents, Contents
  <2>4. Contents(Log)' = Contents(Log)
    BY <2>1, <2>2, NamesApart DEF Elsewhere, Contents
  <2>5. \A u \in Shelves : Shelf(u)' = Shelf(u)
    BY <2>2, <2>3, <2>4 DEF Shelf
  <2>6. JobFrame
    BY <1>11 DEF JobStep, JobOpen, JobCreate, JobCopy, JobVerify, JobRemove
  <2>7. UNCHANGED <<stage, rec, accepted, pending>>
    BY <2>6 DEF JobFrame, callVars
  <2> QED BY <1>2, <2>5, <2>7, KeepSame
<1>12. CASE Crash
  <2>1. UNCHANGED <<dir, data, accepted, pending>> /\ stage' = "idle"
    BY <1>12 DEF Crash, Fail, fsVars
  <2> QED BY <1>2, <2>1, SameFiles, KeepSame
<1>13. CASE Restart
  <2>1. UNCHANGED <<rotated, jobs, stage, rec, accepted, pending>>
    BY <1>13 DEF Restart, callVars, envVars, historyVars
  <2>2. \A t \in Shelves : Shelf(t)' = Shelf(t)
    BY <1>5, <1>13, <2>1, SameFiles DEF Restart, fsVars
  <2> QED BY <1>2, <2>1, <2>2, KeepSame
<1> QED BY <1>3, <1>4, <1>6, <1>7, <1>8, <1>9, <1>10, <1>11, <1>12, <1>13 DEF Next

\* Once two rotations have shared a second it stays so.
LEMMA CollidedStays ==
    ASSUME BaseInv, [Next]_vars, collided
    PROVE  collided'
<1>1. ASSUME NEW r \in Records, WriteBegin(r) PROVE collided'
  BY <1>1 DEF WriteBegin, historyVars
<1>2. CASE Rename
  BY <1>2 DEF Rename
<1>3. ASSUME NEW j \in DOMAIN jobs, JobStep(j) PROVE collided'
  BY <1>3 DEF JobStep, JobOpen, JobCreate, JobCopy, JobVerify, JobRemove, JobFrame, historyVars
<1>4. Create \/ AppendRecord \/ Return \/ Sync \/ Close \/ Tick \/ Crash \/ Restart \/ UNCHANGED vars
        => collided' = collided
  BY DEF Create, AppendRecord, Return, Sync, Close, Tick, Crash, Restart, vars, envVars, historyVars
<1> QED BY <1>1, <1>2, <1>3, <1>4 DEF Next

LEMMA KeepInit == Init => JobInv /\ KeepInv
<1> SUFFICES ASSUME Init PROVE JobInv /\ KeepInv
  OBVIOUS
<1>1. jobs = <<>> /\ accepted = <<>> /\ stage = "idle" /\ data = << <<>> >>
  BY DEF Init
<1>2. \A n \in Names : dir[n] = IF n = Log THEN 1 ELSE None
  BY DEF Init
<1>3. JobInv
  <2>1. \A j \in DOMAIN jobs : FALSE
    BY <1>1
  <2> QED BY <1>2, <2>1, NamesApart DEF JobInv
<1>4. \A t \in Shelves : Shelf(t) = <<>>
  <2>1. \A t \in Seconds : BackupContents(t) = <<>>
    BY <1>2, NamesApart DEF BackupContents, Contents
  <2>2. Contents(Log) = <<>>
    BY <1>1, <1>2, NamesApart, Numbers DEF Contents
  <2> QED BY <2>1, <2>2 DEF Shelf
<1>5. (\A t \in Shelves : \A k \in DOMAIN Shelf(t) : FALSE) /\ \A i \in DOMAIN accepted : FALSE
  BY <1>1, <1>4
<1>6. KeepInv
  BY <1>1, <1>5 DEF KeepInv, Found, FoundOnce, FoundInOrder
<1> QED BY <1>3, <1>6

LEMMA FileInvariant == Spec => []FileInv
<1>1. Init => FileInv
  BY BaseInit, KeepInit DEF FileInv, BaseInv
<1>2. BaseInv /\ FileInv /\ [Next]_vars => FileInv'
  <2> SUFFICES ASSUME BaseInv, FileInv, [Next]_vars
               PROVE  FileInv'
    OBVIOUS
  <2>1. BaseInv'
    BY BaseStep
  <2>2. ASSUME ~collided' PROVE JobInv' /\ KeepInv'
    <3>1. ~collided
      BY <2>2, CollidedStays
    <3>2. JobInv /\ KeepInv
      BY <3>1 DEF FileInv
    <3> QED BY <2>2, <3>2, JobInvStep, KeepStep
  <2> QED BY <2>1, <2>2 DEF FileInv, BaseInv
<1> QED BY <1>1, <1>2, BaseInvariant, PTL DEF Spec

\* As long as no two rotations share a second, every record whose Write
\* succeeded can be read back, once and in the order of the Writes, at every
\* moment of a rotation or a compression, after any failed system call and
\* after any crash.
THEOREM NothingIsLost == Spec => []NothingLost
<1>1. FileInv => NothingLost
  BY DEF FileInv, KeepInv, NothingLost, BackupsKeepRecords
<1> QED BY <1>1, FileInvariant, PTL
=============================================================================
