------------------------ MODULE RelayRetentionProofs ------------------------
(***************************************************************************)
(* Proofs about RelayRetention, for any devices, jobs, snapshots, archives, *)
(* quota, upload slots and failed writes.                                  *)
(*                                                                         *)
(* What is asked of the records and jobs in memory is asked of state.json   *)
(* as well, because a restart puts the file in the place of the memory:     *)
(* StateOK is stated of a table and records, and holds of both pairs.       *)
(***************************************************************************)
EXTENDS RelayRetention, RelayJobsProofs, FiniteSetTheorems

\* Previews that are queued or running have a snapshot whose record is kept.
PreviewsHaveRecords(t, r) ==
  \A j \in Jobs : t[j].kind = "preview" /\ Active(t, j) =>
    t[j].snap \in Snapshots /\ r[t[j].snap].state = "kept"

\* What a purged record was purged for.
PurgedForReason(t, r) ==
  \A s \in Snapshots : r[s].state = "purged" =>
    \/ s \in deleted
    \/ /\ r[s].temp
       /\ \/ s \in expired
          \/ \E j \in Jobs : /\ t[j].kind = "preview" /\ t[j].snap = s
                            /\ t[j].status = "done" /\ t[j].canApply

NoDuplicates(r) ==
  \A s, u \in Snapshots :
    /\ r[s].state = "kept" /\ r[u].state = "kept" /\ ~r[s].temp /\ ~r[u].temp
    /\ r[s].hash = r[u].hash
    => s = u

KeptIn(r) == {s \in Snapshots : r[s].state = "kept"}

InQuota(r) == IsFiniteSet(KeptIn(r)) /\ Cardinality(KeptIn(r)) <= Quota

StateOK(t, r) ==
  PreviewsHaveRecords(t, r) /\ PurgedForReason(t, r) /\ NoDuplicates(r) /\ InQuota(r)

\* The ids of transfers under way are new and distinct.
UploadsFresh ==
  /\ IsFiniteSet(uploads)
  /\ \A u \in uploads : snaps[u.snap].state = "none"
  /\ \A u, v \in uploads : u.snap = v.snap => u = v

RetentionInv ==
  /\ IInv /\ RetentionTypeOK /\ UploadsFresh /\ FilesMatchRecords
  /\ StateOK(jobs, snaps) /\ StateOK(saved, savedSnaps)

-----------------------------------------------------------------------------
(* What steps have in common. *)

\* A step writes the jobs and the records together, or neither.
LEMMA SavedTogether ==
  ASSUME JobsTypeOK, Save, SaveSnaps
  PROVE  \/ faults' = faults /\ saved' = jobs' /\ savedSnaps' = snaps'
         \/ faults' # faults /\ saved' = saved /\ savedSnaps' = savedSnaps
BY DEF JobsTypeOK, Save, SaveSnaps

\* What is in the file keeps its reasons: time does not go back, and what the
\* administrator has deleted stays deleted.
LEMMA FileStays ==
  ASSUME StateOK(saved, savedSnaps), saved' = saved, savedSnaps' = savedSnaps,
         expired \subseteq expired', deleted \subseteq deleted'
  PROVE  StateOK(saved, savedSnaps)'
<1>1. PurgedForReason(saved, savedSnaps)'
  BY DEF StateOK, PurgedForReason
<1>2. PreviewsHaveRecords(saved, savedSnaps)'
  BY DEF StateOK, PreviewsHaveRecords, Active
<1>3. NoDuplicates(savedSnaps)' /\ InQuota(savedSnaps)'
  BY DEF StateOK, NoDuplicates, InQuota, KeptIn
<1>. QED
  BY <1>1, <1>2, <1>3 DEF StateOK

\* What holds of the memory after a step holds of the file as well.
LEMMA FileFollows ==
  ASSUME JobsTypeOK, StateOK(saved, savedSnaps), Save, SaveSnaps,
         expired \subseteq expired', deleted \subseteq deleted', StateOK(jobs, snaps)'
  PROVE  StateOK(saved, savedSnaps)'
<1>1. CASE saved' = jobs' /\ savedSnaps' = snaps'
  BY <1>1 DEF StateOK, PreviewsHaveRecords, PurgedForReason, NoDuplicates, InQuota, KeptIn, Active
<1>2. CASE saved' = saved /\ savedSnaps' = savedSnaps
  BY <1>2, FileStays
<1>. QED
  BY <1>1, <1>2, SavedTogether

\* What a step may do to a job: none to a finished one, and a job that is created
\* as a preview finds its snapshot kept.
JobMoves(j) ==
  \/ jobs'[j] = jobs[j]
  \/ Active(jobs, j) /\ jobs'[j].kind = jobs[j].kind /\ jobs'[j].snap = jobs[j].snap
  \/ /\ jobs[j].status = "none"
     /\ jobs'[j].kind = "preview" => jobs'[j].snap \in Snapshots /\ Kept(jobs'[j].snap)

\* Steps of the job table alone leave the records and what they rest on.
LEMMA TableMoves ==
  ASSUME StateOK(jobs, snaps), \A j \in Jobs : JobMoves(j),
         snaps' = snaps, expired \subseteq expired', deleted' = deleted
  PROVE  StateOK(jobs, snaps)'
<1>1. PreviewsHaveRecords(jobs, snaps)'
  BY DEF StateOK, PreviewsHaveRecords, JobMoves, Active, Kept
<1>2. PurgedForReason(jobs, snaps)'
  <2>1. \A j \in Jobs : jobs[j].status = "done" => jobs'[j] = jobs[j]
    BY DEF JobMoves, Active
  <2>. QED
    BY <2>1 DEF StateOK, PurgedForReason
<1>3. NoDuplicates(snaps)' /\ InQuota(snaps)'
  BY DEF StateOK, NoDuplicates, InQuota, KeptIn
<1>. QED
  BY <1>1, <1>2, <1>3 DEF StateOK

\* A handler that changes jobs only.
LEMMA JobHandler ==
  ASSUME RetentionInv, IInv', Save, SaveSnaps, \A j \in Jobs : JobMoves(j),
         UNCHANGED <<snaps, files, expired, uploads, damaged, deleted>>,
         sweep' \in {sweep, {}, Evictable}
  PROVE  RetentionInv'
<1>1. JobsTypeOK /\ JobsTypeOK'
  BY DEF RetentionInv, IInv
<1>2. StateOK(jobs, snaps)'
  BY TableMoves DEF RetentionInv
<1>3. StateOK(saved, savedSnaps)'
  BY <1>1, <1>2, FileFollows DEF RetentionInv
<1>4. savedSnaps' \in {snaps, savedSnaps}
  BY DEF SaveSnaps
<1>5. RetentionTypeOK'
  BY <1>1, <1>4 DEF RetentionInv, RetentionTypeOK, Evictable, Kept
<1>6. UploadsFresh' /\ FilesMatchRecords'
  BY DEF RetentionInv, UploadsFresh, FilesMatchRecords, Kept
<1>. QED
  BY <1>2, <1>3, <1>5, <1>6 DEF RetentionInv

-----------------------------------------------------------------------------
(* The initial state and the job handlers. *)

LEMMA RetentionInvInit == RetentionInit => RetentionInv
<1> SUFFICES ASSUME RetentionInit PROVE RetentionInv
  OBVIOUS
<1>1. IInv /\ JobsTypeOK
  BY JobsIInvInit DEF RetentionInit, IInv
<1>2. /\ \A s \in Snapshots : snaps[s] = NoSnapshot
      /\ \A j \in Jobs : jobs[j] = NoJob
      /\ savedSnaps = snaps /\ saved = jobs
  BY DEF RetentionInit, JobsInit
<1>3. RetentionTypeOK
  <2>1. NoSnapshot \in Snapshot
    BY DEF NoSnapshot, Snapshot
  <2>. QED
    BY <1>1, <2>1, FS_EmptySet, RetentionAssumption DEF RetentionInit, RetentionTypeOK, Evictable
<1>4. UploadsFresh /\ FilesMatchRecords
  BY <1>2, FS_EmptySet DEF RetentionInit, UploadsFresh, FilesMatchRecords, Kept, NoSnapshot
<1>5. StateOK(jobs, snaps)
  <2>1. KeptIn(snaps) = {}
    BY <1>2 DEF KeptIn, NoSnapshot
  <2>2. InQuota(snaps)
    BY <2>1, FS_EmptySet, RetentionAssumption DEF InQuota
  <2>. QED
    BY <1>2, <2>2 DEF StateOK, PreviewsHaveRecords, PurgedForReason, NoDuplicates, Active,
                      NoJob, NoSnapshot
<1>. QED
  BY <1>1, <1>2, <1>3, <1>4, <1>5 DEF RetentionInv

LEMMA CreateInv ==
  ASSUME RetentionInv, NEW j \in Jobs, NEW d \in Devices, NEW k \in Kinds,
         NEW s \in Snapshots \cup {None}, NEW r \in Jobs \cup {None}, Create(j, d, k, s, r)
  PROVE  RetentionInv'
<1>1. CreateJob(j, d, k, s, r) /\ Usable(k, s) /\ Save /\ SaveSnaps
      /\ UNCHANGED <<snaps, files, expired, uploads, sweep, damaged, deleted>>
  BY DEF Create, CreateJob
<1>2. IInv'
  BY <1>1, CreateKeeps DEF RetentionInv
<1>3. jobs \in [Jobs -> Job]
  BY DEF RetentionInv, IInv, JobsTypeOK
<1>4. ASSUME NEW i \in Jobs PROVE JobMoves(i)
  <2>1. k = "preview" => s \in Snapshots /\ Kept(s)
    BY <1>1 DEF CreateJob, ValidJob, Usable
  <2>. QED
    BY <1>1, <1>3, <2>1 DEF CreateJob, JobMoves
<1>. QED
  BY <1>1, <1>2, <1>4, JobHandler

LEMMA OtherJobInv == ASSUME RetentionInv, OtherJobStep PROVE RetentionInv'
<1>1. JobsNext
  BY DEF OtherJobStep, JobsNext, AdminStep, DeviceStep
<1>2. IInv'
  BY <1>1, JobsIInvNext DEF RetentionInv
<1>3. jobs \in [Jobs -> Job]
  BY DEF RetentionInv, IInv, JobsTypeOK
<1>4. Save /\ \A i \in Jobs : JobMoves(i)
  <2>1. ASSUME NEW j \in Jobs, CancelJob(j) PROVE Save /\ \A i \in Jobs : JobMoves(i)
    BY <1>3, <2>1 DEF CancelJob, JobMoves, Active, Job
  <2>2. ASSUME NEW d \in Devices, NEW j \in Jobs, Claim(d, j)
        PROVE  Save /\ \A i \in Jobs : JobMoves(i)
    BY <1>3, <2>2 DEF Claim, JobMoves, Active, Job
  <2>3. CASE Heartbeat
    BY <2>3 DEF Heartbeat, JobMoves
  <2>. QED
    BY <2>1, <2>2, <2>3 DEF OtherJobStep
<1>. QED
  BY <1>2, <1>4, JobHandler DEF OtherJobStep

LEMMA PostResultInv ==
  ASSUME RetentionInv, NEW j \in Jobs, NEW good \in BOOLEAN, NEW canApply \in BOOLEAN,
         PostResult(j, good, canApply)
  PROVE  RetentionInv'
<1>1. Result(j, good, canApply) /\ Save /\ SaveSnaps
  BY DEF PostResult, Result
<1>2. IInv'
  BY <1>1, JobsIInvNext DEF RetentionInv, JobsNext, DeviceStep
<1>3. jobs \in [Jobs -> Job]
  BY DEF RetentionInv, IInv, JobsTypeOK
<1>4. ASSUME NEW i \in Jobs PROVE JobMoves(i)
  <2> DEFINE status == IF good THEN "done" ELSE "failed"
             apply == good /\ canApply /\ jobs[j].kind = "preview"
             new == [jobs[j] EXCEPT !.status = status, !.canApply = apply]
  <2>1. jobs[j].status = "running" /\ jobs' = [jobs EXCEPT ![j] = new]
    BY <1>1 DEF Result
  <2>2. new.kind = jobs[j].kind /\ new.snap = jobs[j].snap
    <3> HIDE DEF status, apply
    <3>. QED
      BY <1>3 DEF Job
  <2> HIDE DEF new
  <2>. QED
    BY <1>3, <2>1, <2>2 DEF JobMoves, Active
<1>. QED
  BY <1>1, <1>2, <1>4, JobHandler DEF PostResult

-----------------------------------------------------------------------------
(* Uploads. *)

LEMMA UploadBeginInv ==
  ASSUME RetentionInv, NEW u \in Upload, UploadBegin(u)
  PROVE  RetentionInv'
<1>1. /\ uploads' = uploads \cup {u}
      /\ UNCHANGED <<jobs, saved, faults, snaps, savedSnaps, files, expired, sweep, damaged, deleted>>
      /\ Cardinality(uploads) < UploadSlots /\ snaps[u.snap].state = "none"
      /\ \A v \in uploads : v.snap # u.snap
  BY DEF UploadBegin, SlotFree, jobVars
<1>2. IInv'
  BY <1>1 DEF RetentionInv, IInv, JobsTypeOK, OneActiveJobPerDevice, OnePerDevice, Active,
              RestoresAreGrounded, Grounded, GroundedJob
<1>3. IsFiniteSet(uploads') /\ Cardinality(uploads') <= UploadSlots
  <2>1. IsFiniteSet(uploads) /\ u \notin uploads
    BY <1>1 DEF RetentionInv, UploadsFresh
  <2>2. Cardinality(uploads) \in Nat
    BY <2>1, FS_CardinalityType
  <2>3. IsFiniteSet(uploads \cup {u}) /\ Cardinality(uploads \cup {u}) = Cardinality(uploads) + 1
    BY <2>1, FS_AddElement
  <2>. QED
    BY <1>1, <2>2, <2>3, RetentionAssumption
<1>4. RetentionTypeOK'
  BY <1>1, <1>2, <1>3 DEF RetentionInv, IInv, RetentionTypeOK, Evictable, Kept
<1>5. UploadsFresh' /\ FilesMatchRecords'
  BY <1>1, <1>3 DEF RetentionInv, UploadsFresh, FilesMatchRecords, Kept
<1>6. StateOK(jobs, snaps)' /\ StateOK(saved, savedSnaps)'
  BY <1>1, FileStays, TableMoves DEF RetentionInv, JobMoves
<1>. QED
  BY <1>2, <1>4, <1>5, <1>6 DEF RetentionInv

\* The transfers that are left are as they were.
LEMMA FewerUploads ==
  ASSUME RetentionInv, uploads' \subseteq uploads
  PROVE  IsFiniteSet(uploads') /\ Cardinality(uploads') <= UploadSlots
<1>1. IsFiniteSet(uploads) /\ Cardinality(uploads) <= UploadSlots
  BY DEF RetentionInv, UploadsFresh, RetentionTypeOK
<1>2. /\ IsFiniteSet(uploads') /\ Cardinality(uploads') <= Cardinality(uploads)
      /\ Cardinality(uploads) \in Nat /\ Cardinality(uploads') \in Nat
  BY <1>1, FS_Subset, FS_CardinalityType
<1>. QED
  BY <1>1, <1>2, RetentionAssumption

\* A transfer ends and nothing is recorded.
LEMMA UploadLost ==
  ASSUME RetentionInv, uploads' \subseteq uploads,
         UNCHANGED <<jobVars, snaps, savedSnaps, files, expired, sweep, damaged, deleted>>
  PROVE  RetentionInv'
<1>1. IInv'
  BY JobsIInvNext DEF RetentionInv
<1>2. RetentionTypeOK'
  BY <1>1, FewerUploads DEF RetentionInv, IInv, RetentionTypeOK, Evictable, Kept
<1>3. UploadsFresh' /\ FilesMatchRecords'
  BY FewerUploads DEF RetentionInv, UploadsFresh, FilesMatchRecords, Kept
<1>4. StateOK(jobs, snaps)' /\ StateOK(saved, savedSnaps)'
  BY FileStays, TableMoves DEF RetentionInv, JobMoves, jobVars
<1>. QED
  BY <1>1, <1>2, <1>3, <1>4 DEF RetentionInv

\* A new record: nothing has a reason to be purged less, the archive is not stored
\* twice, and there is room.
LEMMA RecordAdded ==
  ASSUME RetentionInv, NEW u \in uploads, ~Duplicate(u), ~OverQuota(u.snap),
         snaps' = [snaps EXCEPT ![u.snap] =
                     [state |-> "kept", temp |-> u.temp, hash |-> u.hash]],
         UNCHANGED <<jobs, expired, deleted>>
  PROVE  StateOK(jobs, snaps)'
<1>1. u \in Upload /\ snaps \in [Snapshots -> Snapshot] /\ snaps[u.snap].state = "none"
  BY DEF RetentionInv, RetentionTypeOK, UploadsFresh
<1>2. u.snap \in Snapshots /\ u.temp \in BOOLEAN
  BY <1>1 DEF Upload
<1>3. /\ snaps'[u.snap] = [state |-> "kept", temp |-> u.temp, hash |-> u.hash]
      /\ \A s \in Snapshots \ {u.snap} : snaps'[s] = snaps[s]
  BY <1>1, <1>2
<1>4. PreviewsHaveRecords(jobs, snaps)'
  BY <1>1, <1>3 DEF RetentionInv, StateOK, PreviewsHaveRecords, Active
<1>5. PurgedForReason(jobs, snaps)'
  BY <1>2, <1>3 DEF RetentionInv, StateOK, PurgedForReason
<1>6. NoDuplicates(snaps)'
  BY <1>2, <1>3 DEF RetentionInv, StateOK, NoDuplicates, Duplicate, Kept
<1>7. InQuota(snaps)'
  <2>1. KeptIn(snaps)' = KeptIn(snaps) \cup {u.snap} /\ u.snap \notin KeptIn(snaps)
    BY <1>1, <1>2, <1>3 DEF KeptIn
  <2>2. IsFiniteSet(KeptIn(snaps)) /\ Used = Cardinality(KeptIn(snaps))
    BY DEF RetentionInv, StateOK, InQuota, Used, Kept, KeptIn
  <2>3. Used \in Nat
    BY <2>2, FS_CardinalityType
  <2> DEFINE old == KeptIn(snaps)
  <2>4. /\ IsFiniteSet(old \cup {u.snap})
        /\ Cardinality(old \cup {u.snap}) = Cardinality(old) + 1
    <3> HIDE DEF old
    <3>1. IsFiniteSet(old) /\ u.snap \notin old
      BY <2>1, <2>2 DEF old
    <3>. QED
      BY <3>1, FS_AddElement
  <2>5. KeptIn(snaps)' = old \cup {u.snap} /\ Used = Cardinality(old)
    BY <2>1, <2>2
  <2> HIDE DEF old
  <2>6. Used + 1 <= Quota
    BY <2>3, RetentionAssumption DEF OverQuota
  <2>7. IsFiniteSet(KeptIn(snaps)') /\ Cardinality(KeptIn(snaps)') = Used + 1
    BY <2>4, <2>5, Zenon
  <2>. QED
    BY <2>6, <2>7 DEF InQuota
<1>. QED
  BY <1>4, <1>5, <1>6, <1>7 DEF StateOK

LEMMA UploadCommitInv ==
  ASSUME RetentionInv, NEW u \in uploads, UploadCommit(u)
  PROVE  RetentionInv'
<1>1. CASE UNCHANGED <<saved, faults, snaps, savedSnaps, files>>
  BY <1>1, UploadLost DEF UploadCommit, jobVars
<1>2. CASE /\ ~Duplicate(u) /\ ~OverQuota(u.snap)
           /\ files' = files \cup {u.snap}
           /\ snaps' = [snaps EXCEPT ![u.snap] =
                          [state |-> "kept", temp |-> u.temp, hash |-> u.hash]]
           /\ Save /\ SaveSnaps
  <2>1. uploads' = uploads \ {u} /\ UNCHANGED <<jobs, expired, sweep, damaged, deleted>>
        /\ sweep = {}
    BY DEF UploadCommit, LockFree
  <2>2. u \in Upload /\ snaps \in [Snapshots -> Snapshot] /\ JobsTypeOK
    BY DEF RetentionInv, RetentionTypeOK
  <2>3. u.snap \in Snapshots /\ u.temp \in BOOLEAN /\ u.hash \in Hashes
    BY <2>2 DEF Upload
  <2>4. /\ snaps'[u.snap] = [state |-> "kept", temp |-> u.temp, hash |-> u.hash]
        /\ \A s \in Snapshots \ {u.snap} : snaps'[s] = snaps[s]
    BY <1>2, <2>2, <2>3
  <2>5. StateOK(jobs, snaps)'
    BY <1>2, <2>1, RecordAdded
  <2>6. StateOK(saved, savedSnaps)'
    BY <1>2, <2>1, <2>2, <2>5, FileFollows DEF RetentionInv
  <2>7. IInv'
    BY <1>2, <2>1, JobsIInvNext DEF RetentionInv, JobsNext, DeviceStep, Heartbeat
  <2>8. RetentionTypeOK'
    <3>1. snaps' \in [Snapshots -> Snapshot]
      BY <1>2, <2>2, <2>3 DEF Snapshot
    <3>2. savedSnaps' \in [Snapshots -> Snapshot]
      BY <1>2, <3>1 DEF SaveSnaps, RetentionInv, RetentionTypeOK
    <3>3. uploads' \subseteq Upload /\ Cardinality(uploads') <= UploadSlots
      BY <2>1, FewerUploads DEF RetentionInv, RetentionTypeOK
    <3>. QED
      BY <1>2, <2>1, <2>3, <2>7, <3>1, <3>2, <3>3 DEF RetentionInv, RetentionTypeOK, IInv
  <2>9. UploadsFresh'
    <3>1. \A v \in uploads' : v \in uploads /\ v.snap # u.snap /\ v.snap \in Snapshots
      BY <2>1 DEF RetentionInv, RetentionTypeOK, UploadsFresh, Upload
    <3>. QED
      BY <2>1, <2>4, <3>1, FewerUploads DEF RetentionInv, UploadsFresh
  <2>10. FilesMatchRecords'
    BY <1>2, <2>1, <2>4 DEF RetentionInv, FilesMatchRecords, Kept
  <2>. QED
    BY <2>5, <2>6, <2>7, <2>8, <2>9, <2>10 DEF RetentionInv
<1>. QED
  BY <1>1, <1>2 DEF UploadCommit

-----------------------------------------------------------------------------
(* Deletion and eviction. *)

\* An archive and its record go; only previews that are over needed them, and there
\* is a reason.
LEMMA PurgeInv ==
  ASSUME RetentionInv, NEW s \in Snapshots, Purge(s), IInv',
         snaps[s].state # "none",
         \A j \in Jobs : JobMoves(j),
         \A j \in Jobs : jobs'[j].kind = "preview" /\ jobs'[j].snap = s => ~Active(jobs, j)',
         \/ s \in deleted'
         \/ snaps[s].temp /\ (s \in expired \/ Consumed(s)),
         UNCHANGED <<expired, uploads>>, deleted \subseteq deleted', deleted' \subseteq Snapshots,
         sweep' \subseteq sweep \ {s}
  PROVE  RetentionInv'
<1>1. /\ snaps \in [Snapshots -> Snapshot] /\ JobsTypeOK
      /\ snaps' = [snaps EXCEPT ![s].state = "purged"] /\ files' = files \ {s}
      /\ damaged' = damaged \ {s} /\ Save /\ SaveSnaps
  BY DEF RetentionInv, RetentionTypeOK, Purge
<1>2. /\ snaps'[s].state = "purged" /\ snaps'[s].temp = snaps[s].temp
      /\ \A t \in Snapshots \ {s} : snaps'[t] = snaps[t]
  BY <1>1 DEF Snapshot
<1>3. PreviewsHaveRecords(jobs, snaps)'
  <2>1. ASSUME NEW j \in Jobs, jobs'[j].kind = "preview", Active(jobs, j)'
        PROVE  jobs'[j].snap \in Snapshots /\ jobs'[j].snap # s /\ Kept(jobs'[j].snap)
    <3>1. CASE jobs'[j] = jobs[j]
      BY <2>1, <3>1 DEF RetentionInv, StateOK, PreviewsHaveRecords, Active, Kept
    <3>2. CASE Active(jobs, j) /\ jobs'[j].kind = jobs[j].kind /\ jobs'[j].snap = jobs[j].snap
      BY <2>1, <3>2 DEF RetentionInv, StateOK, PreviewsHaveRecords, Kept
    <3>3. CASE jobs'[j].snap \in Snapshots /\ Kept(jobs'[j].snap)
      BY <2>1, <3>3
    <3>. QED
      BY <2>1, <3>1, <3>2, <3>3 DEF JobMoves
  <2>. QED
    BY <1>2, <2>1 DEF PreviewsHaveRecords, Kept
<1>4. PurgedForReason(jobs, snaps)'
  <2>1. \A j \in Jobs : jobs[j].status = "done" => jobs'[j] = jobs[j]
    BY DEF JobMoves, Active
  <2>. QED
    BY <1>2, <2>1 DEF RetentionInv, StateOK, PurgedForReason, Consumed
<1>5. NoDuplicates(snaps)'
  BY <1>2 DEF RetentionInv, StateOK, NoDuplicates
<1>6. InQuota(snaps)'
  <2>1. KeptIn(snaps)' \subseteq KeptIn(snaps)
    BY <1>2 DEF KeptIn
  <2>2. /\ IsFiniteSet(KeptIn(snaps)) /\ Cardinality(KeptIn(snaps)) <= Quota
    BY DEF RetentionInv, StateOK, InQuota
  <2>3. /\ IsFiniteSet(KeptIn(snaps)') /\ Cardinality(KeptIn(snaps)') <= Cardinality(KeptIn(snaps))
        /\ Cardinality(KeptIn(snaps)) \in Nat /\ Cardinality(KeptIn(snaps)') \in Nat
    BY <2>1, <2>2, FS_Subset, FS_CardinalityType
  <2>. QED
    BY <2>2, <2>3, RetentionAssumption DEF InQuota
<1>7. StateOK(jobs, snaps)'
  BY <1>3, <1>4, <1>5, <1>6 DEF StateOK
<1>8. StateOK(saved, savedSnaps)'
  BY <1>1, <1>7, FileFollows DEF RetentionInv
<1>9. RetentionTypeOK'
  <2>1. snaps' \in [Snapshots -> Snapshot]
    BY <1>1 DEF Snapshot
  <2>2. savedSnaps' \in [Snapshots -> Snapshot]
    BY <1>1, <2>1 DEF SaveSnaps, RetentionInv, RetentionTypeOK
  <2>3. sweep' \subseteq Evictable'
    BY <1>2 DEF RetentionInv, RetentionTypeOK, Evictable, Kept
  <2>. QED
    BY <1>1, <2>1, <2>2, <2>3 DEF RetentionInv, RetentionTypeOK, IInv
<1>10. UploadsFresh'
  <2>1. \A u \in uploads : u.snap \in Snapshots
    BY DEF RetentionInv, RetentionTypeOK, Upload
  <2>. QED
    BY <1>2, <2>1 DEF RetentionInv, UploadsFresh
<1>11. FilesMatchRecords'
  BY <1>1, <1>2 DEF RetentionInv, FilesMatchRecords, Kept
<1>. QED
  BY <1>7, <1>8, <1>9, <1>10, <1>11 DEF RetentionInv

\* Steps that write neither file nor record, whatever becomes of jobs in memory.
LEMMA NothingPurged ==
  ASSUME RetentionInv, IInv', \A j \in Jobs : JobMoves(j),
         UNCHANGED <<saved, snaps, savedSnaps, files, uploads, damaged, deleted>>,
         expired \subseteq expired', expired' \subseteq Snapshots,
         sweep' \subseteq Evictable
  PROVE  RetentionInv'
<1>1. StateOK(jobs, snaps)' /\ StateOK(saved, savedSnaps)'
  BY TableMoves, FileStays DEF RetentionInv
<1>2. RetentionTypeOK'
  BY DEF RetentionInv, RetentionTypeOK, IInv, Evictable, Kept
<1>3. UploadsFresh' /\ FilesMatchRecords'
  BY DEF RetentionInv, UploadsFresh, FilesMatchRecords, Kept
<1>. QED
  BY <1>1, <1>2, <1>3 DEF RetentionInv

\* A failed removal is counted, and the jobs stay as they are.
LEMMA FaultCounted ==
  ASSUME IInv, UNCHANGED <<jobs, saved>>, faults' \in 0..MaxFaults
  PROVE  IInv' /\ \A j \in Jobs : JobMoves(j)
BY DEF IInv, JobsTypeOK, OneActiveJobPerDevice, OnePerDevice, Active,
       RestoresAreGrounded, Grounded, GroundedJob, JobMoves

LEMMA DeleteInv ==
  ASSUME RetentionInv, NEW s \in Snapshots, DeleteSnapshot(s)
  PROVE  RetentionInv'
<1>1. /\ sweep = {} /\ snaps[s].state # "none" /\ ~InUse(s)
      /\ UNCHANGED <<jobs, expired, uploads, sweep>>
  BY DEF DeleteSnapshot, LockFree
<1>2. CASE Purge(s) /\ deleted' = deleted \cup {s}
  <2>1. IInv'
    BY <1>1, <1>2, JobsIInvNext DEF RetentionInv, Purge, JobsNext, DeviceStep, Heartbeat
  <2>2. \A j \in Jobs : JobMoves(j) /\ (jobs'[j].snap = s => ~Active(jobs, j)')
    BY <1>1 DEF JobMoves, InUse, Active
  <2>. QED
    BY <1>1, <1>2, <2>1, <2>2, PurgeInv DEF RetentionInv, RetentionTypeOK
<1>3. CASE PurgeFails /\ UNCHANGED deleted
  <2>1. faults' \in 0..MaxFaults
    BY <1>3, JobsAssumption DEF PurgeFails, RetentionInv, IInv, JobsTypeOK
  <2>2. IInv' /\ \A j \in Jobs : JobMoves(j)
    BY <1>1, <1>3, <2>1, FaultCounted DEF PurgeFails, RetentionInv
  <2>. QED
    BY <1>1, <1>3, <2>2, NothingPurged DEF PurgeFails, RetentionInv, RetentionTypeOK
<1>. QED
  BY <1>2, <1>3 DEF DeleteSnapshot

\* cleanupLocked fails the previews that wait for an expired snapshot: what they were
\* made for is over, and no restore rests on them.
LEMMA OverdueFail ==
  ASSUME IInv, NEW s \in Snapshots,
         jobs' = [j \in Jobs |-> IF j \in Overdue(s) THEN [jobs[j] EXCEPT !.status = "failed"]
                                                    ELSE jobs[j]],
         saved' \in {saved, jobs'}, faults' \in 0..MaxFaults
  PROVE  IInv' /\ \A j \in Jobs : JobMoves(j)
<1>1. jobs \in [Jobs -> Job] /\ OnePerDevice(jobs) /\ Grounded(jobs)
  BY DEF IInv, JobsTypeOK, OneActiveJobPerDevice, RestoresAreGrounded
<1>2. jobs' \in [Jobs -> Job]
  BY <1>1 DEF Job, Statuses
<1>3. \A j \in Jobs :
        /\ j \notin Overdue(s) => jobs'[j] = jobs[j]
        /\ j \in Overdue(s) =>
             /\ jobs[j].status = "queued" /\ jobs'[j].status = "failed"
             /\ jobs'[j].kind = jobs[j].kind /\ jobs'[j].kind = "preview"
             /\ jobs'[j].snap = jobs[j].snap
  BY <1>1 DEF Overdue, Job
<1>4. OnePerDevice(jobs')
  BY <1>1, <1>3 DEF OnePerDevice, Active
<1>5. Grounded(jobs')
  <2> SUFFICES ASSUME NEW j \in Jobs, jobs'[j].kind \in {"restore", "rollback"}
               PROVE  GroundedJob(jobs', j)
    BY DEF Grounded, GroundedJob
  <2>1. jobs'[j] = jobs[j]
    BY <1>3
  <2>2. jobs[j].ref \in Jobs /\ jobs[jobs[j].ref].status \in {"done", "failed"}
    BY <1>1, <2>1 DEF Grounded, GroundedJob
  <2>3. jobs'[jobs[j].ref] = jobs[jobs[j].ref]
    BY <1>3, <2>2
  <2>4. GroundedJob(jobs, j)
    BY <1>1 DEF Grounded
  <2> DEFINE t == jobs'
  <2>5. t[j] = jobs[j] /\ t[jobs[j].ref] = jobs[jobs[j].ref]
    BY <2>1, <2>3
  <2> HIDE DEF t
  <2>6. GroundedJob(t, j)
    BY ONLY <2>4, <2>5 DEF GroundedJob
  <2>. QED
    BY <2>6 DEF t
<1>6. IInv'
  BY <1>2, <1>4, <1>5 DEF IInv, JobsTypeOK, OneActiveJobPerDevice, RestoresAreGrounded
<1>7. \A j \in Jobs : JobMoves(j)
  BY <1>3 DEF JobMoves, Active
<1>. QED
  BY <1>6, <1>7

LEMMA VisitInv ==
  ASSUME RetentionInv, NEW s \in Snapshots, Visit(s)
  PROVE  RetentionInv'
<1>1. /\ s \in sweep /\ Kept(s) /\ snaps[s].temp
      /\ UNCHANGED <<expired, uploads, deleted>>
  BY DEF Visit, RetentionInv, RetentionTypeOK, Evictable
<1>2. JobsTypeOK /\ IInv
  BY DEF RetentionInv, IInv
<1>3. jobs' = [j \in Jobs |-> IF j \in Overdue(s) THEN [jobs[j] EXCEPT !.status = "failed"]
                                                 ELSE jobs[j]]
  BY DEF Visit
<1>4. CASE Busy(s) = {} /\ (Consumed(s) \/ s \in expired) /\ Purge(s)
           /\ sweep' = IF faults' = faults THEN sweep \ {s} ELSE {}
  <2>1. saved' \in {saved, jobs'} /\ faults' \in 0..MaxFaults
    BY <1>2, <1>4, SaveFacts DEF Purge
  <2>2. IInv' /\ \A j \in Jobs : JobMoves(j)
    BY <1>2, <1>3, <2>1, OverdueFail
  <2>3. \A j \in Jobs : jobs'[j].kind = "preview" /\ jobs'[j].snap = s => ~Active(jobs, j)'
    <3>1. jobs \in [Jobs -> Job]
      BY <1>2 DEF JobsTypeOK
    <3>2. \A j \in Jobs : j \in Overdue(s) => jobs'[j].status = "failed"
      BY <1>3, <3>1 DEF Job
    <3>3. \A j \in Jobs : j \notin Overdue(s) => jobs'[j] = jobs[j]
      BY <1>3
    <3>. QED
      BY <1>4, <3>2, <3>3 DEF Busy, Active
  <2>. QED
    BY <1>1, <1>4, <2>2, <2>3, PurgeInv DEF Kept, RetentionInv, RetentionTypeOK
<1>5. CASE PurgeFails /\ sweep' = {}
  <2>1. saved' = saved /\ faults' \in 0..MaxFaults
    BY <1>2, <1>5, JobsAssumption DEF PurgeFails, JobsTypeOK
  <2>2. IInv' /\ \A j \in Jobs : JobMoves(j)
    BY <1>2, <1>3, <2>1, OverdueFail
  <2>. QED
    BY <1>1, <1>5, <2>2, NothingPurged DEF PurgeFails, RetentionInv, RetentionTypeOK
<1>6. CASE NotSaved /\ sweep' = sweep \ {s} /\ UNCHANGED <<snaps, files, damaged>>
  <2>1. saved' = saved /\ savedSnaps' = savedSnaps /\ faults' \in 0..MaxFaults
    BY <1>2, <1>6 DEF NotSaved, JobsTypeOK
  <2>2. IInv' /\ \A j \in Jobs : JobMoves(j)
    BY <1>2, <1>3, <2>1, OverdueFail
  <2>. QED
    BY <1>1, <1>6, <2>1, <2>2, NothingPurged DEF RetentionInv, RetentionTypeOK
<1>. QED
  BY <1>4, <1>5, <1>6 DEF Visit

LEMMA ClockInv ==
  ASSUME RetentionInv, CleanupTick \/ (\E s \in Snapshots : DayPasses(s))
  PROVE  RetentionInv'
<1>1. /\ UNCHANGED <<jobVars, snaps, savedSnaps, files, uploads, damaged, deleted>>
      /\ expired \subseteq expired' /\ expired' \subseteq Snapshots
      /\ sweep' \subseteq Evictable
  BY DEF CleanupTick, DayPasses, RetentionInv, RetentionTypeOK
<1>2. IInv' /\ \A j \in Jobs : JobMoves(j)
  BY <1>1, FaultCounted DEF RetentionInv, IInv, JobsTypeOK, jobVars
<1>. QED
  BY <1>1, <1>2, NothingPurged DEF jobVars

-----------------------------------------------------------------------------
(* A restart, and the theorems. *)

\* The file takes the place of the memory.  Whoever was running has failed; where
\* file and memory disagreed the archive may be damaged.
LEMMA RestartInv == ASSUME RetentionInv, ServerRestart PROVE RetentionInv'
<1>1. /\ jobs' = Interrupted(saved) /\ saved' = jobs' /\ snaps' = savedSnaps
      /\ damaged' = damaged \cup {s \in Snapshots : snaps[s].state # savedSnaps[s].state}
      /\ uploads' = {} /\ sweep' = {}
      /\ UNCHANGED <<savedSnaps, files, expired, deleted, faults>>
  BY DEF ServerRestart, Restart
<1>2. IInv'
  BY RestartKeeps DEF RetentionInv, ServerRestart
<1>3. saved \in [Jobs -> Job] /\ StateOK(saved, savedSnaps)
  BY DEF RetentionInv, IInv, JobsTypeOK
<1>4. \A j \in Jobs :
        /\ jobs'[j].kind = saved[j].kind /\ jobs'[j].snap = saved[j].snap
        /\ saved[j].status # "running" => jobs'[j] = saved[j]
        /\ Active(jobs, j)' => Active(saved, j)
  BY <1>1, <1>3, InterruptedFacts DEF Active
<1>5. PreviewsHaveRecords(jobs, snaps)'
  BY <1>1, <1>3, <1>4 DEF StateOK, PreviewsHaveRecords
<1>6. PurgedForReason(jobs, snaps)'
  BY <1>1, <1>3, <1>4 DEF StateOK, PurgedForReason
<1>7. NoDuplicates(snaps)' /\ InQuota(snaps)'
  BY <1>1, <1>3 DEF StateOK, NoDuplicates, InQuota, KeptIn
<1>8. StateOK(jobs, snaps)' /\ StateOK(saved, savedSnaps)'
  BY <1>1, <1>5, <1>6, <1>7 DEF StateOK, PreviewsHaveRecords, PurgedForReason, NoDuplicates,
                               InQuota, KeptIn, Active
<1>9. UploadsFresh' /\ RetentionTypeOK'
  BY <1>1, <1>2, FS_EmptySet, RetentionAssumption
     DEF RetentionInv, RetentionTypeOK, UploadsFresh, IInv
<1>10. FilesMatchRecords'
  BY <1>1 DEF RetentionInv, FilesMatchRecords, Kept
<1>. QED
  BY <1>2, <1>8, <1>9, <1>10 DEF RetentionInv

LEMMA RetentionInvNext == RetentionInv /\ [RetentionNext]_vars => RetentionInv'
<1> SUFFICES ASSUME RetentionInv, [RetentionNext]_vars PROVE RetentionInv'
  OBVIOUS
<1>1. CASE UNCHANGED vars
  BY <1>1, UploadLost DEF vars, snapVars, jobVars
<1>2. ASSUME NEW j \in Jobs, NEW d \in Devices, NEW k \in Kinds,
             NEW s \in Snapshots \cup {None}, NEW r \in Jobs \cup {None}, Create(j, d, k, s, r)
      PROVE  RetentionInv'
  BY <1>2, CreateInv
<1>3. ASSUME NEW j \in Jobs, NEW good \in BOOLEAN, NEW canApply \in BOOLEAN,
             PostResult(j, good, canApply)
      PROVE  RetentionInv'
  BY <1>3, PostResultInv
<1>4. ASSUME NEW u \in Upload, UploadBegin(u) PROVE RetentionInv'
  BY <1>4, UploadBeginInv
<1>5. ASSUME NEW u \in uploads, UploadAbort(u) PROVE RetentionInv'
  BY <1>5, UploadLost DEF UploadAbort
<1>6. ASSUME NEW u \in uploads, UploadCommit(u) PROVE RetentionInv'
  BY <1>6, UploadCommitInv
<1>. QED
  BY <1>1, <1>2, <1>3, <1>4, <1>5, <1>6, OtherJobInv, DeleteInv, VisitInv, ClockInv, RestartInv
     DEF RetentionNext

\* The invariant of jobs, records, archives and transfers, of which the theorems
\* below are parts.
THEOREM RetentionInvariance == RetentionSpec => []RetentionInv
BY RetentionInvInit, RetentionInvNext, PTL DEF RetentionSpec

\* Records are well-formed in memory and on disk, and transfers stay within the slots.
THEOREM RetentionTypeCorrect == RetentionSpec => []RetentionTypeOK
BY RetentionInvariance, PTL DEF RetentionInv

\* No eviction, deletion or restart takes the record of a snapshot that a preview waits
\* for or downloads, nor its archive, unless a restart has separated the two.
THEOREM PreviewsKeepSnapshots == RetentionSpec => []ActivePreviewHasSnapshot
<1>1. RetentionInv => ActivePreviewHasSnapshot
  BY DEF RetentionInv, StateOK, PreviewsHaveRecords, FilesMatchRecords,
         ActivePreviewHasSnapshot, Kept
<1>. QED
  BY <1>1, RetentionInvariance, PTL

\* A record says kept exactly when the archive is there, but for what a restart
\* separated.
THEOREM RecordsMatchFiles == RetentionSpec => []FilesMatchRecords
BY RetentionInvariance, PTL DEF RetentionInv

\* No snapshot is purged before a device has staged an applicable plan of it, a day has
\* passed or the administrator has deleted it.
THEOREM PurgedForAReason == RetentionSpec => []SurvivesUntilUsed
<1>1. RetentionInv => SurvivesUntilUsed
  BY DEF RetentionInv, StateOK, PurgedForReason, SurvivesUntilUsed
<1>. QED
  BY <1>1, RetentionInvariance, PTL

\* Two uploads of one long-term archive end in one record, however they interleave.
THEOREM StoredOnce == RetentionSpec => []NoDuplicateKept
<1>1. RetentionInv => NoDuplicateKept
  BY DEF RetentionInv, StateOK, NoDuplicates, NoDuplicateKept, Kept
<1>. QED
  BY <1>1, RetentionInvariance, PTL

\* The store does not overflow, whatever the uploads saw when they began.
THEOREM NeverOverQuota == RetentionSpec => []QuotaKept
<1>1. RetentionInv => QuotaKept
  BY DEF RetentionInv, StateOK, InQuota, KeptIn, QuotaKept, Used, Kept
<1>. QED
  BY <1>1, RetentionInvariance, PTL

\* What is proved of the job table alone holds with eviction, which fails jobs too.
THEOREM EvictionKeepsJobTable ==
  RetentionSpec => [](OneActiveJobPerDevice /\ RestoresAreGrounded)
<1>1. RetentionInv => OneActiveJobPerDevice /\ RestoresAreGrounded
  BY DEF RetentionInv, IInv
<1>. QED
  BY <1>1, RetentionInvariance, PTL
=============================================================================
