--------------------------- MODULE RelayRetention ---------------------------
(***************************************************************************)
(* The snapshots of the relay server: uploads (receive in server.go), the  *)
(* administrator's deletion and the eviction of temporary snapshots        *)
(* (retention.go), together with the job table they consult.  A snapshot   *)
(* is a record in the state and an archive in bundles/; the two are        *)
(* changed one after the other.                                            *)
(*                                                                         *)
(* An upload holds the server's lock twice, before and after the transfer. *)
(* cleanupLocked holds it while it goes through the snapshots in map order *)
(* and writes state.json at each eviction: sweep is what it has left to    *)
(* visit, and no other handler runs meanwhile.  A crash between the two    *)
(* halves of a change is a failed write followed by Restart.               *)
(***************************************************************************)
EXTENDS RelayJobs, FiniteSets

CONSTANTS
  Hashes,       \* contents of archives
  Quota,        \* snapshots that fit in the store (20 GiB in the code)
  UploadSlots   \* uploads at a time (2 in the code)

ASSUME RetentionAssumption ==
  /\ None \notin Hashes
  /\ Quota \in Nat
  /\ UploadSlots \in Nat

VARIABLES
  snaps,        \* the snapshot records in memory
  savedSnaps,   \* the records in state.json
  files,        \* snapshots whose archive is in bundles/
  expired,      \* snapshots more than 24 hours old
  uploads,      \* transfers under way
  sweep,        \* snapshots cleanupLocked still has to visit
  damaged,      \* history: half-made changes a restart made permanent
  deleted       \* history: snapshots the administrator deleted

snapVars == <<snaps, savedSnaps, files, expired, uploads, sweep, damaged, deleted>>
vars == <<jobVars, snapVars>>

Snapshot == [state : {"none", "kept", "purged"}, temp : BOOLEAN,
             hash : Hashes \cup {None}]

NoSnapshot == [state |-> "none", temp |-> FALSE, hash |-> None]

\* A manual upload has no job.
Upload == [snap : Snapshots, job : Jobs \cup {None}, hash : Hashes, temp : BOOLEAN]

RetentionInit ==
  /\ JobsInit
  /\ snaps = [s \in Snapshots |-> NoSnapshot]
  /\ savedSnaps = snaps
  /\ files = {} /\ expired = {} /\ uploads = {} /\ sweep = {}
  /\ damaged = {} /\ deleted = {}

Kept(s) == snaps[s].state = "kept"

Used == Cardinality({s \in Snapshots : Kept(s)})

\* What cleanupLocked looks at.
Evictable == {s \in Snapshots : Kept(s) /\ snaps[s].temp}

\* save() writes the snapshots with the jobs, or neither.
SaveSnaps == savedSnaps' = IF faults' = faults THEN snaps' ELSE savedSnaps

NotSaved == UNCHANGED <<saved, savedSnaps, faults>>

LockFree == sweep = {}

-----------------------------------------------------------------------------
(* The job handlers, with what they read and write of the snapshots. *)

\* A preview needs the archive's record, a restore only that there was one.
Usable(k, s) ==
  /\ k = "preview" => Kept(s)
  /\ k = "restore" => snaps[s].state # "none"

Create(j, d, k, s, r) ==
  /\ LockFree
  /\ CreateJob(j, d, k, s, r) /\ Usable(k, s)
  /\ UNCHANGED <<snaps, files, expired, uploads, sweep, damaged, deleted>>
  /\ SaveSnaps

OtherJobStep ==
  /\ LockFree
  /\ \/ \E j \in Jobs : CancelJob(j)
     \/ \E d \in Devices, j \in Jobs : Claim(d, j)
     \/ Heartbeat
  /\ UNCHANGED <<snaps, files, expired, uploads, sweep, damaged, deleted>>
  /\ SaveSnaps

\* A result that was saved is followed by cleanupLocked.
PostResult(j, good, canApply) ==
  /\ LockFree
  /\ Result(j, good, canApply)
  /\ UNCHANGED <<snaps, files, expired, uploads, damaged, deleted>>
  /\ SaveSnaps
  /\ sweep' = IF faults' = faults THEN Evictable ELSE {}

-----------------------------------------------------------------------------
(* Uploads. *)

SlotFree == Cardinality(uploads) < UploadSlots

\* receive, before the transfer: a slot, a running export or the administrator,
\* and room in the store.
UploadBegin(u) ==
  /\ LockFree
  /\ SlotFree
  /\ u.job # None => jobs[u.job].kind = "export" /\ jobs[u.job].status = "running"
  /\ Used < Quota
  /\ snaps[u.snap].state = "none" /\ u.snap \notin files
  /\ \A v \in uploads : v.snap # u.snap
  /\ uploads' = uploads \cup {u}
  /\ UNCHANGED <<jobVars, snaps, savedSnaps, files, expired, sweep, damaged, deleted>>

\* The transfer is cut, or the archive is refused.
UploadAbort(u) ==
  /\ u \in uploads
  /\ uploads' = uploads \ {u}
  /\ UNCHANGED <<jobVars, snaps, savedSnaps, files, expired, sweep, damaged, deleted>>

\* Slip: the room in the store is not looked at again after the transfer.
OverQuotaIgnored(s) == FALSE

OverQuota(s) == Used + 1 > Quota

\* Slip: a purged record is taken for the same archive, a kept one is not.
DuplicateOfPurged(u) ==
  ~u.temp /\ \E s \in Snapshots :
    snaps[s].state = "purged" /\ ~snaps[s].temp /\ snaps[s].hash = u.hash

\* The same long-term archive is stored already: the answer is that record.
Duplicate(u) ==
  ~u.temp /\ \E s \in Snapshots : Kept(s) /\ ~snaps[s].temp /\ snaps[s].hash = u.hash

\* receive, after the transfer.  The job is not looked at again.
UploadCommit(u) ==
  /\ LockFree
  /\ u \in uploads
  /\ uploads' = uploads \ {u}
  /\ UNCHANGED <<jobs, expired, sweep, damaged, deleted>>
  /\ \/ /\ Duplicate(u) \/ OverQuota(u.snap)
        /\ UNCHANGED <<saved, faults, snaps, savedSnaps, files>>
     \/ /\ ~Duplicate(u) /\ ~OverQuota(u.snap)
        /\ files' = files \cup {u.snap}
        /\ snaps' = [snaps EXCEPT ![u.snap] =
                       [state |-> "kept", temp |-> u.temp, hash |-> u.hash]]
        /\ Save /\ SaveSnaps

-----------------------------------------------------------------------------
(* Eviction. *)

\* Slip: the record is kept as it was when its archive is removed.
PurgeFileOnly(s) ==
  /\ files' = files \ {s} /\ UNCHANGED snaps
  /\ damaged' = damaged \ {s}
  /\ Save /\ SaveSnaps

\* Slip: the record goes with its archive.
PurgeForgets(s) ==
  /\ files' = files \ {s}
  /\ snaps' = [t \in Snapshots \ {s} |-> snaps[t]]
  /\ damaged' = damaged \ {s}
  /\ Save /\ SaveSnaps

\* purgeLocked: the archive first (it may be gone already), then the record.
Purge(s) ==
  /\ files' = files \ {s}
  /\ snaps' = [snaps EXCEPT ![s].state = "purged"]
  /\ damaged' = damaged \ {s}
  /\ Save /\ SaveSnaps

\* Removing the archive fails: purgeLocked gives up.
PurgeFails ==
  /\ faults < MaxFaults /\ faults' = faults + 1
  /\ UNCHANGED <<saved, snaps, savedSnaps, files, damaged>>

\* Slip: a running job does not keep the administrator from deleting.
InUseQueued(s) == \E j \in Jobs : jobs[j].snap = s /\ jobs[j].status = "queued"

InUse(s) == \E j \in Jobs : jobs[j].snap = s /\ Active(jobs, j)

\* DELETE /api/snapshots/{id}.  A record already purged is purged again.
DeleteSnapshot(s) ==
  /\ LockFree
  /\ snaps[s].state # "none" /\ ~InUse(s)
  /\ UNCHANGED <<jobs, expired, uploads, sweep>>
  /\ \/ Purge(s) /\ deleted' = deleted \cup {s}
     \/ PurgeFails /\ UNCHANGED deleted

\* Slip: a preview that found conflicts consumes the snapshot too.
ConsumedByAny(s) ==
  \E j \in Jobs : jobs[j].snap = s /\ jobs[j].kind = "preview" /\ jobs[j].status = "done"

Consumed(s) ==
  \E j \in Jobs : /\ jobs[j].snap = s /\ jobs[j].kind = "preview"
                  /\ jobs[j].status = "done" /\ jobs[j].canApply

\* Slip: a preview that waits keeps its snapshot, however old.
OverdueNever(s) == {}

\* Previews that wait for an expired snapshot: cleanupLocked fails them.
Overdue(s) ==
  {j \in Jobs : jobs[j].snap = s /\ jobs[j].kind = "preview"
                /\ jobs[j].status = "queued" /\ s \in expired}

\* Previews that keep the snapshot: busy in cleanupLocked.
Busy(s) ==
  {j \in Jobs : jobs[j].snap = s /\ jobs[j].kind = "preview" /\ Active(jobs, j)}
    \ Overdue(s)

\* One turn of the loop of cleanupLocked.  A failure ends the loop; without an
\* eviction the previews it failed are written by the next handler that saves.
Visit(s) ==
  /\ s \in sweep
  /\ jobs' = [j \in Jobs |-> IF j \in Overdue(s) THEN [jobs[j] EXCEPT !.status = "failed"]
                                                 ELSE jobs[j]]
  /\ IF Busy(s) = {} /\ (Consumed(s) \/ s \in expired)
     THEN \/ Purge(s) /\ sweep' = IF faults' = faults THEN sweep \ {s} ELSE {}
          \/ PurgeFails /\ sweep' = {}
     ELSE NotSaved /\ sweep' = sweep \ {s} /\ UNCHANGED <<snaps, files, damaged>>
  /\ UNCHANGED <<expired, uploads, deleted>>

\* Every minute, and when the server starts.
CleanupTick ==
  /\ LockFree
  /\ Evictable # {}
  /\ sweep' = Evictable
  /\ UNCHANGED <<jobVars, snaps, savedSnaps, files, expired, uploads, damaged, deleted>>

DayPasses(s) ==
  /\ Kept(s) /\ snaps[s].temp /\ s \notin expired
  /\ expired' = expired \cup {s}
  /\ UNCHANGED <<jobVars, snaps, savedSnaps, files, uploads, sweep, damaged, deleted>>

\* NewServer, from the last state written.
ServerRestart ==
  /\ Restart
  /\ snaps' = savedSnaps
  /\ damaged' = damaged \cup {s \in Snapshots : snaps[s].state # savedSnaps[s].state}
  /\ uploads' = {} /\ sweep' = {}
  /\ UNCHANGED <<savedSnaps, files, expired, deleted>>

RetentionNext ==
  \/ \E j \in Jobs, d \in Devices, k \in Kinds,
        s \in Snapshots \cup {None}, r \in Jobs \cup {None} : Create(j, d, k, s, r)
  \/ OtherJobStep
  \/ \E j \in Jobs, good, canApply \in BOOLEAN : PostResult(j, good, canApply)
  \/ \E u \in Upload : UploadBegin(u)
  \/ \E u \in uploads : UploadAbort(u) \/ UploadCommit(u)
  \/ \E s \in Snapshots : DeleteSnapshot(s) \/ Visit(s) \/ DayPasses(s)
  \/ CleanupTick
  \/ ServerRestart

RetentionSpec == RetentionInit /\ [][RetentionNext]_vars

\* The server gets through its sweeps now and then, time passes, and devices
\* report what they ran (a restart of the server ends a running job as well).
Fairness ==
  /\ WF_vars(CleanupTick)
  /\ \A s \in Snapshots : SF_vars(Visit(s)) /\ WF_vars(DayPasses(s))
  /\ \A j \in Jobs : SF_vars(\E good, canApply \in BOOLEAN : PostResult(j, good, canApply))

FairRetentionSpec == RetentionSpec /\ Fairness

-----------------------------------------------------------------------------
\* The records in memory and on disk are well-formed; transfers stay within the
\* upload slots and their ids are distinct.
RetentionTypeOK ==
  /\ JobsTypeOK
  /\ snaps \in [Snapshots -> Snapshot]
  /\ savedSnaps \in [Snapshots -> Snapshot]
  /\ uploads \subseteq Upload /\ Cardinality(uploads) <= UploadSlots
  /\ files \cup expired \cup damaged \cup deleted \subseteq Snapshots
  /\ sweep \subseteq Evictable

\* Nothing evicts the snapshot a preview waits for or is downloading: download()
\* reads the record under the lock but opens the archive after releasing it.
ActivePreviewHasSnapshot ==
  \A j \in Jobs :
    jobs[j].kind = "preview" /\ Active(jobs, j) =>
      /\ Kept(jobs[j].snap)
      /\ jobs[j].snap \notin damaged => jobs[j].snap \in files

\* A record says kept exactly when its archive is in bundles/, unless a restart
\* came between the change of the file and the write of the record.
FilesMatchRecords == \A s \in Snapshots \ damaged : Kept(s) <=> s \in files

\* What is recorded fits in the store, whatever two uploads saw when they began.
QuotaKept == Used <= Quota

\* Two long-term snapshots never hold the same archive, even when they were
\* uploaded at the same time.
NoDuplicateKept ==
  \A s, t \in Snapshots :
    /\ Kept(s) /\ Kept(t) /\ ~snaps[s].temp /\ ~snaps[t].temp
    /\ snaps[s].hash = snaps[t].hash
    => s = t

\* A snapshot is purged only by the administrator or, when it is temporary,
\* because 24 hours have passed or a device has staged an applicable plan of it;
\* a conflicting preview or the mere download does not count.
SurvivesUntilUsed ==
  \A s \in Snapshots :
    snaps[s].state = "purged" =>
      \/ s \in deleted
      \/ /\ snaps[s].temp
         /\ \/ s \in expired
            \/ \E j \in Jobs : /\ jobs[j].kind = "preview" /\ jobs[j].snap = s
                              /\ jobs[j].status = "done" /\ jobs[j].canApply

\* A temporary snapshot does not stay in the store for ever.
TemporaryEventuallyEvicted ==
  \A s \in Snapshots : s \in Evictable ~> s \notin Evictable
=============================================================================
