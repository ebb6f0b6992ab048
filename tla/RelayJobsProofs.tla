--------------------------- MODULE RelayJobsProofs ---------------------------
(***************************************************************************)
(* Proofs about RelayJobs: what its run checks with two devices and four   *)
(* jobs holds for any number of them and any number of failed writes.      *)
(*                                                                         *)
(* A property of the table is proved of jobs; Save copies jobs to saved or *)
(* leaves saved alone, so it holds of saved as well, and a restart only    *)
(* turns running jobs of saved into failed ones.                           *)
(***************************************************************************)
EXTENDS RelayJobs, TLAPS

IInv == JobsTypeOK /\ OneActiveJobPerDevice /\ RestoresAreGrounded

\* Whatever Save does, a property of both the new table and the old file is a
\* property of the new file.
LEMMA SaveFacts ==
  ASSUME JobsTypeOK, Save
  PROVE  /\ saved' = jobs' \/ saved' = saved
         /\ faults' \in 0..MaxFaults
BY JobsAssumption DEF Save, JobsTypeOK

\* The jobs a restart finds are those of the file, the running ones failed.
LEMMA InterruptedFacts ==
  ASSUME NEW t \in [Jobs -> Job]
  PROVE  /\ Interrupted(t) \in [Jobs -> Job]
         /\ \A j \in Jobs :
              /\ Interrupted(t)[j] = IF t[j].status = "running"
                                     THEN [t[j] EXCEPT !.status = "failed"] ELSE t[j]
              /\ Interrupted(t)[j].kind = t[j].kind
              /\ Interrupted(t)[j].device = t[j].device
              /\ Interrupted(t)[j].snap = t[j].snap
              /\ Interrupted(t)[j].ref = t[j].ref
              /\ Interrupted(t)[j].canApply = t[j].canApply
              /\ Interrupted(t)[j].status \in Statuses
              /\ Interrupted(t)[j].status # "running"
              /\ t[j].status # "running" => Interrupted(t)[j] = t[j]
BY DEF Interrupted, Job, Statuses

\* The empty table satisfies the invariant.
LEMMA JobsIInvInit == JobsInit => IInv
<1> SUFFICES ASSUME JobsInit PROVE IInv
  OBVIOUS
<1>1. NoJob \in Job
  BY DEF NoJob, Job, Statuses
<1>2. JobsTypeOK
  BY <1>1, JobsAssumption DEF JobsInit, JobsTypeOK
<1>3. \A j \in Jobs : jobs[j] = NoJob /\ saved[j] = NoJob
  BY DEF JobsInit
<1>4. OneActiveJobPerDevice
  BY <1>3 DEF OneActiveJobPerDevice, OnePerDevice, Active, NoJob
<1>5. RestoresAreGrounded
  BY <1>3 DEF RestoresAreGrounded, Grounded, GroundedJob, NoJob
<1>. QED
  BY <1>2, <1>4, <1>5 DEF IInv

\* A handler that keeps the new table well-formed, one job per device and
\* grounded keeps the invariant: Save can only copy it or not.
LEMMA HandlerKeeps ==
  ASSUME IInv, Save, jobs' \in [Jobs -> Job],
         OnePerDevice(jobs'), Grounded(jobs')
  PROVE  IInv'
<1>1. JobsTypeOK'
  BY SaveFacts DEF IInv, JobsTypeOK
<1>2. OneActiveJobPerDevice'
  BY SaveFacts DEF IInv, OneActiveJobPerDevice
<1>3. RestoresAreGrounded'
  BY SaveFacts DEF IInv, RestoresAreGrounded
<1>. QED
  BY <1>1, <1>2, <1>3 DEF IInv

\* One job of the table gets another status; its other fields stay.
LEMMA MoveKeeps ==
  ASSUME IInv, NEW j \in Jobs, NEW new \in Job,
         jobs' = [jobs EXCEPT ![j] = new],
         new.kind = jobs[j].kind, new.device = jobs[j].device,
         new.snap = jobs[j].snap, new.ref = jobs[j].ref,
         Active(jobs, j)
  PROVE  /\ jobs' \in [Jobs -> Job]
         /\ OnePerDevice(jobs')
         /\ Grounded(jobs')
<1>1. jobs \in [Jobs -> Job] /\ OnePerDevice(jobs) /\ Grounded(jobs)
  BY DEF IInv, JobsTypeOK, OneActiveJobPerDevice, RestoresAreGrounded
<1>2. jobs' \in [Jobs -> Job]
  BY <1>1
<1>3. \A i \in Jobs : jobs'[i] = IF i = j THEN new ELSE jobs[i]
  BY <1>1
<1>4. OnePerDevice(jobs')
  BY <1>1, <1>3 DEF OnePerDevice, Active
<1>5. \A i \in Jobs : jobs[i].ref = j =>
        jobs[i].kind \notin {"restore", "rollback"}
  BY <1>1 DEF Grounded, GroundedJob, Active
<1>6. Grounded(jobs')
  <2> SUFFICES ASSUME NEW i \in Jobs
               PROVE  GroundedJob(jobs', i)
    BY DEF Grounded
  <2>1. jobs'[i].kind = jobs[i].kind /\ jobs'[i].ref = jobs[i].ref
        /\ jobs'[i].device = jobs[i].device /\ jobs'[i].snap = jobs[i].snap
    BY <1>3
  <2>2. jobs[i].kind \in {"restore", "rollback"} => jobs'[jobs[i].ref] = jobs[jobs[i].ref]
    BY <1>1, <1>5
  <2>. QED
    BY <1>1, <2>1, <2>2 DEF Grounded, GroundedJob
<1>. QED
  BY <1>2, <1>4, <1>6

\* A new job finds the device idle, and refers to a finished job of its device.
LEMMA CreateKeeps ==
  ASSUME IInv, NEW j \in Jobs, NEW d \in Devices, NEW k \in Kinds,
         NEW s \in Snapshots \cup {None}, NEW r \in Jobs \cup {None},
         CreateJob(j, d, k, s, r)
  PROVE  IInv'
<1> DEFINE new == [status |-> "queued", kind |-> k, device |-> d,
                   snap |-> s, ref |-> r, canApply |-> FALSE]
<1>1. jobs \in [Jobs -> Job] /\ OnePerDevice(jobs) /\ Grounded(jobs)
  BY DEF IInv, JobsTypeOK, OneActiveJobPerDevice, RestoresAreGrounded
<1>2. new \in Job
  BY DEF Job, Statuses
<1>3. /\ jobs' = [jobs EXCEPT ![j] = new]
      /\ jobs[j].status = "none" /\ ~DeviceBusy(d) /\ ValidJob(d, k, s, r) /\ Save
  BY DEF CreateJob
<1>4. jobs' \in [Jobs -> Job]
  BY <1>1, <1>2, <1>3
<1>5. \A i \in Jobs : jobs'[i] = IF i = j THEN new ELSE jobs[i]
  BY <1>1, <1>3
<1>6. OnePerDevice(jobs')
  BY <1>1, <1>3, <1>5 DEF OnePerDevice, Active, DeviceBusy
<1>7. Grounded(jobs')
  <2> SUFFICES ASSUME NEW i \in Jobs
               PROVE  GroundedJob(jobs', i)
    BY DEF Grounded
  <2>1. CASE i = j
    <3>1. CASE k = "restore"
      <4>1. /\ r \in Jobs /\ jobs[r].kind = "preview" /\ jobs[r].status = "done"
            /\ jobs[r].device = d /\ jobs[r].canApply /\ s = jobs[r].snap
        BY <1>3, <3>1 DEF ValidJob
      <4>2. jobs'[r] = jobs[r] /\ jobs'[i] = new
        BY <1>3, <1>5, <4>1, <2>1
      <4>. QED
        BY <3>1, <4>1, <4>2 DEF GroundedJob
    <3>2. CASE k = "rollback"
      <4>1. /\ r \in Jobs /\ jobs[r].kind = "restore"
            /\ jobs[r].status \in {"done", "failed"} /\ jobs[r].device = d
        BY <1>3, <3>2 DEF ValidJob, Finished
      <4>2. jobs'[r] = jobs[r] /\ jobs'[i] = new
        BY <1>3, <1>5, <4>1, <2>1
      <4>. QED
        BY <3>2, <4>1, <4>2 DEF GroundedJob
    <3>. QED
      BY <3>1, <3>2, <1>5, <2>1 DEF GroundedJob
  <2>2. CASE i # j
    <3>1. jobs'[i] = jobs[i]
      BY <1>5, <2>2
    <3>2. jobs[i].kind \in {"restore", "rollback"} => jobs[i].ref # j
      BY <1>1, <1>3 DEF Grounded, GroundedJob
    <3>3. jobs[i].kind \in {"restore", "rollback"} => jobs'[jobs[i].ref] = jobs[jobs[i].ref]
      BY <1>1, <1>3, <3>2
    <3>. QED
      BY <1>1, <3>1, <3>3 DEF Grounded, GroundedJob
  <2>. QED
    BY <2>1, <2>2
<1>. QED
  BY <1>3, <1>4, <1>6, <1>7, HandlerKeeps

\* A restart loads a table of one job per device, grounded, nothing running.
LEMMA RestartKeeps == ASSUME IInv, Restart PROVE IInv'
<1> DEFINE t == Interrupted(saved)
<1>1. saved \in [Jobs -> Job] /\ OnePerDevice(saved) /\ Grounded(saved)
  BY DEF IInv, JobsTypeOK, OneActiveJobPerDevice, RestoresAreGrounded
<1>2. jobs' = t /\ saved' = t /\ faults' = faults
  BY DEF Restart
<1>3. t \in [Jobs -> Job]
  BY <1>1, InterruptedFacts
<1>4. OnePerDevice(t)
  <2>1. \A j \in Jobs : Active(t, j) => Active(saved, j)
    BY <1>1, InterruptedFacts DEF Active
  <2>. QED
    BY <1>1, <2>1, InterruptedFacts DEF OnePerDevice
<1>5. Grounded(t)
  <2> HIDE DEF t
  <2>1. \A j \in Jobs :
          /\ t[j].kind = saved[j].kind /\ t[j].device = saved[j].device
          /\ t[j].snap = saved[j].snap /\ t[j].ref = saved[j].ref
          /\ saved[j].status # "running" => t[j] = saved[j]
    BY <1>1, InterruptedFacts DEF t
  <2>2. \A j \in Jobs : saved[j].kind \in {"restore", "rollback"} =>
          t[saved[j].ref] = saved[saved[j].ref]
    <3> SUFFICES ASSUME NEW j \in Jobs, saved[j].kind \in {"restore", "rollback"}
                 PROVE  t[saved[j].ref] = saved[saved[j].ref]
      OBVIOUS
    <3>1. saved[j].ref \in Jobs /\ saved[saved[j].ref].status \in {"done", "failed"}
      BY <1>1 DEF Grounded, GroundedJob
    <3>. QED
      BY <2>1, <3>1
  <2>. QED
    BY <1>1, <2>1, <2>2 DEF Grounded, GroundedJob
<1>. QED
  BY <1>2, <1>3, <1>4, <1>5
     DEF IInv, JobsTypeOK, OneActiveJobPerDevice, RestoresAreGrounded

\* Every step keeps the invariant.
LEMMA JobsIInvNext == IInv /\ [JobsNext]_jobVars => IInv'
<1> SUFFICES ASSUME IInv, [JobsNext]_jobVars PROVE IInv'
  OBVIOUS
<1>0. jobs \in [Jobs -> Job] /\ OnePerDevice(jobs) /\ Grounded(jobs)
  BY DEF IInv, JobsTypeOK, OneActiveJobPerDevice, RestoresAreGrounded
<1>1. ASSUME NEW j \in Jobs, NEW d \in Devices, NEW k \in Kinds,
             NEW s \in Snapshots \cup {None}, NEW r \in Jobs \cup {None},
             CreateJob(j, d, k, s, r)
      PROVE  IInv'
  BY <1>1, CreateKeeps
<1>2. ASSUME NEW j \in Jobs, CancelJob(j) PROVE IInv'
  <2> DEFINE new == [jobs[j] EXCEPT !.status = "cancelled"]
  <2>1. new \in Job /\ jobs' = [jobs EXCEPT ![j] = new] /\ Active(jobs, j) /\ Save
    BY <1>0, <1>2 DEF CancelJob, Active, Job, Statuses
  <2>2. new.kind = jobs[j].kind /\ new.device = jobs[j].device
        /\ new.snap = jobs[j].snap /\ new.ref = jobs[j].ref
    BY <1>0 DEF Job
  <2>. QED
    BY <2>1, <2>2, MoveKeeps, HandlerKeeps
<1>3. ASSUME NEW d \in Devices, NEW j \in Jobs, Claim(d, j) PROVE IInv'
  <2> DEFINE new == [jobs[j] EXCEPT !.status = "running"]
  <2>1. new \in Job /\ jobs' = [jobs EXCEPT ![j] = new] /\ Active(jobs, j) /\ Save
    BY <1>0, <1>3 DEF Claim, Active, Job, Statuses
  <2>2. new.kind = jobs[j].kind /\ new.device = jobs[j].device
        /\ new.snap = jobs[j].snap /\ new.ref = jobs[j].ref
    BY <1>0 DEF Job
  <2>. QED
    BY <2>1, <2>2, MoveKeeps, HandlerKeeps
<1>4. ASSUME NEW j \in Jobs, NEW good \in BOOLEAN, NEW canApply \in BOOLEAN,
             Result(j, good, canApply)
      PROVE  IInv'
  <2> DEFINE status == IF good THEN "done" ELSE "failed"
             apply == good /\ canApply /\ jobs[j].kind = "preview"
             new == [jobs[j] EXCEPT !.status = status, !.canApply = apply]
  <2>1. Active(jobs, j) /\ Save /\ jobs' = [jobs EXCEPT ![j] = new]
    BY <1>4 DEF Result, Active
  <2>2. status \in Statuses /\ apply \in BOOLEAN
    BY DEF Statuses
  <2>3. /\ new \in Job
        /\ new.kind = jobs[j].kind /\ new.device = jobs[j].device
        /\ new.snap = jobs[j].snap /\ new.ref = jobs[j].ref
    <3> HIDE DEF status, apply
    <3>. QED
      BY <1>0, <2>2 DEF Job
  <2> HIDE DEF new
  <2>. QED
    BY <2>1, <2>3, MoveKeeps, HandlerKeeps
<1>5. CASE Heartbeat
  <2>1. Save /\ jobs' = jobs
    BY <1>5 DEF Heartbeat
  <2>. QED
    BY <1>0, <2>1, HandlerKeeps
<1>6. CASE Restart
  BY <1>6, RestartKeeps
<1>7. CASE UNCHANGED jobVars
  BY <1>7 DEF jobVars, IInv, JobsTypeOK, OneActiveJobPerDevice, RestoresAreGrounded
<1>. QED
  BY <1>1, <1>2, <1>3, <1>4, <1>5, <1>6, <1>7 DEF JobsNext, AdminStep, DeviceStep

\* The invariant of the job table, from which the theorems below follow.
THEOREM JobsInvariance == JobsSpec => []IInv
BY JobsIInvInit, JobsIInvNext, PTL DEF JobsSpec

\* The tables in memory and on disk always hold well-formed jobs.
THEOREM JobsTypeCorrect == JobsSpec => []JobsTypeOK
BY JobsInvariance, PTL DEF IInv

\* No device ever has two jobs queued or running, before or after a restart.
THEOREM OneActivePerDevice == JobsSpec => []OneActiveJobPerDevice
BY JobsInvariance, PTL DEF IInv

\* Every restore rests on an applicable preview of its device, every rollback
\* on a restore, whatever restarts undo.
THEOREM AlwaysGrounded == JobsSpec => []RestoresAreGrounded
BY JobsInvariance, PTL DEF IInv

\* What StatusOnlyAdvances asks of one step.
Advances ==
  \A j \in Jobs :
    jobs'[j] # jobs[j] =>
      \/ <<jobs[j].status, jobs'[j].status>> \in Forward
      \/ saved[j] # jobs[j]

\* Every step advances the jobs it changes, a restart those whose last change
\* had been written.
LEMMA StepAdvances == JobsTypeOK /\ [JobsNext]_jobVars => Advances
<1> SUFFICES ASSUME JobsTypeOK, [JobsNext]_jobVars, NEW i \in Jobs,
                    jobs'[i] # jobs[i], saved[i] = jobs[i]
             PROVE  <<jobs[i].status, jobs'[i].status>> \in Forward
  BY DEF Advances
<1>0. jobs \in [Jobs -> Job] /\ saved \in [Jobs -> Job]
  BY DEF JobsTypeOK
<1>1. ASSUME NEW j \in Jobs, NEW d \in Devices, NEW k \in Kinds,
             NEW s \in Snapshots \cup {None}, NEW r \in Jobs \cup {None},
             CreateJob(j, d, k, s, r)
      PROVE  <<jobs[i].status, jobs'[i].status>> \in Forward
  BY <1>0, <1>1 DEF CreateJob, Forward
<1>2. ASSUME NEW j \in Jobs, CancelJob(j)
      PROVE  <<jobs[i].status, jobs'[i].status>> \in Forward
  BY <1>0, <1>2 DEF CancelJob, Forward, Job
<1>3. ASSUME NEW d \in Devices, NEW j \in Jobs, Claim(d, j)
      PROVE  <<jobs[i].status, jobs'[i].status>> \in Forward
  BY <1>0, <1>3 DEF Claim, Forward, Job
<1>4. ASSUME NEW j \in Jobs, NEW good \in BOOLEAN, NEW canApply \in BOOLEAN,
             Result(j, good, canApply)
      PROVE  <<jobs[i].status, jobs'[i].status>> \in Forward
  <2> DEFINE status == IF good THEN "done" ELSE "failed"
             apply == good /\ canApply /\ jobs[j].kind = "preview"
             new == [jobs[j] EXCEPT !.status = status, !.canApply = apply]
  <2>1. jobs[j].status = "running" /\ jobs' = [jobs EXCEPT ![j] = new]
    BY <1>4 DEF Result
  <2>2. i = j /\ jobs'[i] = new
    BY <1>0, <2>1
  <2>3. status \in {"done", "failed"} /\ jobs'[i].status = status
    <3>1. status \in {"done", "failed"}
      OBVIOUS
    <3> HIDE DEF status, apply
    <3>. QED
      BY <1>0, <2>2, <3>1 DEF Job
  <2>. QED
    BY <2>1, <2>2, <2>3 DEF Forward
<1>5. CASE Restart
  <2>1. jobs'[i] = Interrupted(saved)[i]
    BY <1>5 DEF Restart
  <2>2. jobs[i].status = "running" /\ jobs'[i] = [jobs[i] EXCEPT !.status = "failed"]
    BY <1>0, <2>1, InterruptedFacts
  <2>. QED
    BY <1>0, <2>2 DEF Forward, Job
<1>. QED
  BY <1>1, <1>2, <1>3, <1>4, <1>5
     DEF JobsNext, AdminStep, DeviceStep, Heartbeat, jobVars

\* A status only moves forward and a finished job keeps its result, except for
\* what a failed write lost.
THEOREM AlwaysAdvances == JobsSpec => StatusOnlyAdvances
<1>1. JobsTypeOK /\ [JobsNext]_jobVars => [Advances]_jobVars
  BY StepAdvances
<1>. QED
  BY <1>1, JobsTypeCorrect, PTL DEF JobsSpec, StatusOnlyAdvances, Advances
=============================================================================
