------------------------------ MODULE RelayJobs ------------------------------
(***************************************************************************)
(* The job table of the relay server (src/internal/relay/server.go): the   *)
(* administrator queues and cancels jobs, the device they are for claims   *)
(* them and posts results.  Handlers run under one mutex, so each is one   *)
(* step.  Every handler that changes the table rewrites state.json; when   *)
(* that fails it answers 500 but keeps the change in memory, and a restart *)
(* then goes back to the last state written.                               *)
(***************************************************************************)
EXTENDS Naturals

CONSTANTS
  Devices,
  Jobs,        \* job ids; an id is drawn once
  Snapshots,   \* snapshot ids
  Kinds,       \* the kinds of job the administrator queues
  None,
  MaxFaults    \* bound on failed writes of state.json

ASSUME JobsAssumption ==
  /\ None \notin Devices \cup Jobs \cup Snapshots
  /\ Kinds \subseteq {"export", "scan", "preview", "restore", "rollback"}
  /\ MaxFaults \in Nat

VARIABLES
  jobs,     \* the table in memory
  saved,    \* the table in state.json
  faults    \* failed writes so far

jobVars == <<jobs, saved, faults>>

Statuses == {"none", "queued", "running", "done", "failed", "cancelled"}

Job == [status : Statuses, kind : Kinds \cup {"scan"}, device : Devices \cup {None},
        snap : Snapshots \cup {None}, ref : Jobs \cup {None}, canApply : BOOLEAN]

\* An id not drawn yet.
NoJob == [status |-> "none", kind |-> "scan", device |-> None,
          snap |-> None, ref |-> None, canApply |-> FALSE]

JobsInit ==
  /\ jobs = [j \in Jobs |-> NoJob]
  /\ saved = jobs
  /\ faults = 0

Active(t, j) == t[j].status \in {"queued", "running"}

Finished(j) == jobs[j].status \in {"done", "failed"}

\* save(): the whole state, or nothing when the write fails.
Save ==
  \/ saved' = jobs' /\ UNCHANGED faults
  \/ faults < MaxFaults /\ faults' = faults + 1 /\ UNCHANGED saved

-----------------------------------------------------------------------------
(* The administrator. *)

\* Slip: the preview a restore names is taken from another device too.
ValidJobAnywhere(d, k, s, r) ==
  CASE k \in {"export", "scan"} -> s = None /\ r = None
    [] k = "preview" -> s # None /\ r = None
    [] k = "restore" ->
         /\ r # None /\ jobs[r].kind = "preview" /\ jobs[r].status = "done"
         /\ jobs[r].canApply /\ s = jobs[r].snap
    [] k = "rollback" ->
         /\ s = None /\ r # None /\ jobs[r].kind = "restore" /\ Finished(r)

\* The checks of POST /api/jobs on what a job refers to.
ValidJob(d, k, s, r) ==
  CASE k \in {"export", "scan"} -> s = None /\ r = None
    [] k = "preview" -> s # None /\ r = None
    [] k = "restore" ->
         /\ r # None /\ jobs[r].kind = "preview" /\ jobs[r].status = "done"
         /\ jobs[r].device = d /\ jobs[r].canApply /\ s = jobs[r].snap
    [] k = "rollback" ->
         /\ s = None /\ r # None /\ jobs[r].kind = "restore" /\ Finished(r)
         /\ jobs[r].device = d

\* Slip: a running job does not keep the device busy.
DeviceQueued(d) == \E j \in Jobs : jobs[j].device = d /\ jobs[j].status = "queued"

DeviceBusy(d) == \E j \in Jobs : jobs[j].device = d /\ Active(jobs, j)

\* The references a kind does not use are empty, as the web page sends them.
CreateJob(j, d, k, s, r) ==
  /\ jobs[j].status = "none"
  /\ ValidJob(d, k, s, r)
  /\ ~DeviceBusy(d)
  /\ jobs' = [jobs EXCEPT ![j] = [status |-> "queued", kind |-> k, device |-> d,
                                  snap |-> s, ref |-> r, canApply |-> FALSE]]
  /\ Save

\* Slip: a running job can be cancelled as well.
CancelJobRunning(j) ==
  /\ Active(jobs, j)
  /\ jobs' = [jobs EXCEPT ![j].status = "cancelled"]
  /\ Save

CancelJob(j) ==
  /\ jobs[j].status = "queued"
  /\ jobs' = [jobs EXCEPT ![j].status = "cancelled"]
  /\ Save

-----------------------------------------------------------------------------
(* The device. *)

\* The job GET /api/agent/current reports.
Running(d) == {j \in Jobs : jobs[j].device = d /\ jobs[j].status = "running"}

\* A claim while a job is running answers that job and changes nothing.
Claim(d, j) ==
  /\ Running(d) = {}
  /\ jobs[j].device = d /\ jobs[j].status = "queued"
  /\ jobs' = [jobs EXCEPT ![j].status = "running"]
  /\ Save

\* A result for a finished job is answered with the job and changes nothing.
Result(j, good, canApply) ==
  /\ jobs[j].status = "running"
  /\ jobs' = [jobs EXCEPT ![j] =
                [@ EXCEPT !.status = IF good THEN "done" ELSE "failed",
                          !.canApply = good /\ canApply /\ jobs[j].kind = "preview"]]
  /\ Save

\* A heartbeat writes state.json: it makes good an earlier failure.
Heartbeat == UNCHANGED jobs /\ Save

-----------------------------------------------------------------------------
\* Slip: the jobs a restart interrupts are queued again.
Requeued(t) == [j \in Jobs |-> IF t[j].status = "running"
                                THEN [t[j] EXCEPT !.status = "queued"] ELSE t[j]]

\* NewServer: no job survives as running, since nobody knows what became of it.
Interrupted(t) == [j \in Jobs |-> IF t[j].status = "running"
                                   THEN [t[j] EXCEPT !.status = "failed"] ELSE t[j]]

Restart ==
  /\ jobs' = Interrupted(saved)
  /\ saved' = jobs'
  /\ UNCHANGED faults

AdminStep ==
  \/ \E j \in Jobs, d \in Devices, k \in Kinds,
        s \in Snapshots \cup {None}, r \in Jobs \cup {None} : CreateJob(j, d, k, s, r)
  \/ \E j \in Jobs : CancelJob(j)

DeviceStep ==
  \/ \E d \in Devices, j \in Jobs : Claim(d, j)
  \/ \E j \in Jobs, good, canApply \in BOOLEAN : Result(j, good, canApply)
  \/ Heartbeat

JobsNext == AdminStep \/ DeviceStep \/ Restart

JobsSpec == JobsInit /\ [][JobsNext]_jobVars

-----------------------------------------------------------------------------
\* The table in memory and the table on disk hold well-formed jobs.
JobsTypeOK ==
  /\ jobs \in [Jobs -> Job]
  /\ saved \in [Jobs -> Job]
  /\ faults \in 0..MaxFaults

\* A device never has two jobs under way, in memory or in what a restart loads:
\* the client runs one at a time and Claim answers with the running one.
OnePerDevice(t) ==
  \A i, j \in Jobs : Active(t, i) /\ Active(t, j) /\ t[i].device = t[j].device => i = j

OneActiveJobPerDevice == OnePerDevice(jobs) /\ OnePerDevice(saved)

\* Every restore was preceded by a preview the same device finished without a
\* conflict, every rollback by a restore, whatever restarts undo.
GroundedJob(t, j) ==
  LET r == t[j].ref IN
  /\ t[j].kind = "restore" =>
       /\ r \in Jobs /\ t[r].kind = "preview" /\ t[r].status = "done"
       /\ t[r].canApply /\ t[r].device = t[j].device /\ t[r].snap = t[j].snap
  /\ t[j].kind = "rollback" =>
       /\ r \in Jobs /\ t[r].kind = "restore" /\ t[r].status \in {"done", "failed"}
       /\ t[r].device = t[j].device

Grounded(t) == \A j \in Jobs : GroundedJob(t, j)

RestoresAreGrounded == Grounded(jobs) /\ Grounded(saved)

\* A status only moves forward, and a finished job keeps its result; a restart
\* may undo a step only if the write of state.json after it had failed.
Forward ==
  {<<"none", "queued">>, <<"queued", "running">>, <<"queued", "cancelled">>,
   <<"queued", "failed">>, <<"running", "done">>, <<"running", "failed">>}

StatusOnlyAdvances ==
  [][\A j \in Jobs :
       jobs'[j] # jobs[j] =>
         \/ <<jobs[j].status, jobs'[j].status>> \in Forward
         \/ saved[j] # jobs[j]]_jobVars
=============================================================================
