------------------------- MODULE RelayDeliveryProofs -------------------------
(***************************************************************************)
(* Proofs about RelayDelivery: what its run checks with two jobs holds for *)
(* any number of jobs and devices, any number of crashes, restarts and     *)
(* lost messages, and any number of abandoned requests, as long as         *)
(* state.json could be written.  (DeliveryReplay shows that one failed     *)
(* write, of a claim that is served late, is enough to break it.)          *)
(*                                                                         *)
(* The argument is about the jobs the client is accountable for: those it  *)
(* has started and those it has sent a result of.  The server knows that   *)
(* they were claimed.  The client is back in its loop only when each of    *)
(* them has a durable result or is over at the server, so that a claim is  *)
(* never answered with one of them that it would run again.                *)
(***************************************************************************)
EXTENDS RelayDelivery, RelayJobsProofs

\* A job the server has handed out.
HandedOut(j) == jobs[j].device = Me /\ jobs[j].status \in {"running", "done", "failed"}

\* The requests the server may still serve.
Pending == stale \cup {request}

Asked(j) == \E q \in Pending : q.op = "result" /\ q.job = j

Accountable(j) == j \in started \/ Asked(j)

Settled(j) == results[j] # "none" \/ Finished(j)

Waiting == {"greeting", "checking", "recovering", "beating", "claiming", "posting"}

OpOf == [greeting |-> "heartbeat", checking |-> "current", recovering |-> "result",
         beating |-> "heartbeat", claiming |-> "claim", posting |-> "result"]

DeliveryTypeOK ==
  /\ IInv
  /\ pc \in {"down", "idle", "running"} \cup Waiting
  /\ job \in Jobs \cup {None}
  /\ results \in [Jobs -> Outcomes]
  /\ request \in Request \cup {Nothing}
  /\ stale \subseteq Request
  /\ reply \in {NoReply, Failure} \cup {Answer(j) : j \in Jobs \cup {None}}
  /\ started \subseteq Jobs
  /\ \A q \in Pending : q.op = "result" => q.job \in Jobs /\ q.outcome \in {"good", "bad"}

\* One request at a time, of the kind the client waits for; no answer out of season.
OneRequest ==
  /\ request # Nothing => pc \in Waiting /\ request.op = OpOf[pc] /\ reply = NoReply
  /\ pc \notin Waiting => reply = NoReply
  /\ pc \in {"idle", "beating"} /\ job # None => results[job] # "none"
  /\ pc = "posting" => job \in Jobs /\ results[job] # "none"
  /\ pc \in {"down", "greeting", "checking", "recovering", "claiming"} => job = None

\* What the client reports is what it recorded, or that it does not know.
TrueRequests ==
  \A q \in Pending : q.op = "result" =>
    /\ q.outcome = "good" => results[q.job] = "good"
    /\ q.outcome = "bad" => results[q.job] \in {"none", "bad"}

AccountsHandedOut == \A j \in Jobs : Accountable(j) => HandedOut(j)

InLoop ==
  pc \in {"idle", "beating", "claiming", "posting"} => \A j \in Jobs : Accountable(j) => Settled(j)

ResultOfHandedOut ==
  pc \in {"idle", "beating", "posting"} /\ job \in Jobs => HandedOut(job)

\* A job the client is about to run, or runs, was never its business before.
Fresh(j) ==
  /\ HandedOut(j)
  /\ jobs[j].status = "failed" => j \in interrupted

ClaimAnswered ==
  \A j \in Jobs : pc = "claiming" /\ reply = Answer(j) =>
    HandedOut(j) /\ (results[j] = "none" => Fresh(j) /\ ~Accountable(j))

OnRun ==
  pc = "running" =>
    /\ job \in started /\ job \in Jobs /\ results[job] = "none"
    /\ Fresh(job) /\ ~Asked(job)
    /\ \A j \in Jobs \ {job} : Accountable(j) => Settled(j)

\* What GET /api/agent/current answers names the one job that is not over.
CurrentAnswered ==
  pc = "checking" =>
    /\ reply = Answer(None) => \A j \in Jobs : Accountable(j) => Finished(j)
    /\ \A i \in Jobs : reply = Answer(i) =>
         HandedOut(i) /\ \A j \in Jobs \ {i} : Accountable(j) => Finished(j)

Recovery ==
  pc = "recovering" =>
    /\ request # Nothing =>
         \A j \in Jobs \ {request.job} : Accountable(j) => Finished(j)
    /\ reply.ok => \A j \in Jobs : Accountable(j) => Finished(j)

Orderly ==
  /\ saved = jobs
  /\ twice = {}
  /\ ReportsAreTrue
  /\ TrueRequests
  /\ AccountsHandedOut
  /\ InLoop
  /\ ResultOfHandedOut
  /\ ClaimAnswered
  /\ OnRun
  /\ CurrentAnswered
  /\ Recovery

DeliveryInv == DeliveryTypeOK /\ OneRequest /\ (faults = 0 => Orderly)
-----------------------------------------------------------------------------
(* Well-formedness, which needs no assumption on failed writes. *)

\* What serving a request does to the table is a step of the job table.
LEMMA ServeIsJobsStep ==
  ASSUME DeliveryTypeOK, NEW q \in Pending, q # Nothing, NEW a, Serve(q, a)
  PROVE  [JobsNext]_jobVars
<1>1. q.op = "result" => q.job \in Jobs
  BY DEF DeliveryTypeOK
<1>2. ASSUME ServeClaim(a) PROVE [JobsNext]_jobVars
  BY <1>2, DeliveryAssumption DEF ServeClaim, JobsNext, DeviceStep
<1>3. ASSUME q.op = "result", ServeResult(q.job, q.outcome, a) PROVE [JobsNext]_jobVars
  <2>1. (q.outcome = "good") \in BOOLEAN /\ FALSE \in BOOLEAN
    OBVIOUS
  <2>. QED
    BY <1>1, <1>3, <2>1 DEF ServeResult, JobsNext, DeviceStep
<1>4. ASSUME ServeHeartbeat(a) PROVE [JobsNext]_jobVars
  BY <1>4 DEF ServeHeartbeat, JobsNext, DeviceStep
<1>. QED
  BY <1>2, <1>3, <1>4 DEF Serve

\* Every step of the composition is a step of the job table or leaves it alone.
LEMMA DeliveryIsJobsStep ==
  DeliveryTypeOK /\ [DeliveryNext]_vars => [JobsNext]_jobVars
<1> SUFFICES ASSUME DeliveryTypeOK, [DeliveryNext]_vars PROVE [JobsNext]_jobVars
  OBVIOUS
<1>1. CASE ServeRequest
  <2>1. PICK a \in Answers : Serve(request, a)
    BY <1>1 DEF ServeRequest
  <2>2. request \in Pending /\ request # Nothing
    BY <1>1 DEF ServeRequest, Pending
  <2>. QED
    BY <2>1, <2>2, ServeIsJobsStep
<1>2. ASSUME NEW q \in stale, ServeStale(q) PROVE [JobsNext]_jobVars
  <2>1. PICK a \in Answers : Serve(q, a)
    BY <1>2 DEF ServeStale
  <2>2. q \in Pending /\ q # Nothing
    BY <1>2 DEF DeliveryTypeOK, Pending, Request, Nothing
  <2>. QED
    BY <2>1, <2>2, ServeIsJobsStep
<1>3. CASE Admin \/ Beat \/ ServerRestart
  BY <1>3 DEF Admin, Beat, ServerRestart, JobsNext, DeviceStep
<1>4. CASE Timeout \/ ClientCrash \/ UNCHANGED vars
  BY <1>4 DEF Timeout, ClientCrash, vars
<1>5. CASE \/ Start \/ Greeted \/ Checked \/ Recovered \/ SendBeat \/ SendClaim \/ Claimed
           \/ SendResult \/ Posted \/ \E outcome \in {"good", "bad"} : Finish(outcome)
  BY <1>5 DEF Start, Greeted, Checked, Recovered, SendBeat, SendClaim, Claimed, SendResult,
              Posted, Finish
<1>. QED
  BY <1>1, <1>2, <1>3, <1>4, <1>5 DEF DeliveryNext

\* The state before anything was sent.
LEMMA DeliveryInvInit == DeliveryInit => DeliveryInv
<1> SUFFICES ASSUME DeliveryInit PROVE DeliveryInv
  OBVIOUS
<1>1. IInv
  BY JobsIInvInit DEF DeliveryInit
<1>2. DeliveryTypeOK
  BY <1>1 DEF DeliveryInit, DeliveryTypeOK, Outcomes, Pending, Nothing
<1>3. OneRequest
  BY DEF DeliveryInit, OneRequest, Waiting
<1>4. \A j \in Jobs : ~Accountable(j) /\ jobs[j].status = "none" /\ saved = jobs
  BY DEF DeliveryInit, Accountable, Asked, Pending, Nothing, JobsInit, NoJob
<1>5. saved = jobs /\ twice = {} /\ pc = "down"
  BY DEF DeliveryInit, JobsInit
<1>6. ReportsAreTrue /\ AccountsHandedOut
  BY <1>4 DEF ReportsAreTrue, AccountsHandedOut
<1>7. TrueRequests
  BY DEF DeliveryInit, TrueRequests, Pending, Nothing
<1>8. Orderly
  BY <1>5, <1>6, <1>7 DEF Orderly, InLoop, ResultOfHandedOut, ClaimAnswered, OnRun,
     CurrentAnswered, Recovery
<1>. QED
  BY <1>2, <1>3, <1>8 DEF DeliveryInv

\* The client knows an answer by its shape.
LEMMA ReplyShape ==
  ASSUME DeliveryTypeOK, reply # NoReply
  PROVE  /\ reply.job \in Jobs \cup {None}
         /\ reply.ok => reply = Answer(reply.job)
         /\ ~reply.ok => reply.job = None
BY DEF DeliveryTypeOK, Answer, Failure

\* A request is replaced by one of the kind the client then waits for.
LEMMA TypeOKNext ==
  DeliveryTypeOK /\ OneRequest /\ [DeliveryNext]_vars => DeliveryTypeOK' /\ OneRequest'
<1> SUFFICES ASSUME DeliveryTypeOK, OneRequest, [DeliveryNext]_vars
             PROVE  DeliveryTypeOK' /\ OneRequest'
  OBVIOUS
<1>1. IInv'
  BY DeliveryIsJobsStep, JobsIInvNext DEF DeliveryTypeOK
<1> HIDE DEF IInv
<1> USE DEF DeliveryTypeOK, OneRequest, Waiting, OpOf, Pending
<1> USE DEF SendHeartbeat
<1>2. CASE Start \/ SendBeat
  BY <1>1, <1>2 DEF Start, SendBeat, Send, Request, Outcomes, Nothing
<1>3. CASE Checked
  <2>1. /\ reply.job \in Jobs \cup {None} /\ reply' = NoReply /\ pc = "checking"
        /\ request = Nothing
        /\ UNCHANGED <<job, results, started, stale>>
    BY <1>3, ReplyShape DEF Checked
  <2>2. CASE reply.ok /\ reply.job # None
    <3>1. /\ pc' = "recovering"
          /\ request' = [op |-> "result", job |-> reply.job,
                         outcome |-> RecoveredOutcome(reply.job)]
          /\ reply.job \in Jobs
      BY <1>3, <2>1, <2>2 DEF Checked, Send
    <3>2. RecoveredOutcome(reply.job) \in {"good", "bad"}
      BY <3>1 DEF RecoveredOutcome, Outcomes
    <3> HIDE DEF Nothing, NoReply
    <3>. QED
      BY <1>1, <2>1, <3>1, <3>2 DEF Request, Outcomes
  <2>3. CASE ~(reply.ok /\ reply.job # None)
    BY <1>1, <1>3, <2>1, <2>3 DEF Checked
  <2>. QED
    BY <2>2, <2>3
<1>4. CASE Recovered
  BY <1>1, <1>4 DEF Recovered
<1>5. CASE SendClaim
  BY <1>1, <1>5 DEF SendClaim, Send, Request, Outcomes, Nothing
<1>6. CASE Claimed
  BY <1>1, <1>6, ReplyShape DEF Claimed
<1>7. ASSUME NEW outcome \in {"good", "bad"}, Finish(outcome)
      PROVE  DeliveryTypeOK' /\ OneRequest'
  BY <1>1, <1>7 DEF Finish, Outcomes, netVars, Trouble
<1>8. CASE SendResult
  BY <1>1, <1>8 DEF SendResult, Send, Request, Outcomes, Nothing
<1>9. CASE Greeted \/ Posted
  BY <1>1, <1>9 DEF Greeted, Posted, Send, Request, Outcomes, Nothing
<1>10. CASE ServeRequest
  BY <1>1, <1>10 DEF ServeRequest, Answers, clientVars, Nothing
<1>11. ASSUME NEW q \in stale, ServeStale(q) PROVE DeliveryTypeOK' /\ OneRequest'
  BY <1>1, <1>11 DEF ServeStale, clientVars
<1>12. CASE Admin \/ Beat
  BY <1>1, <1>12 DEF Admin, Beat, clientVars, netVars
<1>13. CASE Timeout
  BY <1>1, <1>13 DEF Timeout, Abandoned, clientVars, Nothing
<1>14. CASE ClientCrash
  BY <1>1, <1>14 DEF ClientCrash, Abandoned, Nothing
<1>15. CASE ServerRestart
  BY <1>1, <1>15 DEF ServerRestart, clientVars, Nothing
<1>16. CASE UNCHANGED vars
  BY <1>1, <1>16 DEF vars, clientVars, netVars
<1>. QED
  BY <1>2, <1>3, <1>4, <1>5, <1>6, <1>7, <1>8, <1>9, <1>10, <1>11, <1>12, <1>13, <1>14,
     <1>15, <1>16 DEF DeliveryNext
-----------------------------------------------------------------------------
(* What the server does to the table while every write has succeeded. *)

TableMoves ==
  /\ saved' = jobs'
  /\ \A j \in Jobs :
       /\ HandedOut(j) => HandedOut(j)'
       /\ Finished(j) => Finished(j)'
       /\ jobs'[j].status = "done" => jobs[j].status = "done" \/ results[j] = "good"
       /\ jobs'[j].status = "failed" =>
            \/ jobs[j].status = "failed" \/ j \in interrupted'
            \/ Asked(j) /\ results[j] # "good"

\* A handler that changes one job that has not been handed out yet, or none.
LEMMA AdminMoves ==
  ASSUME DeliveryTypeOK, Orderly, Save, faults = 0, faults' = 0,
         NEW j \in Jobs, NEW new,
         jobs' = jobs \/ jobs' = [jobs EXCEPT ![j] = new],
         jobs[j].status \in {"none", "queued"},
         new.status \in {"queued", "running", "cancelled"}
  PROVE  TableMoves
<1>1. jobs \in [Jobs -> Job]
  BY DEF DeliveryTypeOK, IInv, JobsTypeOK
<1>2. saved' = jobs'
  BY DEF Save, Orderly
<1>3. CASE jobs' = jobs
  BY <1>2, <1>3 DEF TableMoves, HandedOut, Finished
<1>4. CASE jobs' = [jobs EXCEPT ![j] = new]
  <2>1. \A i \in Jobs : jobs'[i] = IF i = j THEN new ELSE jobs[i]
    BY <1>1, <1>4
  <2> SUFFICES ASSUME NEW i \in Jobs
               PROVE  /\ HandedOut(i) => HandedOut(i)'
                      /\ Finished(i) => Finished(i)'
                      /\ jobs'[i].status = "done" => jobs[i].status = "done"
                      /\ jobs'[i].status = "failed" => jobs[i].status = "failed"
    BY <1>2 DEF TableMoves
  <2>. QED
    BY <2>1 DEF HandedOut, Finished
<1>. QED
  BY <1>3, <1>4

\* A job that is posted for, with what the client recorded.
LEMMA ResultMoves ==
  ASSUME DeliveryTypeOK, Orderly, faults = 0, faults' = 0,
         NEW q \in Pending, q.op = "result", Result(q.job, q.outcome = "good", FALSE)
  PROVE  TableMoves /\ Finished(q.job)'
<1> DEFINE j == q.job
           status == IF q.outcome = "good" THEN "done" ELSE "failed"
           apply == (q.outcome = "good") /\ FALSE /\ jobs[j].kind = "preview"
           new == [jobs[j] EXCEPT !.status = status, !.canApply = apply]
<1>1. jobs \in [Jobs -> Job] /\ j \in Jobs /\ q.outcome \in {"good", "bad"}
  BY DEF DeliveryTypeOK, IInv, JobsTypeOK
<1>2. saved' = jobs' /\ jobs' = [jobs EXCEPT ![j] = new] /\ jobs[j].status = "running"
  BY DEF Result, Save, Orderly
<1>3. status \in {"done", "failed"}
  OBVIOUS
<1>4. new.status = status /\ new.device = jobs[j].device
  <2> HIDE DEF status, apply, j
  <2>. QED
    BY <1>1 DEF Job
<1>5. /\ q.outcome = "good" => status = "done" /\ results[j] = "good"
      /\ q.outcome = "bad" => status = "failed" /\ results[j] # "good"
      /\ Asked(j)
  BY DEF Orderly, TrueRequests, Asked
<1> HIDE DEF new, status
<1>6. \A i \in Jobs : jobs'[i] = IF i = j THEN new ELSE jobs[i]
  BY <1>1, <1>2
<1>7. Finished(j)'
  BY <1>1, <1>3, <1>4, <1>6 DEF Finished
<1>8. ASSUME NEW i \in Jobs
      PROVE  /\ HandedOut(i) => HandedOut(i)'
             /\ Finished(i) => Finished(i)'
             /\ jobs'[i].status = "done" => jobs[i].status = "done" \/ results[i] = "good"
             /\ jobs'[i].status = "failed" =>
                  \/ jobs[i].status = "failed"
                  \/ Asked(i) /\ results[i] # "good"
  <2>1. CASE i # j
    BY <1>6, <2>1 DEF HandedOut, Finished
  <2>2. CASE i = j
    BY <1>1, <1>3, <1>4, <1>5, <1>6, <2>2 DEF HandedOut, Finished
  <2>. QED
    BY <2>1, <2>2
<1>. QED
  BY <1>2, <1>7, <1>8 DEF TableMoves

\* What the answer to a request tells of the table.
LEMMA ServeMoves ==
  ASSUME DeliveryTypeOK, Orderly, faults = 0, faults' = 0,
         NEW q \in Pending, NEW a, Serve(q, a)
  PROVE  /\ TableMoves
         /\ q.op = "result" /\ a # Failure => Finished(q.job)'
         /\ q.op = "current" => UNCHANGED jobVars
         /\ q.op = "claim" => \A j \in Jobs : a = Answer(j) =>
              HandedOut(j)' /\ jobs'[j].status = "running" /\ Active(jobs, j)
              /\ jobs[j].device = Me
<1>1. jobs \in [Jobs -> Job] /\ None \notin Jobs
  BY JobsAssumption DEF DeliveryTypeOK, IInv, JobsTypeOK
<1>2. ASSUME UNCHANGED jobVars PROVE TableMoves
  BY <1>2 DEF TableMoves, HandedOut, Finished, jobVars, Orderly
<1>3. CASE q.op = "current"
  BY <1>2, <1>3 DEF Serve
<1>4. CASE q.op = "result"
  <2>1. ServeResult(q.job, q.outcome, a)
    BY <1>4 DEF Serve
  <2>2. CASE Result(q.job, q.outcome = "good", FALSE)
    BY <1>4, <2>2, ResultMoves
  <2>3. CASE UNCHANGED jobVars /\ (a = Failure \/ Finished(q.job))
    BY <1>2, <1>4, <2>3 DEF jobVars, Finished
  <2>. QED
    BY <2>1, <2>2, <2>3 DEF ServeResult
<1>5. CASE q.op = "claim"
  <2>1. ServeClaim(a)
    BY <1>5 DEF Serve
  <2>2. CASE \E j \in Running(Me) : a = Answer(j) /\ UNCHANGED jobVars
    <3>1. PICK i \in Running(Me) : a = Answer(i) /\ UNCHANGED jobVars
      BY <2>2
    <3>2. \A j \in Jobs : a = Answer(j) => j = i
      BY <3>1 DEF Answer
    <3>3. i \in Jobs /\ jobs[i].status = "running" /\ jobs[i].device = Me /\ jobs' = jobs
      BY <3>1 DEF Running, jobVars
    <3>. QED
      BY <1>2, <1>5, <3>1, <3>2, <3>3 DEF HandedOut, Active
  <2>3. CASE \E j \in Jobs : Claim(Me, j) /\ a = IF faults' = faults THEN Answer(j) ELSE Failure
    <3>1. PICK i \in Jobs : Claim(Me, i) /\ a = Answer(i)
      BY <2>3
    <3> DEFINE new == [jobs[i] EXCEPT !.status = "running"]
    <3>2. /\ Save /\ jobs' = [jobs EXCEPT ![i] = new]
          /\ jobs[i].status = "queued" /\ jobs[i].device = Me
      BY <3>1 DEF Claim
    <3>3. new.status = "running" /\ new.device = Me
      BY <1>1, <3>2 DEF Job
    <3>4. TableMoves
      BY <3>2, <3>3, AdminMoves
    <3>5. \A j \in Jobs : a = Answer(j) => j = i
      BY <3>1 DEF Answer
    <3>6. jobs'[i] = new
      BY <1>1, <3>2
    <3>. QED
      BY <1>5, <3>2, <3>3, <3>4, <3>5, <3>6 DEF HandedOut, Active
  <2>4. CASE a = Answer(None) /\ UNCHANGED jobVars
    BY <1>1, <1>2, <1>5, <2>4 DEF Answer
  <2>. QED
    BY <2>1, <2>2, <2>3, <2>4 DEF ServeClaim
<1>6. CASE q.op = "heartbeat"
  <2>1. jobs' = jobs /\ saved' = jobs'
    BY <1>6 DEF Serve, ServeHeartbeat, Heartbeat, Save, Orderly
  <2>. QED
    BY <1>6, <2>1 DEF TableMoves, HandedOut, Finished
<1>. QED
  BY <1>3, <1>4, <1>5, <1>6 DEF Serve

LEMMA AdminStepMoves ==
  ASSUME DeliveryTypeOK, Orderly, faults = 0, faults' = 0, AdminStep \/ Heartbeat
  PROVE  TableMoves
<1>1. jobs \in [Jobs -> Job]
  BY DEF DeliveryTypeOK, IInv, JobsTypeOK
<1>2. ASSUME NEW j \in Jobs, NEW d \in Devices, NEW k \in Kinds,
             NEW s \in Snapshots \cup {None}, NEW r \in Jobs \cup {None},
             CreateJob(j, d, k, s, r)
      PROVE  TableMoves
  <2> DEFINE new == [status |-> "queued", kind |-> k, device |-> d,
                     snap |-> s, ref |-> r, canApply |-> FALSE]
  <2>1. Save /\ jobs' = [jobs EXCEPT ![j] = new] /\ jobs[j].status = "none"
    BY <1>2 DEF CreateJob
  <2>2. new.status = "queued"
    OBVIOUS
  <2>. QED
    BY <2>1, <2>2, AdminMoves
<1>3. ASSUME NEW j \in Jobs, CancelJob(j) PROVE TableMoves
  <2> DEFINE new == [jobs[j] EXCEPT !.status = "cancelled"]
  <2>1. Save /\ jobs' = [jobs EXCEPT ![j] = new] /\ jobs[j].status = "queued"
    BY <1>3 DEF CancelJob
  <2>2. new.status = "cancelled"
    BY <1>1 DEF Job
  <2>. QED
    BY <2>1, <2>2, AdminMoves
<1>4. CASE Heartbeat
  <2>1. jobs' = jobs /\ saved' = jobs'
    BY <1>4 DEF Heartbeat, Save, Orderly
  <2>. QED
    BY <2>1 DEF TableMoves, HandedOut, Finished
<1>. QED
  BY <1>2, <1>3, <1>4 DEF AdminStep

LEMMA RestartMoves ==
  ASSUME DeliveryTypeOK, Orderly, ServerRestart
  PROVE  TableMoves
<1>1. saved = jobs /\ jobs \in [Jobs -> Job]
  BY DEF DeliveryTypeOK, IInv, JobsTypeOK, Orderly
<1>2. jobs' = Interrupted(jobs) /\ saved' = jobs'
      /\ interrupted' = interrupted \cup {j \in Jobs : jobs[j].status = "running"}
  BY <1>1 DEF ServerRestart, Restart
<1> SUFFICES ASSUME NEW j \in Jobs
             PROVE  /\ HandedOut(j) => HandedOut(j)'
                    /\ Finished(j) => Finished(j)'
                    /\ jobs'[j].status = "done" => jobs[j].status = "done"
                    /\ jobs'[j].status = "failed" =>
                         jobs[j].status = "failed" \/ j \in interrupted'
  BY <1>2 DEF TableMoves
<1>3. CASE jobs[j].status = "running"
  <2> DEFINE new == [jobs[j] EXCEPT !.status = "failed"]
  <2>1. jobs'[j] = new /\ j \in interrupted'
    BY <1>1, <1>2, <1>3, InterruptedFacts
  <2>2. jobs'[j].status = "failed" /\ jobs'[j].device = jobs[j].device /\ j \in interrupted'
    BY <1>1, <2>1 DEF Job
  <2>. QED
    BY <1>3, <2>2 DEF HandedOut, Finished
<1>4. CASE jobs[j].status # "running"
  <2>1. jobs'[j] = jobs[j]
    BY <1>1, <1>2, <1>4, InterruptedFacts
  <2>. QED
    BY <2>1 DEF HandedOut, Finished
<1>. QED
  BY <1>3, <1>4
-----------------------------------------------------------------------------
(* Steps of the others: the client does not move, its accounts stay right. *)

\* What does not depend on the answer the client waits for.
Books ==
  /\ saved = jobs
  /\ twice = {}
  /\ ReportsAreTrue
  /\ TrueRequests
  /\ AccountsHandedOut
  /\ InLoop
  /\ ResultOfHandedOut
  /\ OnRun

LEMMA OthersKeepBooks ==
  ASSUME DeliveryTypeOK, Orderly, TableMoves, UNCHANGED clientVars,
         interrupted \subseteq interrupted', Pending' \subseteq Pending \cup {Nothing}
  PROVE  /\ Books'
         /\ \A j \in Jobs : Accountable(j)' => Accountable(j)
         /\ \A j \in Jobs : Fresh(j) /\ results[j] = "none" /\ ~Asked(j) => Fresh(j)'
<1>1. UNCHANGED <<pc, job, results, started, twice>>
  BY DEF clientVars
<1>2. \A q \in Pending' : q.op = "result" => q \in Pending
  BY DEF Nothing
<1>3. \A j \in Jobs : (Asked(j)' => Asked(j)) /\ (Accountable(j)' => Accountable(j))
  BY <1>1, <1>2 DEF Asked, Accountable
<1>4. \A j \in Jobs : Settled(j) => Settled(j)'
  BY <1>1 DEF Settled, TableMoves
<1>5. \A j \in Jobs : Fresh(j) /\ results[j] = "none" /\ ~Asked(j) => Fresh(j)'
  BY DEF Fresh, TableMoves
<1>6. ReportsAreTrue'
  BY <1>1 DEF Orderly, ReportsAreTrue, TableMoves
<1>7. TrueRequests'
  BY <1>1, <1>2 DEF Orderly, TrueRequests
<1>8. AccountsHandedOut'
  BY <1>3 DEF Orderly, AccountsHandedOut, TableMoves
<1>9. InLoop'
  BY <1>1, <1>3, <1>4 DEF Orderly, InLoop
<1>10. ResultOfHandedOut'
  BY <1>1 DEF Orderly, ResultOfHandedOut, TableMoves
<1>11. OnRun'
  BY <1>1, <1>3, <1>4, <1>5 DEF Orderly, OnRun
<1>12. saved' = jobs' /\ twice' = {}
  BY <1>1 DEF Orderly, TableMoves
<1>. QED
  BY <1>3, <1>5, <1>6, <1>7, <1>8, <1>9, <1>10, <1>11, <1>12 DEF Books

\* The answer under way, if any, stays or is lost.
LEMMA OthersKeepOrder ==
  ASSUME DeliveryTypeOK, Orderly, TableMoves, UNCHANGED clientVars,
         interrupted \subseteq interrupted', Pending' \subseteq Pending \cup {Nothing},
         reply' = reply \/ reply' = Failure,
         request' = request \/ request' = Nothing
  PROVE  Orderly'
<1>1. /\ Books'
      /\ \A j \in Jobs : Accountable(j)' => Accountable(j)
      /\ \A j \in Jobs : Fresh(j) /\ results[j] = "none" /\ ~Asked(j) => Fresh(j)'
  BY OthersKeepBooks
<1>2. UNCHANGED <<pc, results>>
  BY DEF clientVars
<1>3. \A j \in Jobs : (HandedOut(j) => HandedOut(j)') /\ (Finished(j) => Finished(j)')
  BY DEF TableMoves
<1>4. \A j \in Jobs \cup {None} : reply' = Answer(j) => reply = Answer(j)
  BY DEF Answer, Failure
<1>5. reply'.ok => reply.ok
  BY DEF Failure
<1>6. ClaimAnswered'
  BY <1>1, <1>2, <1>3, <1>4 DEF Orderly, ClaimAnswered, Accountable
<1>7. CurrentAnswered'
  BY <1>1, <1>2, <1>3, <1>4 DEF Orderly, CurrentAnswered
<1>8. Recovery'
  BY <1>1, <1>2, <1>3, <1>5 DEF Orderly, Recovery
<1>. QED
  BY <1>1, <1>6, <1>7, <1>8 DEF Books, Orderly

\* The answer to a request: of a claim, a job nobody has accounted for or one with a
\* result; of the current job, the only one not over; of a result, that it is over.
LEMMA ServeRequestOrder ==
  ASSUME DeliveryTypeOK, OneRequest, Orderly, faults = 0, faults' = 0, ServeRequest
  PROVE  Orderly'
<1>1. /\ jobs \in [Jobs -> Job] /\ OnePerDevice(jobs) /\ None \notin Jobs
      /\ results \in [Jobs -> Outcomes]
  BY JobsAssumption DEF DeliveryTypeOK, IInv, JobsTypeOK, OneActiveJobPerDevice
<1>2. PICK a \in Answers : Serve(request, a) /\ reply' = a
  BY DEF ServeRequest
<1>3. /\ request # Nothing /\ request' = Nothing
      /\ UNCHANGED <<pc, job, results, started, twice, stale, interrupted>>
  BY DEF ServeRequest, clientVars
<1> PICK q : q = request
  OBVIOUS
<1>4. q \in Pending /\ Pending' \subseteq Pending \cup {Nothing}
  BY <1>3 DEF Pending
<1>5. pc \in Waiting /\ request.op = OpOf[pc]
  BY <1>3 DEF OneRequest
<1>6. /\ TableMoves
      /\ q.op = "result" /\ a # Failure => Finished(q.job)'
      /\ q.op = "current" => UNCHANGED jobVars
      /\ q.op = "claim" => \A j \in Jobs : a = Answer(j) =>
           HandedOut(j)' /\ jobs'[j].status = "running" /\ Active(jobs, j)
           /\ jobs[j].device = Me
  BY <1>2, <1>4, ServeMoves
<1>7. /\ Books'
      /\ \A j \in Jobs : Accountable(j)' => Accountable(j)
  BY <1>3, <1>4, <1>6, OthersKeepBooks DEF clientVars
<1>8. ClaimAnswered'
  <2> SUFFICES ASSUME NEW j \in Jobs, pc = "claiming", a = Answer(j)
               PROVE  HandedOut(j)' /\ (results[j] = "none" => Fresh(j)' /\ ~Accountable(j)')
    BY <1>2, <1>3 DEF ClaimAnswered
  <2>1. HandedOut(j)' /\ jobs'[j].status = "running" /\ Active(jobs, j)
    BY <1>5, <1>6 DEF OpOf
  <2>2. Fresh(j)'
    BY <2>1 DEF Fresh
  <2>3. results[j] = "none" => ~Accountable(j)
    BY <2>1 DEF Orderly, InLoop, Settled, Finished, Active
  <2>. QED
    BY <1>7, <2>1, <2>2, <2>3
<1>9. CurrentAnswered'
  <2> SUFFICES ASSUME pc = "checking"
               PROVE  /\ a = Answer(None) => \A j \in Jobs : Accountable(j) => Finished(j)
                      /\ \A i \in Jobs : a = Answer(i) =>
                           /\ HandedOut(i)
                           /\ \A j \in Jobs \ {i} : Accountable(j) => Finished(j)
    BY <1>2, <1>3, <1>6, <1>7 DEF CurrentAnswered, TableMoves
  <2>1. request.op = "current"
    BY <1>5 DEF OpOf
  <2>2. \/ \E j \in Running(Me) : a = Answer(j)
        \/ Running(Me) = {} /\ a = Answer(None)
    BY <1>2, <2>1 DEF Serve
  <2>3. \A j \in Jobs : Accountable(j) => j \in Running(Me) \/ Finished(j)
    BY DEF Orderly, AccountsHandedOut, HandedOut, Running, Finished
  <2>4. CASE Running(Me) = {} /\ a = Answer(None)
    BY <1>1, <2>3, <2>4 DEF Answer
  <2>5. CASE \E j \in Running(Me) : a = Answer(j)
    <3>1. PICK i \in Running(Me) : a = Answer(i)
      BY <2>5
    <3>2. i \in Jobs /\ HandedOut(i)
      BY DEF Running, HandedOut
    <3>3. \A j \in Running(Me) : j = i
      BY <1>1 DEF Running, OnePerDevice, Active
    <3>4. \A j \in Jobs \cup {None} : a = Answer(j) => j = i
      BY <3>1 DEF Answer
    <3>. QED
      BY <1>1, <2>3, <3>2, <3>3, <3>4
  <2>. QED
    BY <2>2, <2>4, <2>5
<1>10. Recovery'
  <2> SUFFICES ASSUME pc = "recovering", a.ok, NEW j \in Jobs, Accountable(j)
               PROVE  Finished(j)'
    BY <1>2, <1>3, <1>7 DEF Recovery
  <2>1. request.op = "result" /\ a # Failure
    BY <1>5 DEF OpOf, Failure
  <2>2. CASE j = q.job
    BY <1>6, <2>1, <2>2
  <2>3. CASE j # q.job
    BY <1>3, <1>6, <2>3 DEF Orderly, Recovery, TableMoves
  <2>. QED
    BY <2>2, <2>3
<1>. QED
  BY <1>7, <1>8, <1>9, <1>10 DEF Books, Orderly
-----------------------------------------------------------------------------
(* Steps of the client: the table does not move. *)

\* A client step that records nothing and sends nothing keeps what the accounts say.
LEMMA QuietAccounts ==
  ASSUME Orderly, UNCHANGED <<jobVars, results, started, twice, interrupted>>,
         Pending' \subseteq Pending \cup {Nothing}
  PROVE  /\ saved' = jobs' /\ twice' = {}
         /\ ReportsAreTrue' /\ TrueRequests' /\ AccountsHandedOut'
         /\ \A j \in Jobs :
              /\ Asked(j)' => Asked(j)
              /\ Accountable(j)' => Accountable(j)
              /\ Settled(j)' = Settled(j) /\ Finished(j)' = Finished(j)
              /\ HandedOut(j)' = HandedOut(j) /\ Fresh(j)' = Fresh(j)
<1>1. /\ jobs' = jobs /\ saved' = saved
      /\ UNCHANGED <<results, started, twice, interrupted>>
  BY DEF jobVars
<1>2. \A q \in Pending' : q.op = "result" => q \in Pending
  BY DEF Nothing
<1>3. \A j \in Jobs : (Asked(j)' => Asked(j)) /\ (Accountable(j)' => Accountable(j))
  BY <1>1, <1>2 DEF Asked, Accountable
<1>4. ReportsAreTrue' /\ TrueRequests' /\ AccountsHandedOut'
  BY <1>1, <1>2, <1>3
     DEF Orderly, ReportsAreTrue, TrueRequests, AccountsHandedOut, HandedOut
<1>. QED
  BY <1>1, <1>3, <1>4 DEF Orderly, Settled, Finished, HandedOut, Fresh

LEMMA StartOrder ==
  ASSUME DeliveryTypeOK, OneRequest, Orderly,
         Start \/ Greeted \/ SendBeat \/ SendClaim \/ Recovered \/ Posted
  PROVE  Orderly'
<1>1. /\ UNCHANGED <<jobVars, results, started, twice, interrupted>>
      /\ request' = request \/ request'.op \in {"heartbeat", "current", "claim"}
      /\ stale' = stale
  BY DEF Start, Greeted, SendBeat, SendClaim, Recovered, Posted, Send, SendHeartbeat
<1>2. \A q \in Pending' : q.op = "result" => q \in Pending
  BY <1>1 DEF Pending
<1>3. \A j \in Jobs : (Asked(j)' => Asked(j)) /\ (Accountable(j)' => Accountable(j))
  BY <1>1, <1>2 DEF Asked, Accountable
<1>4. \A j \in Jobs : /\ Settled(j)' = Settled(j) /\ Finished(j)' = Finished(j)
                      /\ HandedOut(j)' = HandedOut(j) /\ Fresh(j)' = Fresh(j)
  BY <1>1 DEF jobVars, Settled, Finished, HandedOut, Fresh
<1>5. /\ saved' = jobs' /\ twice' = {}
      /\ ReportsAreTrue' /\ TrueRequests' /\ AccountsHandedOut'
  BY <1>1, <1>2, <1>3, <1>4
     DEF jobVars, Orderly, ReportsAreTrue, TrueRequests, AccountsHandedOut
<1>6. CASE Start \/ Greeted
  <2>1. pc' \in {"greeting", "checking", "down"} /\ reply' = NoReply
    BY <1>6 DEF Start, Greeted, Send, SendHeartbeat, OneRequest, Waiting
  <2>2. CurrentAnswered'
    BY <2>1 DEF CurrentAnswered, Answer, NoReply
  <2>. QED
    BY <1>5, <2>1, <2>2 DEF Orderly, InLoop, ResultOfHandedOut, ClaimAnswered, OnRun, Recovery
<1>7. CASE SendBeat \/ SendClaim
  <2>1. /\ pc \in {"idle", "beating"} /\ pc' \in {"beating", "claiming", "idle"}
        /\ reply' = NoReply /\ job' = job
    BY <1>7 DEF SendBeat, SendClaim, Send, SendHeartbeat, OneRequest, Waiting
  <2>2. ClaimAnswered'
    BY <2>1 DEF ClaimAnswered, Answer, NoReply
  <2>3. InLoop'
    BY <1>3, <1>4, <2>1 DEF Orderly, InLoop
  <2>4. ResultOfHandedOut'
    BY <1>1, <2>1 DEF Orderly, ResultOfHandedOut, HandedOut, jobVars
  <2>. QED
    BY <1>5, <2>1, <2>2, <2>3, <2>4 DEF Orderly, CurrentAnswered, OnRun, Recovery
<1>8. CASE Recovered
  <2>1. /\ pc = "recovering" /\ pc' = IF reply.ok THEN "idle" ELSE "down"
        /\ job' = None
    BY <1>8 DEF Recovered, OneRequest
  <2>2. InLoop'
    BY <1>3, <1>4, <2>1 DEF Orderly, InLoop, Recovery, Settled
  <2>3. ResultOfHandedOut'
    BY <2>1, JobsAssumption DEF ResultOfHandedOut
  <2>. QED
    BY <1>5, <2>1, <2>2, <2>3 DEF Orderly, ClaimAnswered, CurrentAnswered, OnRun, Recovery
<1>9. CASE Posted
  <2>1. pc = "posting" /\ pc' = "beating" /\ job' = IF reply.ok THEN None ELSE job
    BY <1>9 DEF Posted, Send, SendHeartbeat
  <2>2. InLoop'
    BY <1>3, <1>4, <2>1 DEF Orderly, InLoop
  <2>3. ResultOfHandedOut'
    BY <1>4, <2>1, JobsAssumption DEF Orderly, ResultOfHandedOut
  <2>. QED
    BY <1>5, <2>1, <2>2, <2>3 DEF Orderly, ClaimAnswered, CurrentAnswered, OnRun, Recovery
<1>. QED
  BY <1>6, <1>7, <1>8, <1>9

\* A result is sent: the client becomes accountable for its job.
LEMMA ResultSent ==
  ASSUME DeliveryTypeOK, Orderly, NEW i \in Jobs, NEW o \in {"good", "bad"},
         UNCHANGED <<jobVars, results, started, twice, interrupted, stale>>,
         request' = [op |-> "result", job |-> i, outcome |-> o],
         HandedOut(i),
         o = "good" => results[i] = "good",
         o = "bad" => results[i] \in {"none", "bad"}
  PROVE  /\ saved' = jobs' /\ twice' = {}
         /\ ReportsAreTrue' /\ TrueRequests' /\ AccountsHandedOut'
         /\ \A j \in Jobs :
              /\ Accountable(j)' => Accountable(j) \/ j = i
              /\ Settled(j)' = Settled(j) /\ Finished(j)' = Finished(j)
              /\ HandedOut(j)' = HandedOut(j)
<1>1. /\ jobs' = jobs /\ saved' = saved
      /\ UNCHANGED <<results, started, twice, interrupted, stale>>
  BY DEF jobVars
<1>2. \A q \in Pending' : q \in Pending \/ q = [op |-> "result", job |-> i, outcome |-> o]
  BY <1>1 DEF Pending
<1>3. \A j \in Jobs : Accountable(j)' => Accountable(j) \/ j = i
  BY <1>1, <1>2 DEF Asked, Accountable
<1>4. \A j \in Jobs : /\ Settled(j)' = Settled(j) /\ Finished(j)' = Finished(j)
                      /\ HandedOut(j)' = HandedOut(j)
  BY <1>1 DEF Settled, Finished, HandedOut
<1>5. ReportsAreTrue' /\ AccountsHandedOut'
  BY <1>1, <1>3, <1>4 DEF Orderly, ReportsAreTrue, AccountsHandedOut
<1>6. TrueRequests'
  BY <1>1, <1>2 DEF Orderly, TrueRequests
<1>. QED
  BY <1>1, <1>3, <1>4, <1>5, <1>6 DEF Orderly

LEMMA CheckedOrder ==
  ASSUME DeliveryTypeOK, OneRequest, Orderly, Checked
  PROVE  Orderly'
<1>1. /\ UNCHANGED <<jobVars, results, started, twice, interrupted, stale, job>>
      /\ pc = "checking" /\ reply' = NoReply /\ job = None /\ request = Nothing
  BY DEF Checked, OneRequest
<1>2. /\ reply.job \in Jobs \cup {None}
      /\ reply.ok => reply = Answer(reply.job)
      /\ ~reply.ok => reply.job = None
  BY ReplyShape DEF Checked
<1>3. CASE reply.ok /\ reply.job # None
  <2> PICK i : i = reply.job
    OBVIOUS
  <2> PICK o : o = RecoveredOutcome(i)
    OBVIOUS
  <2>1. i \in Jobs /\ reply = Answer(i)
    BY <1>2, <1>3
  <2>2. /\ pc' = "recovering"
        /\ request' = [op |-> "result", job |-> i, outcome |-> o]
    BY <1>3 DEF Checked, Send
  <2>3. results[i] \in Outcomes
    BY <2>1 DEF DeliveryTypeOK
  <2>4. /\ o \in {"good", "bad"}
        /\ o = "good" => results[i] = "good"
        /\ o = "bad" => results[i] \in {"none", "bad"}
    BY <2>3 DEF RecoveredOutcome, Outcomes
  <2>5. HandedOut(i) /\ \A j \in Jobs \ {i} : Accountable(j) => Finished(j)
    BY <1>1, <2>1 DEF Orderly, CurrentAnswered
  <2>6. /\ saved' = jobs' /\ twice' = {}
        /\ ReportsAreTrue' /\ TrueRequests' /\ AccountsHandedOut'
        /\ \A j \in Jobs :
             /\ Accountable(j)' => Accountable(j) \/ j = i
             /\ Finished(j)' = Finished(j)
    BY <1>1, <2>1, <2>2, <2>4, <2>5, ResultSent
  <2>7. Recovery'
    <3>1. request'.job = i /\ ~reply'.ok
      BY <1>1, <2>2 DEF NoReply
    <3>. QED
      BY <2>5, <2>6, <3>1 DEF Recovery
  <2>. QED
    BY <2>2, <2>6, <2>7
       DEF Orderly, InLoop, ResultOfHandedOut, ClaimAnswered, CurrentAnswered, OnRun
<1>4. CASE ~(reply.ok /\ reply.job # None)
  <2>1. pc' = (IF reply.ok THEN "idle" ELSE "down") /\ request' = request
    BY <1>4 DEF Checked
  <2>2. /\ saved' = jobs' /\ twice' = {}
        /\ ReportsAreTrue' /\ TrueRequests' /\ AccountsHandedOut'
        /\ \A j \in Jobs :
             /\ Accountable(j)' => Accountable(j)
             /\ Settled(j)' = Settled(j) /\ Finished(j)' = Finished(j)
    BY <1>1, <2>1, QuietAccounts DEF Pending
  <2>3. InLoop'
    <3>1. reply.ok => reply = Answer(None)
      BY <1>2, <1>4
    <3>. QED
      BY <1>1, <2>1, <2>2, <3>1 DEF Orderly, CurrentAnswered, InLoop, Settled
  <2>4. ResultOfHandedOut'
    BY <1>1, JobsAssumption DEF ResultOfHandedOut
  <2>. QED
    BY <2>1, <2>2, <2>3, <2>4 DEF Orderly, ClaimAnswered, CurrentAnswered, OnRun, Recovery
<1>. QED
  BY <1>3, <1>4

LEMMA SendResultOrder ==
  ASSUME DeliveryTypeOK, OneRequest, Orderly, SendResult
  PROVE  Orderly'
<1>1. /\ UNCHANGED <<jobVars, results, started, twice, interrupted, stale, job>>
      /\ pc = "idle" /\ job # None /\ pc' = "posting"
      /\ request' = [op |-> "result", job |-> job, outcome |-> results[job]]
  BY DEF SendResult, Send
<1> PICK i, o : i = job /\ o = results[job]
  OBVIOUS
<1>2. i \in Jobs /\ o \in {"good", "bad"} /\ HandedOut(i)
  BY <1>1 DEF DeliveryTypeOK, OneRequest, Outcomes, Orderly, ResultOfHandedOut
<1>3. request' = [op |-> "result", job |-> i, outcome |-> o] /\ results[i] = o
  BY <1>1
<1>4. /\ saved' = jobs' /\ twice' = {}
      /\ ReportsAreTrue' /\ TrueRequests' /\ AccountsHandedOut'
      /\ \A j \in Jobs :
           /\ Accountable(j)' => Accountable(j) \/ j = i
           /\ Settled(j)' = Settled(j) /\ HandedOut(j)' = HandedOut(j)
  BY <1>1, <1>2, <1>3, ResultSent
<1>5. InLoop'
  BY <1>1, <1>2, <1>3, <1>4 DEF Orderly, InLoop, Settled
<1>6. ResultOfHandedOut'
  BY <1>1, <1>2, <1>4 DEF ResultOfHandedOut
<1>. QED
  BY <1>1, <1>4, <1>5, <1>6 DEF Orderly, ClaimAnswered, CurrentAnswered, OnRun, Recovery
\* A claim is answered with a job that has a result, which is only to be posted, or
\* with one the client never accounted for: it begins for the first time.
LEMMA ClaimedOrder ==
  ASSUME DeliveryTypeOK, OneRequest, Orderly, Claimed
  PROVE  Orderly'
<1>1. /\ UNCHANGED <<jobVars, results, request, stale, interrupted>>
      /\ pc = "claiming" /\ request = Nothing /\ job' = reply.job
  BY DEF Claimed, OneRequest
<1>2. /\ reply.job \in Jobs \cup {None}
      /\ reply.job \in Jobs => reply = Answer(reply.job)
  BY ReplyShape, JobsAssumption DEF Claimed
<1>3. CASE reply.job # None /\ results[reply.job] = "none"
  <2> PICK i : i = reply.job
    OBVIOUS
  <2>1. /\ i \in Jobs /\ results[i] = "none" /\ job' = i /\ pc' = "running"
        /\ started' = started \cup {i} /\ twice' = twice \cup ({i} \cap started)
    BY <1>1, <1>2, <1>3 DEF Claimed
  <2>2. HandedOut(i) /\ Fresh(i) /\ ~Accountable(i)
    BY <1>1, <1>2, <2>1 DEF Orderly, ClaimAnswered
  <2>3. \A j \in Jobs : /\ Asked(j)' = Asked(j)
                        /\ Accountable(j)' => Accountable(j) \/ j = i
                        /\ Settled(j)' = Settled(j) /\ HandedOut(j)' = HandedOut(j)
                        /\ Fresh(j)' = Fresh(j)
    BY <1>1, <2>1 DEF jobVars, Asked, Pending, Accountable, Settled, Finished, HandedOut, Fresh
  <2>4. twice' = {}
    BY <2>1, <2>2 DEF Accountable, Orderly
  <2>5. ReportsAreTrue' /\ TrueRequests' /\ AccountsHandedOut'
    BY <1>1, <2>2, <2>3
       DEF jobVars, Orderly, ReportsAreTrue, TrueRequests, Pending, AccountsHandedOut
  <2>6. OnRun'
    <3>1. job' \in started' /\ job' \in Jobs /\ results'[job'] = "none"
      BY <1>1, <2>1
    <3>2. Fresh(i)' /\ ~Asked(i)'
      BY <2>1, <2>2, <2>3 DEF Accountable
    <3>3. \A j \in Jobs \ {i} : Accountable(j)' => Settled(j)'
      BY <1>1, <2>3 DEF Orderly, InLoop
    <3>4. Fresh(job)' /\ ~Asked(job)'
      BY <1>1, <2>1, <3>2 DEF Fresh, Asked, HandedOut
    <3>. QED
      BY <2>1, <3>1, <3>3, <3>4 DEF OnRun
  <2>7. saved' = jobs'
    BY <1>1 DEF Orderly, jobVars
  <2>. QED
    BY <2>1, <2>4, <2>5, <2>6, <2>7
       DEF Orderly, InLoop, ResultOfHandedOut, ClaimAnswered, CurrentAnswered, Recovery
<1>4. CASE ~(reply.job # None /\ results[reply.job] = "none")
  <2>1. pc' = "idle" /\ UNCHANGED <<started, twice>>
    BY <1>4 DEF Claimed
  <2>2. /\ saved' = jobs' /\ twice' = {}
        /\ ReportsAreTrue' /\ TrueRequests' /\ AccountsHandedOut'
        /\ \A j \in Jobs :
             /\ Accountable(j)' => Accountable(j)
             /\ Settled(j)' = Settled(j) /\ HandedOut(j)' = HandedOut(j)
    BY <1>1, <2>1, QuietAccounts DEF Pending
  <2>3. InLoop'
    BY <1>1, <2>1, <2>2 DEF Orderly, InLoop
  <2>4. ResultOfHandedOut'
    <3>1. reply.job \in Jobs => HandedOut(reply.job)
      BY <1>1, <1>2 DEF Orderly, ClaimAnswered
    <3>2. job' \in Jobs => HandedOut(job')
      BY <1>1, <3>1
    <3>. QED
      BY <1>1, <3>2 DEF ResultOfHandedOut, HandedOut, jobVars
  <2>. QED
    BY <2>1, <2>2, <2>3, <2>4 DEF Orderly, ClaimAnswered, CurrentAnswered, OnRun, Recovery
<1>. QED
  BY <1>3, <1>4

\* The outcome of the job that runs is recorded, or the client stops without it.
LEMMA FinishOrder ==
  ASSUME DeliveryTypeOK, OneRequest, Orderly, NEW outcome \in {"good", "bad"}, Finish(outcome)
  PROVE  Orderly'
<1>1. /\ UNCHANGED <<jobVars, started, twice, request, reply, stale, interrupted>>
      /\ pc = "running"
  BY DEF Finish, netVars
<1>2. CASE pc' = "down" /\ UNCHANGED results
  <2>1. /\ saved' = jobs' /\ twice' = {}
        /\ ReportsAreTrue' /\ TrueRequests' /\ AccountsHandedOut'
    BY <1>1, <1>2, QuietAccounts DEF Pending
  <2>. QED
    BY <1>2, <2>1 DEF Orderly, InLoop, ResultOfHandedOut, OnRun, ClaimAnswered,
                      CurrentAnswered, Recovery
<1>3. CASE /\ results' = [results EXCEPT ![job] = outcome]
           /\ pc' = "idle" /\ job' = job
  <2> PICK i : i = job
    OBVIOUS
  <2>1. /\ i \in Jobs /\ results[i] = "none" /\ Fresh(i) /\ ~Asked(i)
        /\ \A j \in Jobs \ {i} : Accountable(j) => Settled(j)
    <3>1. /\ job \in Jobs /\ results[job] = "none" /\ Fresh(job) /\ ~Asked(job)
          /\ \A j \in Jobs \ {job} : Accountable(j) => Settled(j)
      BY <1>1 DEF Orderly, OnRun
    <3>. QED
      BY <3>1
  <2>2. \A j \in Jobs : results'[j] = IF j = i THEN outcome ELSE results[j]
    BY <1>3 DEF DeliveryTypeOK
  <2>3. \A j \in Jobs : /\ Asked(j)' = Asked(j) /\ Accountable(j)' = Accountable(j)
                        /\ HandedOut(j)' = HandedOut(j) /\ Finished(j)' = Finished(j)
    BY <1>1 DEF jobVars, Asked, Pending, Accountable, HandedOut, Finished
  <2>4. ReportsAreTrue'
    <3> SUFFICES ASSUME NEW j \in Jobs
                 PROVE  /\ jobs[j].status = "done" => results'[j] = "good"
                        /\ jobs[j].status = "failed" /\ results'[j] = "good" => j \in interrupted
      BY <1>1 DEF ReportsAreTrue, jobVars
    <3>1. CASE j = i
      BY <2>1, <3>1 DEF Orderly, ReportsAreTrue, Fresh
    <3>2. CASE j # i
      BY <2>2, <3>2 DEF Orderly, ReportsAreTrue
    <3>. QED
      BY <3>1, <3>2
  <2>5. TrueRequests'
    <3> SUFFICES ASSUME NEW q \in Pending, q.op = "result"
                 PROVE  /\ q.outcome = "good" => results'[q.job] = "good"
                        /\ q.outcome = "bad" => results'[q.job] \in {"none", "bad"}
      BY <1>1 DEF TrueRequests, Pending
    <3>1. q.job \in Jobs /\ q.job # i
      BY <2>1 DEF DeliveryTypeOK, Asked
    <3>. QED
      BY <2>2, <3>1 DEF Orderly, TrueRequests
  <2>6. AccountsHandedOut' /\ InLoop'
    <3>1. \A j \in Jobs : Accountable(j) => Settled(j)'
      BY <2>1, <2>2, <2>3 DEF Settled
    <3>. QED
      BY <2>3, <3>1 DEF Orderly, AccountsHandedOut, InLoop
  <2>7. ResultOfHandedOut'
    BY <1>1, <1>3, <2>1 DEF ResultOfHandedOut, Fresh, HandedOut, jobVars
  <2>8. saved' = jobs' /\ twice' = {}
    BY <1>1 DEF Orderly, jobVars
  <2>. QED
    BY <1>3, <2>4, <2>5, <2>6, <2>7, <2>8
       DEF Orderly, OnRun, ClaimAnswered, CurrentAnswered, Recovery
<1>. QED
  BY <1>2, <1>3 DEF Finish

LEMMA CrashOrder ==
  ASSUME DeliveryTypeOK, Orderly, ClientCrash
  PROVE  Orderly'
<1>1. /\ UNCHANGED <<jobVars, results, started, twice, interrupted>>
      /\ pc' = "down"
      /\ Pending' \subseteq Pending \cup {Nothing}
  BY DEF ClientCrash, Abandoned, Pending
<1>2. /\ saved' = jobs' /\ twice' = {}
      /\ ReportsAreTrue' /\ TrueRequests' /\ AccountsHandedOut'
  BY <1>1, QuietAccounts
<1>. QED
  BY <1>1, <1>2 DEF Orderly, InLoop, ResultOfHandedOut, OnRun, ClaimAnswered,
                    CurrentAnswered, Recovery

-----------------------------------------------------------------------------
\* A failed write is never forgotten, and every step keeps order until the first.
LEMMA FaultsRemain ==
  ASSUME IInv, [JobsNext]_jobVars, faults' = 0
  PROVE  faults = 0
<1>1. faults \in Nat
  BY DEF IInv, JobsTypeOK
<1>2. faults' = faults \/ faults' = faults + 1
  <2>1. Save \/ UNCHANGED faults
    BY DEF JobsNext, AdminStep, DeviceStep, CreateJob, CancelJob, Claim, Result, Heartbeat,
           Restart, jobVars
  <2>. QED
    BY <2>1 DEF Save
<1>. QED
  BY <1>1, <1>2

LEMMA OrderNext ==
  ASSUME DeliveryTypeOK, OneRequest, Orderly, faults = 0, faults' = 0, [DeliveryNext]_vars
  PROVE  Orderly'
<1>1. ASSUME UNCHANGED jobVars PROVE TableMoves
  BY <1>1 DEF TableMoves, HandedOut, Finished, jobVars, Orderly
<1>2. ASSUME NEW q \in stale, ServeStale(q) PROVE Orderly'
  <2>1. PICK a \in Answers : Serve(q, a)
    BY <1>2 DEF ServeStale
  <2>2. q \in Pending /\ Pending' \subseteq Pending
    BY <1>2 DEF Pending, ServeStale
  <2>3. TableMoves
    BY <2>1, <2>2, ServeMoves
  <2>. QED
    BY <1>2, <2>2, <2>3, OthersKeepOrder DEF ServeStale
<1>3. CASE Admin \/ Beat
  <2>1. TableMoves
    BY <1>3, AdminStepMoves DEF Admin, Beat
  <2>. QED
    BY <1>3, <2>1, OthersKeepOrder DEF Admin, Beat, netVars, Pending
<1>4. CASE ServerRestart
  <2>1. TableMoves
    BY <1>4, RestartMoves
  <2>2. /\ UNCHANGED clientVars
        /\ interrupted \subseteq interrupted' /\ request' = Nothing
        /\ reply' = reply \/ reply' = Failure
        /\ Pending' \subseteq Pending \cup {Nothing}
    BY <1>4 DEF ServerRestart, Pending
  <2>. QED
    BY <2>1, <2>2, OthersKeepOrder
<1>5. CASE Timeout
  <2>1. /\ UNCHANGED <<jobVars, clientVars, interrupted>>
        /\ request' = Nothing /\ reply' = Failure
        /\ Pending' \subseteq Pending \cup {Nothing}
    BY <1>5 DEF Timeout, Abandoned, Pending
  <2>. QED
    BY <1>1, <2>1, OthersKeepOrder
<1>6. CASE UNCHANGED vars
  <2>1. UNCHANGED <<jobVars, clientVars, interrupted, request, reply>> /\ Pending' = Pending
    BY <1>6 DEF vars, netVars, Pending
  <2>. QED
    BY <1>1, <2>1, OthersKeepOrder
<1>. QED
  BY <1>2, <1>3, <1>4, <1>5, <1>6, StartOrder, CheckedOrder, SendResultOrder, ClaimedOrder,
     FinishOrder, CrashOrder, ServeRequestOrder
     DEF DeliveryNext

LEMMA DeliveryInvNext == DeliveryInv /\ [DeliveryNext]_vars => DeliveryInv'
<1> SUFFICES ASSUME DeliveryInv, [DeliveryNext]_vars PROVE DeliveryInv'
  OBVIOUS
<1>1. DeliveryTypeOK' /\ OneRequest'
  BY TypeOKNext DEF DeliveryInv
<1>2. faults' = 0 => faults = 0
  BY DeliveryIsJobsStep, FaultsRemain DEF DeliveryInv, DeliveryTypeOK
<1>3. faults' = 0 => Orderly'
  BY <1>2, OrderNext DEF DeliveryInv
<1>. QED
  BY <1>1, <1>3 DEF DeliveryInv

\* The invariant of client, network and table, from which the theorems below follow.
THEOREM DeliveryInvariance == DeliverySpec => []DeliveryInv
BY DeliveryInvInit, DeliveryInvNext, PTL DEF DeliverySpec

\* The job table keeps its invariants under this client and this network, whatever
\* writes fail: one job under way per device, restores after their previews.
THEOREM DeliveryKeepsJobTable ==
  DeliverySpec => [](OneActiveJobPerDevice /\ RestoresAreGrounded)
<1>1. DeliveryInv => OneActiveJobPerDevice /\ RestoresAreGrounded
  BY DEF DeliveryInv, DeliveryTypeOK, IInv
<1>. QED
  BY <1>1, DeliveryInvariance, PTL

\* No job is executed twice before a write of state.json fails.
THEOREM AtMostOnce == DeliverySpec => [](faults = 0 => RunsAtMostOnce)
<1>1. DeliveryInv => (faults = 0 => RunsAtMostOnce)
  BY DEF DeliveryInv, Orderly, RunsAtMostOnce
<1>. QED
  BY <1>1, DeliveryInvariance, PTL

\* Before a write fails, the server calls a job done only if the client finished it
\* well, and failed in spite of that only if a restart of the server interrupted it.
THEOREM TrueReports == DeliverySpec => [](faults = 0 => ReportsAreTrue)
<1>1. DeliveryInv => (faults = 0 => ReportsAreTrue)
  BY DEF DeliveryInv, Orderly
<1>. QED
  BY <1>1, DeliveryInvariance, PTL

\* Before a write fails, no job that the client has begun is or gets cancelled.
THEOREM CancelledStayIdle == DeliverySpec => [](faults = 0 => CancelledNeverRuns)
<1>1. DeliveryInv => (faults = 0 => CancelledNeverRuns)
  BY DEF DeliveryInv, DeliveryTypeOK, Orderly, AccountsHandedOut, Accountable, HandedOut,
         CancelledNeverRuns
<1>. QED
  BY <1>1, DeliveryInvariance, PTL

\* Where state.json can always be written, all three hold without exception.
THEOREM SafeWithoutFaults ==
  ASSUME MaxFaults = 0
  PROVE  DeliverySpec => [](RunsAtMostOnce /\ ReportsAreTrue /\ CancelledNeverRuns)
<1>1. DeliveryInv => faults = 0
  BY DEF DeliveryInv, DeliveryTypeOK, IInv, JobsTypeOK
<1>. QED
  BY <1>1, AtMostOnce, TrueReports, CancelledStayIdle, DeliveryInvariance, PTL
=============================================================================
