---------------------------- MODULE RelayDelivery ----------------------------
(***************************************************************************)
(* One client of the relay (Run in src/internal/relay/client.go) and the   *)
(* job table of the server, over a network that loses and delays.  The     *)
(* client has one request at a time under way; it gives up on one that     *)
(* takes too long, and the server may still serve it afterwards.  A round  *)
(* of its loop posts the result it owes, sends a heartbeat, and only if     *)
(* that is accepted, so that the server has written its whole state, claims *)
(* a job.  The result of a job is written to the client's results directory *)
(* before it is posted, and posted again until the server accepts it.       *)
(***************************************************************************)
EXTENDS RelayJobs, FiniteSets

CONSTANTS
  Me,            \* the device of this client
  MaxTroubles,   \* bound on crashes, restarts and lost messages
  MaxStale       \* bound on abandoned requests still on their way

ASSUME DeliveryAssumption ==
  /\ Me \in Devices
  /\ MaxTroubles \in Nat /\ MaxStale \in Nat

VARIABLES
  pc,            \* what the client is at
  job,           \* the job it runs, or whose result it has to post
  results,       \* the results directory; survives a crash
  request,       \* the request the server has not served yet
  reply,         \* the answer on its way to the client
  stale,         \* abandoned requests the server may still serve
  troubles,
  started,       \* history: jobs whose execution began
  twice,         \* history: jobs whose execution began again
  interrupted    \* history: jobs a restart of the server found running

clientVars == <<pc, job, results, started, twice>>
netVars == <<request, reply, stale>>
vars == <<jobVars, clientVars, netVars, troubles, interrupted>>

Outcomes == {"none", "good", "bad"}

Request == [op : {"heartbeat", "current", "claim", "result"}, job : Jobs \cup {None},
            outcome : Outcomes]
Reply == [ok : BOOLEAN, job : Jobs \cup {None}]

Nothing == [op |-> "none", job |-> None, outcome |-> "none"]
NoReply == [ok |-> FALSE, job |-> Nothing]
Failure == [ok |-> FALSE, job |-> None]
Answer(j) == [ok |-> TRUE, job |-> j]

DeliveryInit ==
  /\ JobsInit
  /\ pc = "down" /\ job = None
  /\ results = [j \in Jobs |-> "none"]
  /\ request = Nothing /\ reply = NoReply /\ stale = {}
  /\ troubles = 0
  /\ started = {} /\ twice = {} /\ interrupted = {}

Send(state, op, j, outcome) ==
  /\ pc' = state
  /\ request' = [op |-> op, job |-> j, outcome |-> outcome]

Trouble == troubles < MaxTroubles /\ troubles' = troubles + 1

-----------------------------------------------------------------------------
(* The client. *)

SendHeartbeat(state) == Send(state, "heartbeat", None, "none")

\* Run begins with a heartbeat.
Start ==
  /\ pc = "down"
  /\ SendHeartbeat("greeting")
  /\ UNCHANGED <<jobVars, job, results, started, twice, reply, stale, troubles, interrupted>>

\* One that is refused is sent again, as by a client that has just begun.
Greeted ==
  /\ pc = "greeting" /\ reply # NoReply
  /\ reply' = NoReply
  /\ IF reply.ok THEN Send("checking", "current", None, "none")
     ELSE pc' = "down" /\ UNCHANGED request
  /\ UNCHANGED <<jobVars, job, results, started, twice, stale, troubles, interrupted>>

\* Slip: a completion without an error stands for the unknown outcome.
UnknownOutcomeGood(j) == IF results[j] = "none" THEN "good" ELSE results[j]

\* What is reported of a job this client had claimed before it went down: its
\* result if there is one, else the error that the outcome is unknown.
RecoveredOutcome(j) == IF results[j] = "none" THEN "bad" ELSE results[j]

\* Slip: a job that was under way when the client went down is not reported.
CheckedNothing ==
  /\ pc = "checking" /\ reply # NoReply
  /\ reply' = NoReply
  /\ pc' = (IF reply.ok THEN "idle" ELSE "down")
  /\ UNCHANGED <<jobVars, job, results, started, twice, request, stale, troubles, interrupted>>

\* The answer to GET /api/agent/current; an error ends Run.
Checked ==
  /\ pc = "checking" /\ reply # NoReply
  /\ reply' = NoReply
  /\ IF reply.ok /\ reply.job # None
     THEN Send("recovering", "result", reply.job, RecoveredOutcome(reply.job))
     ELSE pc' = (IF reply.ok THEN "idle" ELSE "down") /\ UNCHANGED request
  /\ UNCHANGED <<jobVars, job, results, started, twice, stale, troubles, interrupted>>

Recovered ==
  /\ pc = "recovering" /\ reply # NoReply
  /\ reply' = NoReply
  /\ pc' = IF reply.ok THEN "idle" ELSE "down"
  /\ UNCHANGED <<jobVars, job, results, started, twice, request, stale, troubles, interrupted>>

\* The heartbeat of a round in which there is no result to post.
SendBeat ==
  /\ pc = "idle" /\ job = None
  /\ SendHeartbeat("beating")
  /\ UNCHANGED <<jobVars, job, results, started, twice, reply, stale, troubles, interrupted>>

\* A job is claimed only after an accepted heartbeat and with no result pending.
SendClaim ==
  /\ pc = "beating" /\ reply # NoReply
  /\ reply' = NoReply
  /\ IF reply.ok /\ job = None THEN Send("claiming", "claim", None, "none")
     ELSE pc' = "idle" /\ UNCHANGED request
  /\ UNCHANGED <<jobVars, job, results, started, twice, stale, troubles, interrupted>>

\* The answer to a claim: a job with a result is only to be posted.
Claimed ==
  /\ pc = "claiming" /\ reply # NoReply
  /\ reply' = NoReply
  /\ job' = reply.job
  /\ IF reply.job # None /\ results[reply.job] = "none"
     THEN /\ pc' = "running"
          /\ started' = started \cup {reply.job}
          /\ twice' = twice \cup ({reply.job} \cap started)
     ELSE pc' = "idle" /\ UNCHANGED <<started, twice>>
  /\ UNCHANGED <<jobVars, results, request, stale, troubles, interrupted>>

\* execute() returns and the result is written; if that fails, Run ends.
Finish(outcome) ==
  /\ pc = "running"
  /\ \/ /\ results' = [results EXCEPT ![job] = outcome]
        /\ pc' = "idle" /\ UNCHANGED <<job, troubles>>
     \/ Trouble /\ pc' = "down" /\ job' = None /\ UNCHANGED results
  /\ UNCHANGED <<jobVars, started, twice, netVars, interrupted>>

SendResult ==
  /\ pc = "idle" /\ job # None
  /\ Send("posting", "result", job, results[job])
  /\ UNCHANGED <<jobVars, job, results, started, twice, reply, stale, troubles, interrupted>>

\* A result that was not accepted stays pending; the round goes on.
Posted ==
  /\ pc = "posting" /\ reply # NoReply
  /\ reply' = NoReply
  /\ SendHeartbeat("beating")
  /\ job' = IF reply.ok THEN None ELSE job
  /\ UNCHANGED <<jobVars, results, started, twice, stale, troubles, interrupted>>

-----------------------------------------------------------------------------
(* The server. *)

\* Slip: a claim does not answer the job that is running already.
ServeClaimOnce(a) ==
  \/ \E j \in Jobs : Claim(Me, j) /\ a = IF faults' = faults THEN Answer(j) ELSE Failure
  \/ /\ \A j \in Jobs : jobs[j].status = "queued" => jobs[j].device # Me
     /\ a = Answer(None)
     /\ UNCHANGED jobVars

\* POST /api/agent/claim, answered by a.
ServeClaim(a) ==
  \/ \E j \in Running(Me) : a = Answer(j) /\ UNCHANGED jobVars
  \/ \E j \in Jobs : Claim(Me, j) /\ a = IF faults' = faults THEN Answer(j) ELSE Failure
  \/ /\ \A j \in Jobs : Active(jobs, j) => jobs[j].device # Me
     /\ a = Answer(None)
     /\ UNCHANGED jobVars

\* POST /api/agent/result/{id}: a job that is over is only answered, one that
\* is queued, cancelled or unknown is refused.
ServeResult(j, outcome, a) ==
  \/ Finished(j) /\ a = Answer(j) /\ UNCHANGED jobVars
  \/ /\ Result(j, outcome = "good", FALSE)
     /\ a = IF faults' = faults THEN Answer(j) ELSE Failure
  \/ /\ jobs[j].status \in {"none", "queued", "cancelled"}
     /\ a = Failure
     /\ UNCHANGED jobVars

\* POST /api/agent/heartbeat: accepted once the state is written.
ServeHeartbeat(a) == Heartbeat /\ a = IF faults' = faults THEN Answer(None) ELSE Failure

Serve(q, a) ==
  \/ q.op = "heartbeat" /\ ServeHeartbeat(a)
  \/ q.op = "claim" /\ ServeClaim(a)
  \/ q.op = "result" /\ ServeResult(q.job, q.outcome, a)
  \/ /\ q.op = "current"
     /\ \/ \E j \in Running(Me) : a = Answer(j)
        \/ Running(Me) = {} /\ a = Answer(None)
     /\ UNCHANGED jobVars

Answers == {Answer(j) : j \in Jobs \cup {None}} \cup {Failure}

ServeRequest ==
  /\ request # Nothing
  /\ \E a \in Answers : Serve(request, a) /\ reply' = a
  /\ request' = Nothing
  /\ UNCHANGED <<clientVars, stale, troubles, interrupted>>

\* Served too late: nobody reads the answer.
ServeStale(q) ==
  /\ \E a \in Answers : Serve(q, a)
  /\ stale' = stale \ {q}
  /\ UNCHANGED <<clientVars, request, reply, troubles, interrupted>>

Admin ==
  /\ AdminStep
  /\ UNCHANGED <<clientVars, netVars, troubles, interrupted>>

\* Other requests that write the state: the heartbeats the client sends beside a
\* job, those of other devices, uploads, settings.
Beat ==
  /\ Heartbeat
  /\ UNCHANGED <<clientVars, netVars, troubles, interrupted>>

-----------------------------------------------------------------------------
(* What goes wrong. *)

\* Requests the client gives up on: lost, or left to be served late.
Abandoned ==
  \/ stale' = stale
  \/ request # Nothing /\ Cardinality(stale) < MaxStale /\ stale' = stale \cup {request}

\* The request times out, or its answer is lost.
Timeout ==
  /\ pc \in {"greeting", "checking", "recovering", "beating", "claiming", "posting"}
  /\ reply # Failure
  /\ Trouble
  /\ Abandoned
  /\ request' = Nothing /\ reply' = Failure
  /\ UNCHANGED <<jobVars, clientVars, interrupted>>

ClientCrash ==
  /\ pc # "down"
  /\ Trouble
  /\ Abandoned
  /\ pc' = "down" /\ job' = None
  /\ request' = Nothing /\ reply' = NoReply
  /\ UNCHANGED <<jobVars, results, started, twice, interrupted>>

\* The server goes down and comes back: connections break.
ServerRestart ==
  /\ Trouble
  /\ Restart
  /\ interrupted' = interrupted \cup {j \in Jobs : saved[j].status = "running"}
  /\ request' = Nothing
  /\ reply' = IF request # Nothing THEN Failure ELSE reply
  /\ stale' \in SUBSET stale
  /\ UNCHANGED clientVars

DeliveryNext ==
  \/ Start \/ Greeted \/ Checked \/ Recovered \/ SendBeat \/ SendClaim \/ Claimed
  \/ SendResult \/ Posted
  \/ \E outcome \in {"good", "bad"} : Finish(outcome)
  \/ ServeRequest
  \/ \E q \in stale : ServeStale(q)
  \/ Admin \/ Beat
  \/ Timeout \/ ClientCrash \/ ServerRestart

DeliverySpec == DeliveryInit /\ [][DeliveryNext]_vars

\* The client is restarted when it stops, goes round its loop and ends what it
\* runs; the server serves requests.  Nothing is assumed of the administrator.
ClientStep ==
  \/ Start \/ Greeted \/ Checked \/ Recovered \/ SendBeat \/ SendClaim \/ Claimed
  \/ SendResult \/ Posted
  \/ \E outcome \in {"good", "bad"} : Finish(outcome)

FairDeliverySpec == DeliverySpec /\ WF_vars(ClientStep) /\ WF_vars(ServeRequest)

-----------------------------------------------------------------------------
\* No job is executed twice, whatever is lost or delayed and whoever restarts:
\* the client delivers a durable result and never replays the job.
RunsAtMostOnce == twice = {}

\* The server calls a job done only if the client finished it well, and failed
\* though it went well only if the server itself was restarted in between.
ReportsAreTrue ==
  \A j \in Jobs :
    /\ jobs[j].status = "done" => results[j] = "good"
    /\ jobs[j].status = "failed" /\ results[j] = "good" => j \in interrupted

\* A job the administrator has cancelled was never executed and never will be.
CancelledNeverRuns == \A j \in started : jobs[j].status # "cancelled"

\* Every job that is queued is settled in the end.
JobsAreSettled ==
  \A j \in Jobs : Active(jobs, j) ~> jobs[j].status \in {"done", "failed", "cancelled"}
=============================================================================
