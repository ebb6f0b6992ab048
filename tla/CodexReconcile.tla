--------------------------- MODULE CodexReconcile ---------------------------
(***************************************************************************)
(* After a restore, Codex is asked to take notice of the restored threads  *)
(* (Reconcile in src/internal/codexreconcile/reconcile.go): a short-lived  *)
(* `codex app-server` is started, its thread list is read, threads it does *)
(* not know are read one by one, and the list is read again as the proof.  *)
(*                                                                         *)
(* Requests and answers are lines on two pipes.  The client waits for one  *)
(* answer at a time and skips lines that are not it; a deadline kills the  *)
(* child.  The app-server is another program: it may answer with an error, *)
(* print other lines, stop or hang.  What it promises is marked `honest`.  *)
(* A cursor of its pages stands for the threads that are still to come.    *)
(***************************************************************************)
EXTENDS Naturals, Sequences, FiniteSets

CONSTANTS
  Threads,
  Requested,   \* the threads of the restored snapshot
  Homes,
  Wanted,      \* the Codex home restored into
  None,
  PageSize,    \* threads on a page (100 in the code)
  MaxPages,    \* pages of a list (10000 in the code)
  MaxStrays    \* bound on what a dishonest server does, and on stray lines

ASSUME ReconcileAssumption ==
  /\ Requested \subseteq Threads /\ Requested # {} /\ IsFiniteSet(Threads)
  /\ Wanted \in Homes /\ None \notin Homes
  /\ \A cursor \in SUBSET Threads : cursor # None
  /\ PageSize \in Nat \ {0} /\ MaxPages \in Nat \ {0} /\ MaxStrays \in Nat

VARIABLES
  pc,          \* what the client waits for, or what close() does
  n,           \* nextID: the id of the last request
  stateOnly,   \* the list is asked for with useStateDbOnly
  pages, seen, found,             \* locals of listThreadIDs
  reading,     \* the thread being read
  already, repaired, verified,    \* of the Result
  outcome,
  late,        \* the deadline has passed
  proc,        \* the app-server process
  signalled,   \* it has been told to die
  requests, lines,                \* the pipes to and from it
  home, supports, index, rollouts,  \* of the server: what it opened, can and knows
  strays,
  honest,      \* history: the server has kept to the protocol
  served       \* history: the threads it has really read

list == <<pages, seen, found>>
results == <<already, repaired, verified>>
client == <<pc, n, stateOnly, list, reading, results, outcome>>
server == <<proc, signalled, late, home, supports, index, rollouts, strays, honest, served>>
vars == <<client, server, requests, lines>>

Waiting == {"initialize", "probe", "read", "verify"}
Closing == {"close", "grace", "killed"}

Cursors == SUBSET Threads

\* cursor: None at the first page of a list.
Request == [id : Nat, op : {"initialize", "list", "read"}, stateOnly : BOOLEAN,
            cursor : Cursors \cup {None}, thread : Threads \cup {None}]

\* next: {} when there are no more pages.
Line == [id : Nat, answer : {"ok", "error", "unsupported"}, home : Homes \cup {None},
         data : SUBSET Threads, next : Cursors]

Reply(i, answer, opened, data, next) ==
  [id |-> i, answer |-> answer, home |-> opened, data |-> data, next |-> next]

\* A line without a result, such as a notification (its id counts as 0).
Blank(i) == Reply(i, "ok", None, {}, {})

ReconcileInit ==
  /\ pc = "start" /\ n = 0 /\ stateOnly = TRUE
  /\ pages = 0 /\ seen = {} /\ found = {} /\ reading = None
  /\ already = {} /\ repaired = {} /\ verified = {}
  /\ outcome = "none" /\ late = FALSE
  /\ proc = "none" /\ signalled = FALSE
  /\ requests = <<>> /\ lines = <<>>
  /\ home \in Homes /\ supports \in BOOLEAN
  /\ index \in SUBSET Threads /\ rollouts \in SUBSET Threads
  /\ strays = 0 /\ honest = TRUE /\ served = {}

-----------------------------------------------------------------------------
(* The client. *)

\* Reconcile has its answer; the deferred close() is next.
Ends(result) == pc' = "close" /\ outcome' = result

\* call(), up to the read of an answer: the write fails when the child is gone.
Call(state, op, only, cursor, thread) ==
  IF proc = "running"
  THEN /\ pc' = state /\ n' = n + 1
       /\ requests' = Append(requests, [id |-> n + 1, op |-> op, stateOnly |-> only,
                                        cursor |-> cursor, thread |-> thread])
       /\ UNCHANGED outcome
  ELSE Ends("error") /\ n' = n + 1 /\ UNCHANGED requests

\* Slip: the answer is not matched with the request.
AnyLine == lines # <<>>

\* The next line answers the request.
Mine == lines # <<>> /\ Head(lines).id = n

Read == lines' = Tail(lines) /\ UNCHANGED server

\* Reconcile up to the answer of startServer.
Start ==
  /\ pc = "start"
  /\ \/ /\ proc' = "running"
        /\ pc' = "initialize" /\ n' = 1
        /\ requests' = <<[id |-> 1, op |-> "initialize", stateOnly |-> FALSE,
                          cursor |-> None, thread |-> None]>>
        /\ UNCHANGED outcome
     \/ /\ pc' = "returned" /\ outcome' = "error"
        /\ UNCHANGED <<proc, n, requests>>
  /\ UNCHANGED <<stateOnly, list, reading, results, lines, signalled, late, home, supports,
                 index, rollouts, strays, honest, served>>

\* Notifications, diagnostics and answers to other requests.
SkipLine ==
  /\ pc \in Waiting /\ lines # <<>> /\ ~Mine
  /\ Read
  /\ UNCHANGED <<client, requests>>

\* The child is gone, and all it wrote has been read.
EndOfOutput ==
  /\ pc \in Waiting /\ lines = <<>> /\ proc # "running"
  /\ Ends("error")
  /\ UNCHANGED <<n, stateOnly, list, reading, results, server, requests, lines>>

\* The first page of a list.
List(state, only) ==
  /\ pages' = 0 /\ seen' = {} /\ found' = {}
  /\ Call(state, "list", only, None, None)

\* Slip: whatever home the server has opened is taken.
RightHomeAny(line) == TRUE

RightHome(line) == line.home = Wanted

Initialized ==
  /\ pc = "initialize" /\ Mine /\ Head(lines).answer = "ok"
  /\ Read
  /\ IF RightHome(Head(lines))
     THEN List("probe", TRUE)
     ELSE Ends("error") /\ UNCHANGED <<n, list, requests>>
  /\ UNCHANGED <<stateOnly, reading, results>>

\* A server that does not know useStateDbOnly is asked without it, once.
Unsupported ==
  /\ pc = "probe" /\ stateOnly /\ Mine /\ Head(lines).answer = "unsupported"
  /\ Read
  /\ stateOnly' = FALSE
  /\ List("probe", FALSE)
  /\ UNCHANGED <<reading, results>>

\* Any other error answer ends the attempt.
Refused ==
  /\ pc \in Waiting /\ Mine
  /\ \/ Head(lines).answer = "error"
     \/ Head(lines).answer = "unsupported" /\ ~(pc = "probe" /\ stateOnly)
  /\ Read /\ Ends("error")
  /\ UNCHANGED <<n, stateOnly, list, reading, results, requests>>

Page == pc \in {"probe", "verify"} /\ Mine /\ Head(lines).answer = "ok"

Listed == found \cup Head(lines).data

\* Slip: a list is taken to have one page.
LastPageFirst == Page

LastPage == Page /\ Head(lines).next = {}

Repeated(cursor) == cursor \in seen

\* A page that is not the last one: the next is asked for.
NextPage ==
  /\ Page /\ ~LastPage
  /\ Read
  /\ found' = Listed
  /\ IF Repeated(Head(lines).next) \/ pages + 1 = MaxPages
     THEN Ends("error") /\ UNCHANGED <<n, pages, seen, requests>>
     ELSE /\ seen' = seen \cup {Head(lines).next} /\ pages' = pages + 1
          /\ Call(pc, "list", stateOnly, Head(lines).next, None)
  /\ UNCHANGED <<stateOnly, reading, results>>

\* The turns of the loop over the requested threads, up to the next request: a
\* read of one the server does not know, or the list that verifies them all.  The
\* loop goes in the order of the ids, which is left open here, and the threads
\* known already are noted at its first turn.
Continue(known, left) ==
  /\ already' = known
  /\ \/ \E t \in left : /\ reading' = t /\ pages' = 0 /\ seen' = {} /\ found' = {}
                        /\ Call("read", "read", FALSE, None, t)
     \/ left = {} /\ UNCHANGED reading /\ List("verify", stateOnly)

Probed ==
  /\ pc = "probe" /\ LastPage
  /\ Read
  /\ Continue(Requested \cap Listed, Requested \ Listed)
  /\ UNCHANGED <<stateOnly, repaired, verified>>

ReadThread ==
  /\ pc = "read" /\ Mine /\ Head(lines).answer = "ok"
  /\ Read
  /\ repaired' = repaired \cup {reading}
  /\ Continue(already, Requested \ (already \cup repaired'))
  /\ UNCHANGED <<stateOnly, verified>>

Verified ==
  /\ pc = "verify" /\ LastPage
  /\ Read
  /\ found' = Listed
  /\ verified' = Requested \cap Listed
  /\ Ends(IF Requested \subseteq Listed THEN "ok" ELSE "missing")
  /\ UNCHANGED <<n, stateOnly, pages, seen, reading, already, repaired, requests>>

\* close(): the child's input is closed.
CloseInput ==
  /\ pc = "close" /\ pc' = "grace"
  /\ UNCHANGED <<n, stateOnly, list, reading, results, outcome, server, requests, lines>>

\* It has not exited within two seconds.
GraceOver ==
  /\ pc = "grace" /\ proc = "running"
  /\ pc' = "killed" /\ signalled' = TRUE
  /\ UNCHANGED <<n, stateOnly, list, reading, results, outcome, proc, late, home, supports,
                 index, rollouts, strays, honest, served, requests, lines>>

\* close() returns when the child is gone, or two seconds after the kill; the
\* deferred cancel() then kills it in any case.
Return ==
  /\ \/ pc = "grace" /\ proc # "running"
     \/ pc = "killed"
  /\ pc' = "returned" /\ signalled' = TRUE
  /\ UNCHANGED <<n, stateOnly, list, reading, results, outcome, proc, late, home, supports,
                 index, rollouts, strays, honest, served, requests, lines>>

-----------------------------------------------------------------------------
(* Time and the operating system. *)

\* Slip: the deadline does not reach the child.
DeadlineIgnored ==
  /\ pc \notin {"start", "returned"} /\ ~late
  /\ late' = TRUE
  /\ UNCHANGED <<client, proc, signalled, home, supports, index, rollouts, strays, honest,
                 served, requests, lines>>

\* The context of the command expires: the process is killed.
Deadline ==
  /\ pc \notin {"start", "returned"} /\ ~late
  /\ late' = TRUE /\ signalled' = TRUE
  /\ UNCHANGED <<client, proc, home, supports, index, rollouts, strays, honest, served,
                 requests, lines>>

Dies ==
  /\ proc = "running" /\ signalled
  /\ proc' = "gone"
  /\ UNCHANGED <<client, signalled, late, home, supports, index, rollouts, strays, honest,
                 served, requests, lines>>

-----------------------------------------------------------------------------
(* The app-server. *)

Up == proc = "running" /\ pc \in Waiting

Answering(line) ==
  lines' = Append(lines, line) /\ requests' = Tail(requests)

\* The threads a list still has to name, of those the server knows.  A list that
\* is not of the state database looks at the session files first.
Rest(q) ==
  LET known == IF q.stateOnly THEN index ELSE index \cup rollouts
  IN IF q.cursor = None THEN known ELSE q.cursor \cap known

Serve ==
  /\ Up /\ requests # <<>>
  /\ LET q == Head(requests)
     IN \/ /\ q.op = "initialize"
           /\ Answering(Reply(q.id, "ok", home, {}, {})) /\ UNCHANGED <<index, served>>
        \/ /\ q.op = "list" /\ q.stateOnly /\ ~supports
           /\ Answering(Reply(q.id, "unsupported", None, {}, {}))
           /\ UNCHANGED <<index, served>>
        \/ /\ q.op = "list" /\ (q.stateOnly => supports)
           /\ index' = IF q.stateOnly THEN index ELSE index \cup rollouts
           /\ \E page \in SUBSET Rest(q) :
                /\ Cardinality(page) <= PageSize
                /\ page = Rest(q) \/ Cardinality(page) = PageSize
                /\ Answering(Reply(q.id, "ok", None, page, Rest(q) \ page))
           /\ UNCHANGED served
        \/ /\ q.op = "read" /\ q.thread \in rollouts
           /\ index' = index \cup {q.thread} /\ served' = served \cup {q.thread}
           /\ Answering(Blank(q.id))
        \/ /\ q.op = "read" /\ q.thread \notin rollouts
           /\ Answering(Reply(q.id, "error", None, {}, {}))
           /\ UNCHANGED <<index, served>>
  /\ UNCHANGED <<client, proc, signalled, late, home, supports, rollouts, strays, honest>>

\* A line that answers nothing: a notification, an answer given before, or, from
\* a server that does not keep its own requests apart, one with the id waited for.
Stray ==
  /\ Up /\ strays < MaxStrays
  /\ strays' = strays + 1
  /\ \E i \in 0..n : lines' = Append(lines, Blank(i)) /\ honest' = (honest /\ i # n)
  /\ UNCHANGED <<client, proc, signalled, late, home, supports, index, rollouts, served, requests>>

\* An answer that is an error, or a page of threads it knows with another cursor.
ServeBadly ==
  /\ Up /\ requests # <<>> /\ strays < MaxStrays
  /\ strays' = strays + 1 /\ honest' = FALSE
  /\ \/ \E a \in {"error", "unsupported"} :
          Answering(Reply(Head(requests).id, a, None, {}, {}))
     \/ /\ Head(requests).op = "list"
        /\ \E page \in SUBSET index, next \in Cursors :
             Answering(Reply(Head(requests).id, "ok", None, page, next))
  /\ UNCHANGED <<client, proc, signalled, late, home, supports, index, rollouts, served>>

\* It exits when its input is closed, or without a reason.
Exits ==
  /\ proc = "running" /\ pc # "start"
  /\ proc' = "gone" /\ honest' = (honest /\ pc \notin Waiting)
  /\ UNCHANGED <<client, signalled, late, home, supports, index, rollouts, strays, served,
                 requests, lines>>

-----------------------------------------------------------------------------
ClientStep ==
  \/ Start \/ SkipLine \/ EndOfOutput \/ Initialized \/ Unsupported \/ Refused
  \/ NextPage \/ Probed \/ ReadThread \/ Verified
  \/ CloseInput \/ GraceOver \/ Return

ReconcileNext ==
  \/ ClientStep
  \/ Deadline \/ Dies
  \/ Serve \/ Stray \/ ServeBadly \/ Exits

ReconcileSpec == ReconcileInit /\ [][ReconcileNext]_vars

\* The goroutine runs, timers expire and a killed process dies.  Nothing is
\* assumed of the app-server.
Fairness == WF_vars(ClientStep) /\ WF_vars(Deadline) /\ WF_vars(Dies)

FairReconcileSpec == ReconcileSpec /\ Fairness

-----------------------------------------------------------------------------
\* Success means that Codex knows every requested thread, in the home the
\* sessions were restored into, whatever else the server has printed and whether
\* or not it keeps to the protocol.
VerifiedIsIndexed ==
  outcome = "ok" => home = Wanted /\ Requested \subseteq index /\ verified = Requested

\* A thread reported as read was read: its answer is not that of another
\* request, and no other line is taken for it.
RepairedWereRead == honest => repaired \subseteq served

\* An attempt with a server that keeps to the protocol fails only for a reason:
\* the deadline, another home, a list beyond the page limit, or a thread that
\* Codex neither knows nor finds among the session files.
FailureHasReason ==
  honest /\ outcome \in {"missing", "error"} =>
    \/ late \/ proc = "none" \/ home # Wanted
    \/ Cardinality(index) > MaxPages * PageSize
    \/ ~(Requested \subseteq index \cup rollouts)

\* Reconcile returns, and no app-server outlives it, even one that never answers
\* or ignores that its input was closed.
AlwaysReturns == pc = "start" ~> pc = "returned" /\ proc # "running"
=============================================================================
