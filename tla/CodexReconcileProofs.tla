------------------------ MODULE CodexReconcileProofs ------------------------
(***************************************************************************)
(* What a successful verification means, for any threads, homes, page      *)
(* sizes and misbehaviour of the app-server: every line on its way names   *)
(* only threads Codex knows, in the home it has opened, and its index only *)
(* grows, so the client can only ever have been told the truth.            *)
(*                                                                         *)
(* The second part is about a server that keeps to the protocol: there is  *)
(* one request under way, and the line with its id is its answer.  From    *)
(* that follow what a read means and why an attempt fails.                 *)
(***************************************************************************)
EXTENDS CodexReconcile, FiniteSetTheorems, SequenceTheorems, TLAPS

\* The line says nothing of the home and the threads that is not so.
Truthful(line) == line.home \in {home, None} /\ line.data \subseteq index

\* Truth of all that is under way, of what the client has gathered from it, and of
\* its verdict.
IInv ==
  /\ n \in Nat /\ index \subseteq Threads /\ rollouts \subseteq Threads
  /\ home \in Homes
  /\ lines \in Seq(Line) /\ requests \in Seq(Request)
  /\ \A i \in 1..Len(lines) : Truthful(lines[i])
  /\ found \subseteq index /\ already \subseteq index
  /\ stateOnly \in BOOLEAN
  /\ pc \in {"probe", "read", "verify"} => home = Wanted
  /\ pc \in {"start"} \cup Waiting => outcome = "none"
  /\ VerifiedIsIndexed

\* No line has been written.
LEMMA TruthInit == ReconcileInit => IInv
BY ReconcileAssumption DEF ReconcileInit, IInv, VerifiedIsIndexed

\* The fields of a line.
LEMMA ReplyFacts ==
  ASSUME NEW i \in Nat, NEW a \in {"ok", "error", "unsupported"},
         NEW h \in Homes \cup {None}, NEW data, data \subseteq Threads,
         NEW next, next \subseteq Threads
  PROVE  /\ Reply(i, a, h, data, next) \in Line
         /\ Reply(i, a, h, data, next).home = h
         /\ Reply(i, a, h, data, next).data = data
BY DEF Reply, Line, Cursors

\* What has been read leaves the lines behind it as they are.
LEMMA RestIsTruthful ==
  ASSUME IInv, lines # <<>>
  PROVE  /\ Head(lines) \in Line /\ Truthful(Head(lines))
         /\ Tail(lines) \in Seq(Line)
         /\ \A i \in 1..Len(Tail(lines)) : Truthful(Tail(lines)[i])
<1>1. lines \in Seq(Line) /\ \A i \in 1..Len(lines) : Truthful(lines[i])
  BY DEF IInv
<1>2. Head(lines) = lines[1] /\ 1 \in 1..Len(lines)
  BY <1>1
<1>3. Len(Tail(lines)) = Len(lines) - 1 /\ Len(lines) \in Nat
  BY <1>1
<1>4. ASSUME NEW i \in 1..Len(Tail(lines)) PROVE Truthful(Tail(lines)[i])
  <2>1. Tail(lines)[i] = lines[i + 1] /\ i + 1 \in 1..Len(lines)
    BY <1>1, <1>3
  <2> QED
    BY <1>1, <2>1
<1> QED
  BY <1>1, <1>2, <1>4

\* A request is appended, or none is.
LEMMA CallKeepsRequests ==
  ASSUME NEW state, NEW op \in {"initialize", "list", "read"}, NEW only \in BOOLEAN,
         NEW cursor \in Cursors \cup {None}, NEW thread \in Threads \cup {None},
         IInv, Call(state, op, only, cursor, thread)
  PROVE  /\ requests' \in Seq(Request) /\ n' \in Nat
         /\ \/ pc' = state /\ outcome' = outcome
            \/ pc' = "close" /\ outcome' = "error"
<1> DEFINE q == [id |-> n + 1, op |-> op, stateOnly |-> only, cursor |-> cursor,
                 thread |-> thread]
<1>1. n \in Nat /\ requests \in Seq(Request)
  BY DEF IInv
<1>2. q \in Request
  BY <1>1 DEF Request
<1>3. CASE proc = "running"
  <2>1. requests' = Append(requests, q) /\ n' = n + 1 /\ pc' = state /\ outcome' = outcome
    BY <1>3 DEF Call
  <2> QED
    BY <1>1, <1>2, <2>1
<1>4. CASE proc # "running"
  BY <1>1, <1>4 DEF Call, Ends
<1> QED
  BY <1>3, <1>4

\* A line that is true when it is written joins those that are.
LEMMA AppendTruth ==
  ASSUME IInv, NEW line \in Line, Truthful(line)', lines' = Append(lines, line),
         home' = home, index \subseteq index'
  PROVE  /\ lines' \in Seq(Line)
         /\ (\A i \in 1..Len(lines) : Truthful(lines[i]))'
<1>1. lines \in Seq(Line) /\ \A i \in 1..Len(lines) : Truthful(lines[i])
  BY DEF IInv
<1>2. lines' \in Seq(Line) /\ Len(lines') = Len(lines) + 1 /\ Len(lines) \in Nat
  BY <1>1
<1>3. ASSUME NEW i \in 1..Len(lines') PROVE (lines'[i]).home \in {home, None}
                                            /\ (lines'[i]).data \subseteq index'
  <2>1. CASE i \in 1..Len(lines)
    <3>1. lines'[i] = lines[i]
      BY <1>1, <2>1
    <3> QED
      BY <1>1, <2>1, <3>1 DEF Truthful
  <2>2. CASE i = Len(lines) + 1
    <3>1. lines'[i] = line
      BY <1>1, <2>2
    <3> QED
      BY <3>1 DEF Truthful
  <2> QED
    BY <1>2, <2>1, <2>2
<1> QED
  BY <1>2, <1>3 DEF Truthful

\* A line the client takes away leaves the others true, as nothing else of the
\* server changes.
LEMMA ReadKeepsTruth ==
  ASSUME IInv, lines # <<>>, Read
  PROVE  /\ lines' \in Seq(Line) /\ (\A i \in 1..Len(lines) : Truthful(lines[i]))'
         /\ home' = home /\ index' = index /\ rollouts' = rollouts
BY RestIsTruthful DEF Read, server, Truthful

\* The first request of a list keeps the invariant, in the right home only.
LEMMA ListKeeps ==
  ASSUME NEW state \in {"probe", "verify"}, NEW only \in BOOLEAN,
         IInv, lines # <<>>, Read, home = Wanted, outcome = "none",
         List(state, only), already' \subseteq index, stateOnly' \in BOOLEAN
  PROVE  IInv'
<1>1. /\ lines' \in Seq(Line) /\ (\A i \in 1..Len(lines) : Truthful(lines[i]))'
      /\ home' = home /\ index' = index /\ rollouts' = rollouts
  BY ReadKeepsTruth
<1>2. Call(state, "list", only, None, None) /\ found' = {}
  BY DEF List
<1>3. /\ requests' \in Seq(Request) /\ n' \in Nat
      /\ (pc' = state /\ outcome' = "none") \/ (pc' = "close" /\ outcome' = "error")
  BY <1>2, CallKeepsRequests
<1> QED
  BY <1>1, <1>2, <1>3 DEF IInv, VerifiedIsIndexed, Waiting

\* So do the turns of the loop over the requested threads.
LEMMA ContinueKeeps ==
  ASSUME NEW known, NEW left \in SUBSET Threads, known \subseteq index, stateOnly \in BOOLEAN,
         IInv, lines # <<>>, Read, home = Wanted, outcome = "none", Continue(known, left),
         UNCHANGED stateOnly
  PROVE  IInv'
<1>1. /\ lines' \in Seq(Line) /\ (\A i \in 1..Len(lines) : Truthful(lines[i]))'
      /\ home' = home /\ index' = index /\ rollouts' = rollouts
  BY ReadKeepsTruth
<1>2. already' = known
  BY DEF Continue
<1>3. ASSUME NEW t \in left, found' = {}, Call("read", "read", FALSE, None, t) PROVE IInv'
  <2>1. /\ requests' \in Seq(Request) /\ n' \in Nat
        /\ (pc' = "read" /\ outcome' = "none") \/ (pc' = "close" /\ outcome' = "error")
    BY <1>3, CallKeepsRequests
  <2> QED
    BY <1>1, <1>2, <1>3, <2>1 DEF IInv, VerifiedIsIndexed, Waiting
<1>4. CASE List("verify", stateOnly)
  BY <1>2, <1>4, ListKeeps
<1> QED
  BY <1>3, <1>4 DEF Continue

-----------------------------------------------------------------------------
\* The steps of the client.
LEMMA ClientKeeps == IInv /\ ClientStep => IInv'
<1> SUFFICES ASSUME IInv, ClientStep PROVE IInv'
  OBVIOUS
<1>1. lines # <<>> => Head(lines) \in Line /\ Truthful(Head(lines))
  BY RestIsTruthful
<1>2. lines # <<>> /\ Read =>
        /\ lines' \in Seq(Line) /\ (\A i \in 1..Len(lines) : Truthful(lines[i]))'
        /\ home' = home /\ index' = index /\ rollouts' = rollouts
  BY ReadKeepsTruth
<1>3. lines # <<>> => Listed \subseteq index
  BY <1>1 DEF Listed, Truthful, IInv
<1>4. CASE Start
  <2> DEFINE q == [id |-> 1, op |-> "initialize", stateOnly |-> FALSE,
                   cursor |-> None, thread |-> None]
  <2>1. q \in Request
    BY DEF Request
  <2>2. \/ requests' = <<q>> /\ n' = 1 /\ pc' = "initialize" /\ outcome' = outcome
        \/ UNCHANGED <<n, requests>> /\ pc' = "returned" /\ outcome' = "error"
    BY <1>4 DEF Start
  <2>3. requests' \in Seq(Request) /\ n' \in Nat
    <3>1. <<q>> \in Seq(Request)
      BY <2>1
    <3> HIDE DEF q
    <3>2. CASE requests' = <<q>> /\ n' = 1
      BY <3>1, <3>2
    <3>3. CASE UNCHANGED <<n, requests>>
      BY <3>3 DEF IInv
    <3> QED
      BY <2>2, <3>2, <3>3
  <2>4. UNCHANGED <<stateOnly, found, already, lines, home, index, rollouts>> /\ outcome = "none"
    BY <1>4 DEF Start, list, results, IInv
  <2>5. (pc' = "initialize" /\ outcome' = "none") \/ (pc' = "returned" /\ outcome' = "error")
    BY <2>2, <2>4
  <2> HIDE DEF q
  <2> QED
    BY <2>3, <2>4, <2>5 DEF IInv, Truthful, Waiting, VerifiedIsIndexed
<1>5. CASE SkipLine
  BY <1>5, <1>2 DEF SkipLine, IInv, client, list, results, VerifiedIsIndexed
<1>6. CASE EndOfOutput
  BY <1>6 DEF EndOfOutput, Ends, IInv, Truthful, list, results, server, Waiting, VerifiedIsIndexed
<1>7. CASE Initialized
  <2>1. CASE RightHome(Head(lines))
    <3>1. home = Wanted
      BY <1>7, <1>1, <2>1, ReconcileAssumption DEF Initialized, Mine, RightHome, Truthful
    <3>2. outcome = "none" /\ already \subseteq index
      BY <1>7 DEF Initialized, IInv, Waiting
    <3> QED
      BY <1>7, <2>1, <3>1, <3>2, ListKeeps DEF Initialized, Mine, IInv, results
  <2>2. CASE ~RightHome(Head(lines))
    BY <1>7, <1>2, <2>2
       DEF Initialized, Mine, Ends, IInv, list, results, Waiting, VerifiedIsIndexed
  <2> QED
    BY <2>1, <2>2
<1>8. CASE Unsupported
  <2>1. outcome = "none" /\ already \subseteq index /\ home = Wanted
    BY <1>8 DEF Unsupported, IInv, Waiting
  <2> QED
    BY <1>8, <2>1, ListKeeps DEF Unsupported, Mine, results
<1>9. CASE Refused
  BY <1>9, <1>2 DEF Refused, Mine, Ends, IInv, list, results, Waiting, VerifiedIsIndexed
<1>10. CASE NextPage
  <2>1. outcome = "none" /\ home = Wanted /\ found' \subseteq index
    BY <1>10, <1>3 DEF NextPage, Page, Mine, IInv, Waiting
  <2>2. CASE Repeated(Head(lines).next) \/ pages + 1 = MaxPages
    BY <1>10, <1>2, <2>1, <2>2
       DEF NextPage, Page, Mine, Ends, IInv, results, Waiting, VerifiedIsIndexed
  <2>3. CASE ~(Repeated(Head(lines).next) \/ pages + 1 = MaxPages)
    <3>1. Head(lines).next \in Cursors /\ stateOnly \in BOOLEAN
      BY <1>10, <1>1 DEF NextPage, Page, Mine, Line, IInv
    <3>2. Call(pc, "list", stateOnly, Head(lines).next, None)
      BY <1>10, <2>3 DEF NextPage
    <3>3. /\ requests' \in Seq(Request) /\ n' \in Nat
          /\ (pc' = pc /\ outcome' = "none") \/ (pc' = "close" /\ outcome' = "error")
      BY <2>1, <3>1, <3>2, CallKeepsRequests
    <3> QED
      BY <1>10, <1>2, <2>1, <3>3
         DEF NextPage, Page, Mine, IInv, results, Waiting, VerifiedIsIndexed
  <2> QED
    BY <2>2, <2>3
<1>11. CASE Probed
  <2>1. outcome = "none" /\ home = Wanted /\ stateOnly \in BOOLEAN
    BY <1>11 DEF Probed, IInv, Waiting
  <2>2. Requested \cap Listed \subseteq index /\ Requested \ Listed \in SUBSET Threads
    BY <1>11, <1>3, ReconcileAssumption DEF Probed, LastPage, Page, Mine
  <2> QED
    BY <1>11, <2>1, <2>2, ContinueKeeps DEF Probed, LastPage, Page, Mine
<1>12. CASE ReadThread
  <2>1. outcome = "none" /\ home = Wanted /\ stateOnly \in BOOLEAN /\ already \subseteq index
    BY <1>12 DEF ReadThread, IInv, Waiting
  <2>2. Requested \ (already \cup (repaired \cup {reading})) \in SUBSET Threads
    BY ReconcileAssumption
  <2>3. Continue(already, Requested \ (already \cup (repaired \cup {reading})))
    BY <1>12 DEF ReadThread
  <2> QED
    BY <1>12, <2>1, <2>2, <2>3, ContinueKeeps DEF ReadThread, Mine
<1>13. CASE Verified
  <2>1. home = Wanted /\ Listed \subseteq index
    BY <1>13, <1>3 DEF Verified, LastPage, Page, Mine, IInv
  <2> QED
    BY <1>13, <1>2, <2>1
       DEF Verified, LastPage, Page, Mine, Ends, IInv, Waiting, VerifiedIsIndexed
<1>14. CASE CloseInput
  BY <1>14 DEF CloseInput, IInv, Truthful, list, results, server, Waiting, VerifiedIsIndexed
<1>15. CASE GraceOver
  BY <1>15 DEF GraceOver, IInv, Truthful, list, results, Waiting, VerifiedIsIndexed
<1>16. CASE Return
  BY <1>16 DEF Return, IInv, Truthful, list, results, Waiting, VerifiedIsIndexed
<1> QED
  BY <1>4, <1>5, <1>6, <1>7, <1>8, <1>9, <1>10, <1>11, <1>12, <1>13, <1>14, <1>15, <1>16
     DEF ClientStep

\* A true line is written while nothing is decided yet.
LEMMA WriteKeeps ==
  ASSUME IInv, outcome = "none", UNCHANGED <<client, home, rollouts>>,
         index \subseteq index', index' \subseteq Threads, requests' \in Seq(Request),
         NEW line \in Line, line.home \in {home, None}, line.data \subseteq index',
         lines' = Append(lines, line)
  PROVE  IInv'
<1>1. Truthful(line)'
  BY DEF Truthful
<1>2. lines' \in Seq(Line) /\ (\A i \in 1..Len(lines) : Truthful(lines[i]))'
  BY <1>1, AppendTruth
<1> QED
  BY <1>2 DEF IInv, client, list, results, VerifiedIsIndexed

\* The same of an answer to the request the server has before it.
LEMMA AnswerKeeps ==
  ASSUME IInv, outcome = "none", requests # <<>>, UNCHANGED <<client, home, rollouts>>,
         index \subseteq index', index' \subseteq Threads,
         NEW a \in {"ok", "error", "unsupported"}, NEW h \in {home, None},
         NEW data \in SUBSET index', NEW next \in SUBSET Threads,
         Answering(Reply(Head(requests).id, a, h, data, next))
  PROVE  IInv'
<1>1. requests \in Seq(Request) /\ home \in Homes
  BY DEF IInv
<1>2. Head(requests) \in Request /\ Tail(requests) \in Seq(Request)
  BY <1>1
<1> DEFINE i == Head(requests).id
<1>3. i \in Nat
  BY <1>2 DEF Request
<1> DEFINE line == Reply(i, a, h, data, next)
<1>4. line \in Line /\ line.home = h /\ line.data = data
  <2>1. h \in Homes \cup {None} /\ data \subseteq Threads /\ next \subseteq Threads
    BY <1>1
  <2> HIDE DEF i
  <2> QED
    BY <1>3, <2>1, ReplyFacts
<1>5. lines' = Append(lines, line) /\ requests' = Tail(requests)
  BY DEF Answering
<1> HIDE DEF line
<1> QED
  BY <1>2, <1>4, <1>5, WriteKeeps

\* The steps of the app-server: what it lists is in its index.
LEMMA ServerKeeps ==
  ASSUME IInv, Serve \/ Stray \/ ServeBadly
  PROVE  IInv'
<1>1. /\ UNCHANGED <<client, home, rollouts>> /\ outcome = "none" /\ n \in Nat
      /\ index \subseteq Threads /\ rollouts \subseteq Threads /\ requests \in Seq(Request)
  BY DEF Serve, Stray, ServeBadly, Up, IInv
<1>2. CASE Serve
  <2> DEFINE q == Head(requests)
  <2>1. requests # <<>>
    BY <1>2 DEF Serve
  <2>2. CASE Answering(Reply(q.id, "ok", home, {}, {})) /\ UNCHANGED index
    BY <1>1, <2>1, <2>2, AnswerKeeps
  <2>3. CASE Answering(Reply(q.id, "unsupported", None, {}, {})) /\ UNCHANGED index
    BY <1>1, <2>1, <2>3, AnswerKeeps
  <2>4. ASSUME NEW page \in SUBSET Rest(q),
               index' = IF q.stateOnly THEN index ELSE index \cup rollouts,
               Answering(Reply(q.id, "ok", None, page, Rest(q) \ page))
        PROVE  IInv'
    <3>1. Rest(q) \subseteq index' /\ index' \subseteq Threads /\ index \subseteq index'
      BY <1>1, <2>4 DEF Rest
    <3>2. page \in SUBSET index' /\ Rest(q) \ page \in SUBSET Threads
      BY <3>1
    <3> QED
      BY <1>1, <2>1, <2>4, <3>1, <3>2, AnswerKeeps
  <2>5. CASE q.thread \in rollouts /\ index' = index \cup {q.thread} /\ Answering(Blank(q.id))
    <3>1. index' \subseteq Threads /\ index \subseteq index' /\ {} \in SUBSET index'
      BY <1>1, <2>5
    <3> QED
      BY <1>1, <2>1, <2>5, <3>1, AnswerKeeps DEF Blank
  <2>6. CASE Answering(Reply(q.id, "error", None, {}, {})) /\ UNCHANGED index
    BY <1>1, <2>1, <2>6, AnswerKeeps
  <2> QED
    BY <1>2, <2>2, <2>3, <2>4, <2>5, <2>6 DEF Serve
<1>3. CASE Stray
  <2>1. PICK i \in 0..n : lines' = Append(lines, Blank(i))
    BY <1>3 DEF Stray
  <2>2. Blank(i) \in Line /\ Blank(i).home = None /\ Blank(i).data = {}
    <3>1. i \in Nat /\ None \in Homes \cup {None} /\ {} \subseteq Threads
      BY <1>1
    <3> QED
      BY <3>1, ReplyFacts DEF Blank
  <2>3. UNCHANGED <<index, requests>>
    BY <1>3 DEF Stray
  <2> QED
    BY <1>1, <2>1, <2>2, <2>3, WriteKeeps
<1>4. CASE ServeBadly
  <2>1. requests # <<>> /\ UNCHANGED index
    BY <1>4 DEF ServeBadly
  <2>2. ASSUME NEW a \in {"error", "unsupported"},
               Answering(Reply(Head(requests).id, a, None, {}, {}))
        PROVE  IInv'
    BY <1>1, <2>1, <2>2, AnswerKeeps
  <2>3. ASSUME NEW page \in SUBSET index, NEW next \in Cursors,
               Answering(Reply(Head(requests).id, "ok", None, page, next))
        PROVE  IInv'
    BY <1>1, <2>1, <2>3, AnswerKeeps DEF Cursors
  <2> QED
    BY <1>4, <2>2, <2>3 DEF ServeBadly
<1> QED
  BY <1>2, <1>3, <1>4

\* Every step keeps the invariant.
LEMMA TruthNext == IInv /\ [ReconcileNext]_vars => IInv'
<1> SUFFICES ASSUME IInv, [ReconcileNext]_vars PROVE IInv'
  OBVIOUS
<1>1. CASE ClientStep
  BY <1>1, ClientKeeps
<1>2. CASE Serve \/ Stray \/ ServeBadly
  BY <1>2, ServerKeeps
<1>3. CASE Deadline \/ Dies \/ Exits \/ UNCHANGED vars
  BY <1>3 DEF Deadline, Dies, Exits, vars, client, server, list, results, IInv, Truthful,
     VerifiedIsIndexed
<1> QED
  BY <1>1, <1>2, <1>3 DEF ReconcileNext

\* When Reconcile reports success, Codex knows every restored thread, in the home
\* the sessions were restored into (reconcile.go:113-164): for every number of
\* threads, pages and stray lines, and for a server that breaks the protocol in
\* any of the modelled ways.
THEOREM SuccessIsTrue == ReconcileSpec => []VerifiedIsIndexed
<1>1. IInv => VerifiedIsIndexed
  BY DEF IInv
<1> QED
  BY <1>1, TruthInit, TruthNext, PTL DEF ReconcileSpec
-----------------------------------------------------------------------------
(* A server that keeps to the protocol. *)

\* What a list has to name.
Known == IF stateOnly THEN index ELSE index \cup rollouts

\* The lines the client has not read.
Unread == {lines[i] : i \in 1..Len(lines)}

\* What holds of any server: ids are drawn in order, threads are read from Codex's
\* index, and the child stops early only by the deadline or by its own fault.
Bookkeeping ==
  /\ pc = "start" => lines = <<>> /\ requests = <<>> /\ proc = "none"
  /\ pc \in {"start", "initialize"} => stateOnly = TRUE
  /\ served \subseteq index /\ honest \in BOOLEAN
  /\ pages \in Nat /\ seen \subseteq Cursors
  /\ pc = "read" => reading \in Requested \ already
  /\ pc = "verify" => Requested \subseteq already \cup repaired
  /\ pc \in Waiting => proc # "none"
  /\ pc \in {"start"} \cup Waiting /\ signalled => late
  /\ pc \in Waiting /\ honest => proc = "running" \/ late

\* The cursor asked for leads to the rest of the list; it shrinks from page to page.
PageAsked(cursor) ==
  IF cursor = None THEN pages = 0 /\ seen = {}
  ELSE /\ \A c \in seen : cursor \subseteq c
       /\ Cardinality(cursor) + pages * PageSize <= Cardinality(index)
       /\ Known \subseteq found \cup cursor

\* The request is the one the client waits for.
Asks(q) ==
  /\ pc = "initialize" => q.op = "initialize"
  /\ pc \in {"probe", "verify"} =>
       q.op = "list" /\ q.stateOnly = stateOnly /\ PageAsked(q.cursor)
  /\ pc = "read" => q.op = "read" /\ q.thread = reading

\* A page and what is to come complete the list; a page that is not the last is full.
PageGiven(line) ==
  /\ stateOnly => supports
  /\ Known \subseteq found \cup line.data \cup line.next
  /\ line.next # {} =>
       /\ \A c \in seen : line.next \subseteq c /\ line.next # c
       /\ Cardinality(line.next) + (pages + 1) * PageSize <= Cardinality(index)

\* The line is an answer to what the client waits for.
AnswersIt(line) ==
  /\ pc = "initialize" => line.answer = "ok" /\ line.home = home
  /\ pc \in {"probe", "verify"} =>
       \/ line.answer = "ok" /\ PageGiven(line)
       \/ line.answer = "unsupported" /\ stateOnly /\ ~supports
  /\ pc = "read" =>
       \/ line.answer = "ok" /\ reading \in served
       \/ line.answer = "error" /\ reading \notin rollouts

Conversation ==
  /\ \/ requests = <<>>
     \/ /\ Len(requests) = 1 /\ requests[1].id = n /\ Asks(requests[1])
        /\ \A line \in Unread : line.id # n
  /\ \A line \in Unread : line.id <= n
  /\ \A line \in Unread : line.id = n => AnswersIt(line)

\* Once the list was read, a requested thread it does not name is a session file, if
\* it is to be found at all.
Prospects ==
  pc \in {"read", "verify"} =>
    /\ stateOnly => supports
    /\ Requested \subseteq index \cup rollouts => Requested \ already \subseteq rollouts

HonestInv ==
  /\ IInv
  /\ Bookkeeping
  /\ honest => repaired \subseteq served
  /\ honest /\ pc \in Waiting => Conversation /\ Prospects
  /\ FailureHasReason
LEMMA UnreadAreLines ==
  ASSUME IInv
  PROVE  Unread \subseteq Line /\ \A line \in Unread : line.id \in Nat
<1>1. lines \in Seq(Line)
  BY DEF IInv
<1>2. \A i \in 1..Len(lines) : lines[i] \in Line
  BY <1>1
<1>3. Unread \subseteq Line
  BY <1>2 DEF Unread
<1> QED
  BY <1>3 DEF Line

LEMMA ReadUnread ==
  ASSUME IInv, lines # <<>>, Read
  PROVE  Head(lines) \in Unread /\ Head(lines) \in Line /\ Unread' \subseteq Unread
<1>1. lines \in Seq(Line) /\ lines' = Tail(lines)
  BY DEF IInv, Read
<1>2. Head(lines) = lines[1] /\ 1 \in 1..Len(lines) /\ Len(lines) \in Nat
  BY <1>1
<1>3. Len(lines') = Len(lines) - 1
  BY <1>1
<1>4. \A i \in 1..Len(lines') : i + 1 \in 1..Len(lines) /\ lines'[i] = lines[i + 1]
  BY <1>1, <1>2, <1>3
<1> QED
  BY <1>1, <1>2, <1>4 DEF Unread

LEMMA WriteUnread ==
  ASSUME IInv, NEW line, lines' = Append(lines, line)
  PROVE  Unread' \subseteq Unread \cup {line}
<1>1. lines \in Seq(Line)
  BY DEF IInv
<1>2. Len(lines') = Len(lines) + 1 /\ Len(lines) \in Nat
  BY <1>1
<1>3. \A i \in 1..Len(lines') : lines'[i] = IF i = Len(lines) + 1 THEN line ELSE lines[i]
  BY <1>1
<1> QED
  BY <1>2, <1>3 DEF Unread

-----------------------------------------------------------------------------
LEMMA BookInit == ReconcileInit => Bookkeeping
BY ReconcileAssumption DEF ReconcileInit, Bookkeeping, Unread, Waiting

\* A step that reads an answer, and sends a request or ends the attempt.
LEMMA ReadBooks ==
  ASSUME Bookkeeping, pc \in Waiting, Read,
         pages' \in Nat, seen' \subseteq Cursors,
         pc' = "close" \/ (pc' \in {"probe", "read", "verify"} /\ proc = "running"),
         pc' = "read" => reading' \in Requested \ already',
         pc' = "verify" => Requested \subseteq already' \cup repaired'
  PROVE  Bookkeeping'
BY DEF Read, server, Bookkeeping, Waiting

LEMMA ProbeBooks ==
  ASSUME Bookkeeping, pc \in Waiting, Read, NEW only, List("probe", only)
  PROVE  Bookkeeping'
<1>1. pages' = 0 /\ seen' = {} /\ ((pc' = "probe" /\ proc = "running") \/ pc' = "close")
  BY DEF List, Call, Ends
<1>. QED
  BY <1>1, ReadBooks DEF Waiting

LEMMA ContinueBooks ==
  ASSUME Bookkeeping, pc \in Waiting, Read,
         NEW known, NEW left, Continue(known, left), left \subseteq Requested \ known,
         left = {} => Requested \subseteq known \cup repaired'
  PROVE  Bookkeeping'
<1>1. already' = known
  BY DEF Continue
<1>2. ASSUME NEW t \in left, reading' = t, pages' = 0, seen' = {},
             Call("read", "read", FALSE, None, t)
      PROVE  Bookkeeping'
  <2>1. (pc' = "read" /\ proc = "running") \/ pc' = "close"
    BY <1>2 DEF Call, Ends
  <2>. QED
    BY <1>1, <1>2, <2>1, ReadBooks DEF Waiting
<1>3. CASE left = {} /\ List("verify", stateOnly)
  <2>1. /\ pages' = 0 /\ seen' = {}
        /\ (pc' = "verify" /\ proc = "running") \/ pc' = "close"
    BY <1>3 DEF List, Call, Ends
  <2>. QED
    BY <1>1, <1>3, <2>1, ReadBooks DEF Waiting
<1>. QED
  BY <1>2, <1>3 DEF Continue

LEMMA ClientBooks ==
  ASSUME IInv, Bookkeeping, ClientStep
  PROVE  Bookkeeping'
<1>1. CASE Start
  BY <1>1 DEF Start, Bookkeeping, Waiting, list
<1>2. CASE SkipLine \/ EndOfOutput
  BY <1>2 DEF SkipLine, EndOfOutput, Ends, Bookkeeping, Waiting, client, list, results, Read,
     server
<1>3. CASE Initialized
  <2>1. CASE List("probe", TRUE)
    BY <1>3, <2>1, ProbeBooks DEF Initialized, Waiting
  <2>2. CASE Ends("error") /\ UNCHANGED <<n, list, requests>>
    BY <1>3, <2>2, ReadBooks DEF Initialized, Ends, list, Waiting, Bookkeeping
  <2>. QED
    BY <1>3, <2>1, <2>2 DEF Initialized
<1>4. CASE Unsupported
  BY <1>4, ProbeBooks DEF Unsupported, Waiting
<1>5. CASE Refused
  BY <1>5, ReadBooks DEF Refused, Ends, list, Waiting, Bookkeeping
<1>6. CASE NextPage
  <2>1. pc \in {"probe", "verify"} /\ lines # <<>> /\ Read /\ UNCHANGED results
    BY <1>6 DEF NextPage, Page, Mine
  <2>2. CASE Ends("error") /\ UNCHANGED <<n, pages, seen, requests>>
    BY <2>1, <2>2, ReadBooks DEF Ends, Waiting, Bookkeeping
  <2>3. CASE /\ seen' = seen \cup {Head(lines).next} /\ pages' = pages + 1
             /\ Call(pc, "list", stateOnly, Head(lines).next, None)
    <3>1. (pc' = pc /\ proc = "running") \/ pc' = "close"
      BY <2>3 DEF Call, Ends
    <3>2. Head(lines).next \in Cursors
      BY <2>1, ReadUnread DEF Line
    <3>3. pages' \in Nat /\ seen' \subseteq Cursors
      BY <2>3, <3>2 DEF Bookkeeping
    <3>. QED
      BY <2>1, <3>1, <3>3, ReadBooks DEF Waiting, Bookkeeping, results
  <2>. QED
    BY <1>6, <2>1, <2>2, <2>3 DEF NextPage
<1>7. CASE Probed
  BY <1>7, ContinueBooks DEF Probed, Waiting
<1>8. CASE ReadThread
  <2>1. /\ pc \in Waiting /\ Read
        /\ Continue(already, Requested \ (already \cup repaired'))
    BY <1>8 DEF ReadThread, Waiting
  <2> DEFINE left == Requested \ (already \cup repaired')
  <2>2. left \subseteq Requested \ already /\ (left = {} => Requested \subseteq already \cup repaired')
    OBVIOUS
  <2> HIDE DEF left
  <2>3. Continue(already, left)
    BY <2>1 DEF left
  <2>. QED
    BY <2>1, <2>2, <2>3, ContinueBooks
<1>9. CASE Verified
  BY <1>9, ReadBooks DEF Verified, Ends, Waiting, Bookkeeping
<1>10. CASE CloseInput \/ GraceOver \/ Return
  BY <1>10 DEF CloseInput, GraceOver, Return, Bookkeeping, Waiting, list, results, server
<1>. QED
  BY <1>1, <1>2, <1>3, <1>4, <1>5, <1>6, <1>7, <1>8, <1>9, <1>10 DEF ClientStep

LEMMA BookNext == IInv /\ Bookkeeping /\ [ReconcileNext]_vars => Bookkeeping'
<1> SUFFICES ASSUME IInv, Bookkeeping, [ReconcileNext]_vars PROVE Bookkeeping'
  OBVIOUS
<1>1. CASE ClientStep
  BY <1>1, ClientBooks
<1>2. CASE Deadline \/ Dies \/ UNCHANGED vars
  BY <1>2 DEF Bookkeeping, Deadline, Dies, vars, client, server, list, results, Waiting
<1>3. CASE Exits
  <2>1. honest' \in BOOLEAN /\ (honest' => honest /\ pc \notin Waiting)
    BY <1>3 DEF Exits
  <2>2. /\ proc = "running" /\ pc # "start" /\ proc' = "gone"
        /\ UNCHANGED <<client, signalled, late, index, served>>
    BY <1>3 DEF Exits
  <2>. QED
    BY <2>1, <2>2 DEF Bookkeeping, client, list, results, Waiting
<1>4. CASE Serve \/ Stray \/ ServeBadly
  <2>1. pc \in Waiting /\ UNCHANGED <<client, proc, signalled, late>>
    BY <1>4 DEF Serve, Stray, ServeBadly, Up
  <2>2. honest' \in BOOLEAN /\ (honest' => honest)
    <3>1. CASE Serve \/ ServeBadly
      <4>1. honest' = honest \/ honest' = FALSE
        BY <3>1 DEF Serve, ServeBadly
      <4>2. honest \in BOOLEAN
        BY DEF Bookkeeping
      <4>3. CASE honest' = honest
        BY <4>2, <4>3
      <4>4. CASE honest' = FALSE
        BY <4>4
      <4>. QED
        BY <4>1, <4>3, <4>4
    <3>2. CASE Stray
      <4>1. PICK i \in 0..n : honest' = (honest /\ i # n)
        BY <3>2 DEF Stray
      <4>. QED
        BY <4>1
    <3>. QED
      BY <1>4, <3>1, <3>2
  <2>3. served' \subseteq index'
    BY <1>4 DEF Serve, Stray, ServeBadly, Bookkeeping
  <2>. QED
    BY <2>1, <2>2, <2>3 DEF Bookkeeping, client, list, results, Waiting
<1>. QED
  BY <1>1, <1>2, <1>3, <1>4 DEF ReconcileNext

-----------------------------------------------------------------------------
(* The conversation with a server that keeps to the protocol. *)

\* A page of an honest server takes the list forward.
LEMMA PageIsGiven ==
  ASSUME HonestInv, NEW q \in Request, q.op = "list", q.stateOnly = stateOnly,
         q.stateOnly => supports, PageAsked(q.cursor),
         UNCHANGED <<stateOnly, pages, seen, found, supports, rollouts>>,
         index' = IF q.stateOnly THEN index ELSE index \cup rollouts,
         NEW page \in SUBSET Rest(q), page = Rest(q) \/ Cardinality(page) = PageSize,
         NEW line, line.data = page, line.next = Rest(q) \ page
  PROVE  PageGiven(line)'
<1> DEFINE rest == Rest(q)
           next == rest \ page
<1>1. /\ Known = index' /\ Known' = index' /\ index \subseteq index'
      /\ index' \subseteq Threads /\ IsFiniteSet(index') /\ IsFiniteSet(index)
  <2>1. /\ Known = index' /\ Known' = index' /\ index \subseteq index'
        /\ index' \subseteq Threads /\ index \subseteq Threads
    BY DEF Known, HonestInv, IInv
  <2>. QED
    BY <2>1, ReconcileAssumption, FS_Subset
<1>2. /\ q.cursor = None => pages = 0 /\ seen = {} /\ rest = index'
      /\ q.cursor # None =>
           /\ rest = q.cursor \cap index'
           /\ \A c \in seen : q.cursor \subseteq c
           /\ Cardinality(q.cursor) + pages * PageSize <= Cardinality(index)
           /\ Known \subseteq found \cup q.cursor
           /\ q.cursor \subseteq Threads
  BY <1>1 DEF Rest, PageAsked, Known, Request, Cursors
<1>3. rest \subseteq index' /\ IsFiniteSet(rest)
  <2>1. rest \subseteq index'
    BY <1>2
  <2>. QED
    BY <1>1, <2>1, FS_Subset
<1> HIDE DEF rest
<1>4. page \subseteq rest
  BY DEF rest
<1>5. /\ IsFiniteSet(next) /\ Cardinality(next) = Cardinality(rest) - Cardinality(page)
      /\ IsFiniteSet(page) /\ Cardinality(rest) \in Nat /\ Cardinality(page) \in Nat
  <2>1. rest \cap page = page
    BY <1>4
  <2>2. IsFiniteSet(page)
    BY <1>3, <1>4, FS_Subset
  <2>3. /\ IsFiniteSet(rest \ page)
        /\ Cardinality(rest \ page) = Cardinality(rest) - Cardinality(rest \cap page)
    BY <1>3, FS_Difference
  <2>. QED
    BY <1>3, <2>1, <2>2, <2>3, FS_CardinalityType
<1>6. Cardinality(index) <= Cardinality(index') /\ Cardinality(rest) <= Cardinality(index')
      /\ Cardinality(index) \in Nat /\ Cardinality(index') \in Nat
  BY <1>1, <1>3, FS_Subset, FS_CardinalityType
<1>7. q.cursor # None => Cardinality(rest) <= Cardinality(q.cursor)
                         /\ Cardinality(q.cursor) \in Nat
  <2> SUFFICES ASSUME q.cursor # None
               PROVE  Cardinality(rest) <= Cardinality(q.cursor) /\ Cardinality(q.cursor) \in Nat
    OBVIOUS
  <2>1. IsFiniteSet(q.cursor)
    BY <1>2, ReconcileAssumption, FS_Subset
  <2>2. rest \subseteq q.cursor
    BY <1>2
  <2>. QED
    BY <2>1, <2>2, FS_Subset, FS_CardinalityType
<1>8. Known' \subseteq found \cup page \cup next
  BY <1>1, <1>2, <1>4
<1>9. ASSUME next # {}
      PROVE  /\ \A c \in seen : next \subseteq c /\ next # c
             /\ Cardinality(next) + (pages + 1) * PageSize <= Cardinality(index')
  <2>1. Cardinality(page) = PageSize /\ PageSize \in Nat /\ PageSize # 0
    BY <1>9, ReconcileAssumption DEF rest
  <2>2. page # {}
    BY <2>1, FS_EmptySet
  <2>3. ASSUME NEW c \in seen PROVE next \subseteq c /\ next # c
    <3>1. q.cursor # None /\ rest \subseteq c
      BY <1>2
    <3>. QED
      BY <1>4, <2>2, <3>1
  <2>4. pages \in Nat /\ (pages + 1) * PageSize = pages * PageSize + PageSize
        /\ pages * PageSize \in Nat
    BY <2>1 DEF HonestInv, Bookkeeping
  <2>5. Cardinality(next) + PageSize = Cardinality(rest)
    BY <1>5, <2>1
  <2>6. Cardinality(rest) + pages * PageSize <= Cardinality(index')
    <3>1. CASE q.cursor = None
      <4>1. pages * PageSize = 0
        BY <1>2, <2>1, <3>1
      <4>. QED
        BY <1>5, <1>6, <4>1
    <3>2. CASE q.cursor # None
      BY <1>2, <1>5, <1>6, <1>7, <2>4, <3>2
    <3>. QED
      BY <3>1, <3>2
  <2>7. Cardinality(next) \in Nat
    BY <1>5, FS_CardinalityType
  <2>. QED
    BY <1>5, <1>6, <2>1, <2>3, <2>4, <2>5, <2>6, <2>7
<1>10. line.data = page /\ line.next = next
  BY DEF rest
<1> HIDE DEF next
<1>. QED
  BY <1>8, <1>9, <1>10 DEF PageGiven
\* The answer of an honest server to the one request under way.
LEMMA ServeConversation ==
  ASSUME HonestInv, honest, Serve
  PROVE  (Conversation /\ Prospects)'
<1>1. /\ pc \in Waiting /\ requests # <<>> /\ requests \in Seq(Request)
      /\ UNCHANGED <<client, home, supports, rollouts>>
  BY DEF Serve, Up, HonestInv, IInv
<1>2. Conversation /\ Prospects
  BY <1>1 DEF HonestInv
<1> PICK q : q = Head(requests)
  OBVIOUS
<1>3. /\ q \in Request /\ Len(requests) = 1 /\ Tail(requests) = <<>>
      /\ q.id = n /\ Asks(q)
      /\ \A line \in Unread : line.id # n /\ line.id <= n
  <2>1. /\ Len(requests) = 1 /\ requests[1].id = n /\ Asks(requests[1])
        /\ \A line \in Unread : line.id # n
    BY <1>1, <1>2 DEF Conversation
  <2>2. q = requests[1] /\ q \in Request
    BY <1>1
  <2>3. Tail(requests) = <<>>
    <3>1. Tail(requests) \in Seq(Request) /\ Len(Tail(requests)) = 0
      BY <1>1, <2>1
    <3>. QED
      BY <3>1, EmptySeq
  <2>. QED
    BY <1>2, <2>1, <2>2, <2>3 DEF Conversation
<1>4. /\ UNCHANGED <<pc, n, stateOnly, pages, seen, found, reading, already>>
  BY <1>1 DEF client, list, results
<1> DEFINE Told(line) == lines' = Append(lines, line) /\ requests' = <<>>
<1>5. ASSUME NEW line, lines' = Append(lines, line), requests' = <<>>, line.id = n,
             AnswersIt(line)'
      PROVE  Conversation'
  <2>1. Unread' \subseteq Unread \cup {line}
    BY <1>5, WriteUnread DEF HonestInv
  <2>2. n \in Nat
    BY DEF HonestInv, IInv
  <2>. QED
    BY <1>3, <1>4, <1>5, <2>1, <2>2 DEF Conversation
<1>6. index \subseteq index' /\ index' \subseteq index \cup rollouts
  BY DEF Serve
<1>7. Prospects'
  <2>1. index' \cup rollouts = index \cup rollouts
    BY <1>6
  <2>. QED
    BY <1>1, <1>2, <1>4, <2>1 DEF Prospects
<1>8. CASE q.op = "initialize"
  <2>1. pc = "initialize"
    BY <1>1, <1>3, <1>8 DEF Asks, Waiting
  <2>2. /\ lines' = Append(lines, Reply(q.id, "ok", home, {}, {}))
        /\ requests' = Tail(requests)
    BY <1>8 DEF Serve, Answering
  <2> PICK line : line = Reply(q.id, "ok", home, {}, {})
    OBVIOUS
  <2>3. line.id = n /\ line.answer = "ok" /\ line.home = home
    BY <1>3 DEF Reply
  <2>4. AnswersIt(line)'
    BY <1>1, <1>4, <2>1, <2>3 DEF AnswersIt
  <2>. QED
    BY <1>3, <1>5, <1>7, <2>2, <2>3, <2>4
<1>9. CASE q.op = "list"
  <2>1. /\ pc \in {"probe", "verify"} /\ q.stateOnly = stateOnly /\ PageAsked(q.cursor)
    BY <1>1, <1>3, <1>9 DEF Asks, Waiting
  <2>2. CASE q.stateOnly /\ ~supports /\ Answering(Reply(q.id, "unsupported", None, {}, {}))
    <3> PICK line : line = Reply(q.id, "unsupported", None, {}, {})
      OBVIOUS
    <3>1. line.id = n /\ line.answer = "unsupported"
      BY <1>3 DEF Reply
    <3>2. AnswersIt(line)'
      BY <1>1, <1>4, <2>1, <2>2, <3>1 DEF AnswersIt
    <3>. QED
      BY <1>3, <1>5, <1>7, <2>2, <3>1, <3>2 DEF Answering
  <2>3. CASE /\ q.stateOnly => supports
             /\ index' = IF q.stateOnly THEN index ELSE index \cup rollouts
             /\ \E page \in SUBSET Rest(q) :
                  /\ page = Rest(q) \/ Cardinality(page) = PageSize
                  /\ Answering(Reply(q.id, "ok", None, page, Rest(q) \ page))
    <3>1. PICK page \in SUBSET Rest(q) :
                  /\ page = Rest(q) \/ Cardinality(page) = PageSize
                  /\ Answering(Reply(q.id, "ok", None, page, Rest(q) \ page))
      BY <2>3
    <3> PICK line : line = Reply(q.id, "ok", None, page, Rest(q) \ page)
      OBVIOUS
    <3>2. line.id = n /\ line.answer = "ok" /\ line.data = page /\ line.next = Rest(q) \ page
      BY <1>3 DEF Reply
    <3>3. PageGiven(line)'
      BY <1>1, <1>3, <1>4, <1>9, <2>1, <2>3, <3>1, <3>2, PageIsGiven
    <3>4. AnswersIt(line)'
      BY <1>4, <2>1, <3>2, <3>3 DEF AnswersIt
    <3>. QED
      BY <1>3, <1>5, <1>7, <3>1, <3>2, <3>4 DEF Answering
  <2>. QED
    BY <1>9, <2>2, <2>3 DEF Serve
<1>10. CASE q.op = "read"
  <2>1. pc = "read" /\ q.thread = reading
    BY <1>1, <1>3, <1>10 DEF Asks, Waiting
  <2>2. CASE /\ served' = served \cup {q.thread}
             /\ Answering(Blank(q.id))
    <3> PICK line : line = Blank(q.id)
      OBVIOUS
    <3>1. line.id = n /\ line.answer = "ok"
      BY <1>3 DEF Blank, Reply
    <3>2. AnswersIt(line)'
      BY <1>4, <2>1, <2>2, <3>1 DEF AnswersIt
    <3>. QED
      BY <1>3, <1>5, <1>7, <2>2, <3>1, <3>2 DEF Answering
  <2>3. CASE /\ q.thread \notin rollouts
             /\ Answering(Reply(q.id, "error", None, {}, {}))
    <3> PICK line : line = Reply(q.id, "error", None, {}, {})
      OBVIOUS
    <3>1. line.id = n /\ line.answer = "error"
      BY <1>3 DEF Reply
    <3>2. AnswersIt(line)'
      BY <1>1, <1>4, <2>1, <2>3, <3>1 DEF AnswersIt
    <3>. QED
      BY <1>3, <1>5, <1>7, <2>3, <3>1, <3>2 DEF Answering
  <2>. QED
    BY <1>10, <2>2, <2>3 DEF Serve
<1>. QED
  BY <1>3, <1>8, <1>9, <1>10 DEF Request

\* A line that answers nothing.
LEMMA StrayConversation ==
  ASSUME HonestInv, honest, honest', Stray
  PROVE  (Conversation /\ Prospects)'
<1>1. PICK i \in 0..n : lines' = Append(lines, Blank(i)) /\ i # n
  BY DEF Stray
<1>2. /\ pc \in Waiting /\ UNCHANGED <<client, home, supports, rollouts, index, requests, served>>
      /\ n \in Nat
  BY DEF Stray, Up, HonestInv, IInv
<1>3. Conversation /\ Prospects
  BY <1>2 DEF HonestInv
<1> PICK line : line = Blank(i)
  OBVIOUS
<1>4. line.id = i
  BY DEF Blank, Reply
<1>5. Unread' \subseteq Unread \cup {line}
  BY <1>1, WriteUnread DEF HonestInv
<1>6. UNCHANGED <<pc, n, stateOnly, pages, seen, found, reading, already>>
  BY <1>2 DEF client, list, results
<1>7. /\ \A q : Asks(q)' = Asks(q)
      /\ \A l : AnswersIt(l)' = AnswersIt(l)
  BY <1>2, <1>6 DEF Asks, AnswersIt, PageAsked, PageGiven, Known
<1>8. Conversation'
  <2>1. \A l \in Unread' : l.id <= n /\ (l.id = n => l \in Unread)
    BY <1>1, <1>2, <1>3, <1>4, <1>5 DEF Conversation
  <2>. QED
    BY <1>1, <1>2, <1>3, <1>4, <1>5, <1>6, <1>7, <2>1 DEF Conversation
<1>9. Prospects'
  BY <1>2, <1>3, <1>6 DEF Prospects
<1>. QED
  BY <1>8, <1>9
-----------------------------------------------------------------------------
\* What the client may conclude from an answer of such a server.
LEMMA AnswerRead ==
  ASSUME HonestInv, honest, pc \in Waiting, Mine, Read
  PROVE  /\ requests = <<>> /\ AnswersIt(Head(lines)) /\ Prospects
         /\ Head(lines) \in Line
         /\ \A line \in Unread' : line.id <= n
         /\ UNCHANGED <<proc, signalled, late, home, supports, index, rollouts, honest, served>>
         /\ proc = "running" \/ late
<1>1. Conversation /\ Prospects /\ (proc = "running" \/ late)
  BY DEF HonestInv, Bookkeeping
<1>2. Head(lines) \in Unread /\ Head(lines) \in Line /\ Unread' \subseteq Unread
  BY ReadUnread DEF Mine, HonestInv
<1>. QED
  BY <1>1, <1>2 DEF Conversation, Mine, Read, server

\* The next request is the only one under way, and no line is an answer to it; a
\* call that fails finds the child killed by the deadline.
LEMMA CallConversation ==
  ASSUME HonestInv, honest, pc \in Waiting, Mine, Read,
         NEW state, NEW op, NEW only, NEW cursor, NEW thread,
         Call(state, op, only, cursor, thread),
         NEW q, q = [id |-> n + 1, op |-> op, stateOnly |-> only, cursor |-> cursor,
                     thread |-> thread]
  PROVE  \/ /\ pc' = state /\ outcome' = "none"
            /\ Asks(q)' => Conversation'
         \/ pc' = "close" /\ outcome' = "error" /\ late'
<1>1. /\ requests = <<>>
      /\ \A line \in Unread' : line.id <= n
      /\ proc = "running" \/ late
      /\ late' = late
  BY AnswerRead
<1>2. n \in Nat /\ outcome = "none" /\ \A line \in Unread' : line.id \in Nat
  <2>1. n \in Nat /\ outcome = "none"
    BY DEF HonestInv, IInv
  <2>2. Unread' \subseteq Unread
    BY ReadUnread DEF Mine, HonestInv
  <2>. QED
    BY <2>1, <2>2, UnreadAreLines DEF HonestInv
<1>3. CASE proc = "running"
  <2>1. requests' = Append(requests, q) /\ n' = n + 1 /\ pc' = state /\ outcome' = "none"
    BY <1>2, <1>3 DEF Call
  <2>2. Len(requests') = 1 /\ requests'[1] = q
    BY <1>1, <2>1
  <2>3. \A line \in Unread' : line.id # n' /\ line.id <= n'
    BY <1>1, <1>2, <2>1
  <2>4. q.id = n'
    BY <2>1
  <2>. QED
    BY <2>1, <2>2, <2>3, <2>4 DEF Conversation
<1>4. CASE proc # "running"
  BY <1>1, <1>4 DEF Call, Ends
<1>. QED
  BY <1>3, <1>4

\* What a step of the client has to show: it stays in the conversation, or it ends
\* the attempt for a reason.
Progress ==
  /\ honest => repaired \subseteq served
  /\ honest /\ pc \in Waiting => Conversation /\ Prospects
  /\ FailureHasReason

LEMMA Failed ==
  ASSUME pc' \notin Waiting, late', repaired' \subseteq served'
  PROVE  Progress'
BY DEF Progress, FailureHasReason

LEMMA InConversation ==
  ASSUME outcome' = "none", repaired' \subseteq served', Conversation', Prospects'
  PROVE  Progress'
BY DEF Progress, FailureHasReason

\* The first request of a list.
LEMMA ListConversation ==
  ASSUME HonestInv, honest, pc \in Waiting, Mine, Read,
         NEW state \in {"probe", "verify"}, NEW only, stateOnly' = only, List(state, only),
         repaired' \subseteq served', Prospects'
  PROVE  Progress'
<1> PICK q : q = [id |-> n + 1, op |-> "list", stateOnly |-> only, cursor |-> None,
                  thread |-> None]
  OBVIOUS
<1>1. pages' = 0 /\ seen' = {} /\ Call(state, "list", only, None, None)
  BY DEF List
<1>2. \/ /\ pc' = state /\ outcome' = "none"
         /\ Asks(q)' => Conversation'
      \/ pc' = "close" /\ outcome' = "error" /\ late'
  BY <1>1, CallConversation
<1>3. pc' = state => Asks(q)'
  BY <1>1 DEF Asks, PageAsked
<1>. QED
  BY <1>2, <1>3, Failed, InConversation DEF Waiting

LEMMA ContinueConversation ==
  ASSUME HonestInv, honest, pc \in Waiting, Mine, Read, UNCHANGED stateOnly,
         NEW known, NEW left, Continue(known, left), repaired' \subseteq served',
         stateOnly => supports,
         Requested \subseteq index \cup rollouts => Requested \ known \subseteq rollouts
  PROVE  Progress'
<1>1. already' = known /\ UNCHANGED <<supports, index, rollouts>>
  BY AnswerRead DEF Continue
<1>2. Prospects'
  BY <1>1 DEF Prospects
<1>3. CASE List("verify", stateOnly)
  <2> PICK only : only = stateOnly
    OBVIOUS
  <2>. QED
    BY <1>2, <1>3, ListConversation
<1>4. ASSUME NEW t, reading' = t, Call("read", "read", FALSE, None, t) PROVE Progress'
  <2> PICK q : q = [id |-> n + 1, op |-> "read", stateOnly |-> FALSE, cursor |-> None,
                    thread |-> t]
    OBVIOUS
  <2>1. \/ /\ pc' = "read" /\ outcome' = "none"
           /\ Asks(q)' => Conversation'
        \/ pc' = "close" /\ outcome' = "error" /\ late'
    BY <1>4, CallConversation
  <2>2. pc' = "read" => Asks(q)'
    BY <1>4 DEF Asks
  <2>. QED
    BY <1>2, <2>1, <2>2, Failed, InConversation DEF Waiting
<1>. QED
  BY <1>3, <1>4 DEF Continue
\* An answer that is a page, of the list asked for first or of the one that verifies.
LEMMA PageRead ==
  ASSUME HonestInv, honest, Page, Read
  PROVE  /\ PageGiven(Head(lines)) /\ pc \in Waiting /\ Mine /\ repaired \subseteq served
         /\ Head(lines).next \in SUBSET Threads /\ index \subseteq Known
         /\ Head(lines).next = {} => Known \subseteq Listed
<1>1. pc \in {"probe", "verify"} /\ pc \in Waiting /\ Mine /\ Head(lines).answer = "ok"
  BY DEF Page, Waiting
<1>2. AnswersIt(Head(lines)) /\ Head(lines) \in Line
  BY <1>1, AnswerRead
<1>3. PageGiven(Head(lines))
  BY <1>1, <1>2 DEF AnswersIt
<1>4. Head(lines).next \in SUBSET Threads
  BY <1>2 DEF Line, Cursors
<1>. QED
  BY <1>1, <1>3, <1>4 DEF PageGiven, Listed, Known, HonestInv

LEMMA NextPageProgress ==
  ASSUME HonestInv, honest, NextPage
  PROVE  Progress'
<1>1. Page /\ Read /\ ~LastPage /\ found' = Listed /\ UNCHANGED <<stateOnly, reading, results>>
  BY DEF NextPage
<1> PICK next : next = Head(lines).next
  OBVIOUS
<1>2. /\ PageGiven(Head(lines)) /\ pc \in Waiting /\ Mine /\ repaired \subseteq served
      /\ next \in SUBSET Threads
  BY <1>1, PageRead
<1>3. /\ next # {}
      /\ \A c \in seen : next \subseteq c /\ next # c
      /\ Cardinality(next) + (pages + 1) * PageSize <= Cardinality(index)
      /\ Known \subseteq found' \cup next
  BY <1>1, <1>2 DEF LastPage, PageGiven, Listed
<1>4. /\ IsFiniteSet(next) /\ Cardinality(next) \in Nat /\ Cardinality(next) # 0
      /\ Cardinality(index) \in Nat
  <2>1. IsFiniteSet(next) /\ IsFiniteSet(index)
    BY <1>2, ReconcileAssumption, FS_Subset DEF HonestInv, IInv
  <2>. QED
    BY <1>3, <2>1, FS_CardinalityType, FS_EmptySet
<1>5. /\ UNCHANGED <<late, home, supports, index, rollouts, honest, served, repaired, already>>
      /\ Prospects
  BY <1>1, <1>2, AnswerRead DEF results
<1>6. ~Repeated(next)
  BY <1>3 DEF Repeated
<1>7. CASE pages + 1 = MaxPages
  <2>1. Cardinality(index) > MaxPages * PageSize
    <3>1. MaxPages * PageSize \in Nat
      BY ReconcileAssumption
    <3>. QED
      BY <1>3, <1>4, <1>7, <3>1
  <2>2. pc' = "close"
    BY <1>7 DEF NextPage, Ends
  <2>. QED
    BY <1>2, <1>5, <2>1, <2>2 DEF Progress, FailureHasReason, Waiting
<1>8. CASE pages + 1 # MaxPages
  <2>1. /\ seen' = seen \cup {next} /\ pages' = pages + 1
        /\ Call(pc, "list", stateOnly, next, None)
    BY <1>6, <1>8 DEF NextPage
  <2> PICK state, only : state = pc /\ only = stateOnly
    OBVIOUS
  <2> PICK q : q = [id |-> n + 1, op |-> "list", stateOnly |-> only, cursor |-> next,
                    thread |-> None]
    OBVIOUS
  <2>2. Call(state, "list", only, next, None)
    BY <2>1
  <2>3. \/ /\ pc' = state /\ outcome' = "none"
           /\ Asks(q)' => Conversation'
        \/ pc' = "close" /\ outcome' = "error" /\ late'
    BY <1>1, <1>2, <2>2, CallConversation
  <2>4. PageAsked(next)'
    <3>1. next # None
      BY <1>2, ReconcileAssumption
    <3>2. Known' = Known
      BY <1>1, <1>5 DEF Known
    <3>3. Cardinality(next) + pages' * PageSize <= Cardinality(index')
      BY <1>3, <1>5, <2>1
    <3>. QED
      BY <1>3, <2>1, <3>1, <3>2, <3>3 DEF PageAsked
  <2>5. pc' = state => Asks(q)'
    BY <1>1, <2>4 DEF Asks, Page
  <2>6. pc' = state => Prospects'
    BY <1>1, <1>5 DEF Prospects
  <2>. QED
    BY <1>2, <1>5, <2>3, <2>5, <2>6, Failed, InConversation DEF Waiting
<1>. QED
  BY <1>7, <1>8

LEMMA ClientProgress ==
  ASSUME HonestInv, honest, ClientStep
  PROVE  Progress'
<1>1. repaired \subseteq served
  BY DEF HonestInv
<1>2. CASE Start
  <2>1. lines = <<>> /\ outcome = "none" /\ stateOnly = TRUE
    BY <1>2 DEF Start, HonestInv, Bookkeeping, IInv
  <2> PICK q : q = [id |-> 1, op |-> "initialize", stateOnly |-> FALSE,
                    cursor |-> None, thread |-> None]
    OBVIOUS
  <2>2. CASE pc' = "initialize" /\ n' = 1 /\ requests' = <<q>> /\ outcome' = "none"
    <3>1. Len(requests') = 1 /\ requests'[1] = q /\ q.id = n'
      BY <2>2
    <3>2. Unread' = {}
      BY <1>2, <2>1 DEF Start, Unread
    <3>3. Asks(q)'
      BY <2>2 DEF Asks
    <3>4. Conversation'
      BY <3>1, <3>2, <3>3 DEF Conversation
    <3>5. Prospects' /\ repaired' \subseteq served'
      BY <1>1, <1>2, <2>2 DEF Prospects, Start, results
    <3>. QED
      BY <2>2, <3>4, <3>5, InConversation
  <2>3. CASE pc' = "returned" /\ proc' = "none"
    BY <1>1, <1>2, <2>3 DEF Start, Progress, FailureHasReason, Waiting, results
  <2>4. proc = "none"
    BY <1>2 DEF Start, HonestInv, Bookkeeping
  <2>. QED
    BY <1>2, <2>1, <2>2, <2>3, <2>4 DEF Start
<1>3. CASE SkipLine
  <2>1. /\ pc \in Waiting /\ Conversation /\ Prospects /\ outcome = "none"
    BY <1>3 DEF SkipLine, HonestInv, IInv
  <2>2. /\ Unread' \subseteq Unread
        /\ UNCHANGED <<client, server, requests>>
    BY <1>3, ReadUnread DEF SkipLine, Read, HonestInv
  <2>3. UNCHANGED <<pc, n, stateOnly, pages, seen, found, reading, already, repaired, outcome,
                    home, supports, index, rollouts, served>>
    BY <2>2 DEF client, server, list, results
  <2>4. /\ \A q : Asks(q)' = Asks(q)
        /\ \A l : AnswersIt(l)' = AnswersIt(l)
    BY <2>3 DEF Asks, AnswersIt, PageAsked, PageGiven, Known
  <2>5. Conversation'
    BY <2>1, <2>2, <2>3, <2>4 DEF Conversation
  <2>6. Prospects'
    BY <2>1, <2>3 DEF Prospects
  <2>. QED
    BY <1>1, <2>1, <2>3, <2>5, <2>6, InConversation
<1>4. CASE EndOfOutput
  <2>1. late /\ pc' = "close" /\ late' = late /\ UNCHANGED <<repaired, served>>
    BY <1>4 DEF EndOfOutput, HonestInv, Bookkeeping, Ends, results, server
  <2>. QED
    BY <1>1, <2>1, Failed DEF Waiting
<1>5. CASE Initialized
  <2>1. /\ pc \in Waiting /\ pc = "initialize" /\ Mine /\ Read /\ stateOnly = TRUE
        /\ UNCHANGED <<stateOnly, repaired>>
    BY <1>5 DEF Initialized, Waiting, results, HonestInv, Bookkeeping
  <2>2. /\ AnswersIt(Head(lines))
        /\ UNCHANGED <<proc, late, home, supports, index, rollouts, honest, served>>
    BY <2>1, AnswerRead
  <2>3. Head(lines).home = home
    BY <2>1, <2>2 DEF AnswersIt
  <2>4. CASE RightHome(Head(lines))
    <3>1. List("probe", TRUE) /\ stateOnly' = TRUE
      BY <1>5, <2>1, <2>4 DEF Initialized
    <3>2. pc' \in {"probe", "close"}
      BY <3>1 DEF List, Call, Ends
    <3>3. Prospects'
      BY <3>2 DEF Prospects
    <3>. QED
      BY <1>1, <2>1, <2>2, <3>1, <3>3, ListConversation
  <2>5. CASE ~RightHome(Head(lines))
    <3>1. pc' = "close" /\ home' # Wanted
      BY <1>5, <2>2, <2>3, <2>5 DEF Initialized, Ends, RightHome
    <3>. QED
      BY <1>1, <2>1, <2>2, <3>1 DEF Progress, FailureHasReason, Waiting
  <2>. QED
    BY <2>4, <2>5
<1>6. CASE Unsupported
  <2>1. /\ pc \in Waiting /\ Mine /\ Read /\ List("probe", FALSE) /\ stateOnly' = FALSE
        /\ UNCHANGED repaired
    BY <1>6 DEF Unsupported, Waiting, results
  <2>2. UNCHANGED served
    BY <2>1, AnswerRead
  <2>3. pc' \in {"probe", "close"}
    BY <2>1 DEF List, Call, Ends
  <2>4. Prospects'
    BY <2>3 DEF Prospects
  <2>. QED
    BY <1>1, <2>1, <2>2, <2>4, ListConversation
<1>7. CASE Refused
  <2>1. /\ pc \in Waiting /\ Mine /\ Read /\ pc' = "close" /\ UNCHANGED repaired
        /\ \/ Head(lines).answer = "error"
           \/ Head(lines).answer = "unsupported" /\ ~(pc = "probe" /\ stateOnly)
    BY <1>7 DEF Refused, Ends, results
  <2>2. /\ AnswersIt(Head(lines)) /\ Prospects
        /\ UNCHANGED <<proc, late, home, supports, index, rollouts, honest, served>>
    BY <2>1, AnswerRead
  <2>3. pc = "read" /\ reading \notin rollouts
    BY <2>1, <2>2 DEF AnswersIt, Prospects, Waiting
  <2>4. reading \in Requested \ already
    BY <2>3 DEF HonestInv, Bookkeeping
  <2>5. ~(Requested \subseteq index \cup rollouts)
    BY <2>2, <2>3, <2>4 DEF Prospects
  <2>. QED
    BY <1>1, <2>1, <2>2, <2>5 DEF Progress, FailureHasReason, Waiting
<1>8. CASE NextPage
  BY <1>8, NextPageProgress
<1>9. CASE Probed
  <2>1. /\ Page /\ Read /\ Head(lines).next = {} /\ UNCHANGED <<stateOnly, repaired>>
        /\ Continue(Requested \cap Listed, Requested \ Listed)
    BY <1>9 DEF Probed, LastPage
  <2>2. /\ PageGiven(Head(lines)) /\ pc \in Waiting /\ Mine
        /\ index \subseteq Known /\ Known \subseteq Listed
    BY <2>1, PageRead
  <2>3. stateOnly => supports
    BY <2>2 DEF PageGiven
  <2> PICK known, left : known = Requested \cap Listed /\ left = Requested \ Listed
    OBVIOUS
  <2>4. Requested \subseteq index \cup rollouts => Requested \ known \subseteq rollouts
    BY <2>2
  <2>5. Continue(known, left)
    BY <2>1
  <2>6. UNCHANGED served
    BY <2>1, <2>2, AnswerRead
  <2>. QED
    BY <1>1, <2>1, <2>2, <2>3, <2>4, <2>5, <2>6, ContinueConversation
<1>10. CASE ReadThread
  <2>1. /\ pc = "read" /\ pc \in Waiting /\ Mine /\ Head(lines).answer = "ok" /\ Read
        /\ repaired' = repaired \cup {reading} /\ UNCHANGED stateOnly
        /\ Continue(already, Requested \ (already \cup repaired'))
    BY <1>10 DEF ReadThread, Waiting
  <2>2. AnswersIt(Head(lines)) /\ Prospects /\ UNCHANGED served
    BY <2>1, AnswerRead
  <2>3. repaired' \subseteq served'
    BY <1>1, <2>1, <2>2 DEF AnswersIt
  <2> PICK known, left : known = already /\ left = Requested \ (already \cup repaired')
    OBVIOUS
  <2>4. Continue(known, left)
    BY <2>1
  <2>5. /\ stateOnly => supports
        /\ Requested \subseteq index \cup rollouts => Requested \ known \subseteq rollouts
    BY <2>1, <2>2 DEF Prospects
  <2>. QED
    BY <2>1, <2>3, <2>4, <2>5, ContinueConversation
<1>11. CASE Verified
  <2>1. /\ pc = "verify" /\ Page /\ Read /\ Head(lines).next = {} /\ pc' = "close"
        /\ UNCHANGED repaired
        /\ outcome' = IF Requested \subseteq Listed THEN "ok" ELSE "missing"
    BY <1>11 DEF Verified, LastPage, Ends
  <2>2. pc \in Waiting /\ Mine /\ index \subseteq Known /\ Known \subseteq Listed
    BY <2>1, PageRead
  <2>3. Requested \subseteq already \cup repaired /\ already \subseteq index /\ served \subseteq index
    BY <2>1 DEF HonestInv, Bookkeeping, IInv
  <2>4. outcome' = "ok"
    BY <1>1, <2>1, <2>2, <2>3
  <2>5. UNCHANGED served
    BY <2>1, <2>2, AnswerRead
  <2>. QED
    BY <1>1, <2>1, <2>4, <2>5 DEF Progress, FailureHasReason, Waiting
<1>12. CASE CloseInput \/ GraceOver \/ Return
  <2>1. /\ pc' \in {"grace", "killed", "returned"}
        /\ UNCHANGED <<repaired, outcome, proc, late, home, index, rollouts, honest, served>>
    BY <1>12 DEF CloseInput, GraceOver, Return, results, server
  <2>2. FailureHasReason'
    BY <2>1 DEF HonestInv, FailureHasReason
  <2>. QED
    BY <1>1, <2>1, <2>2 DEF Progress, Waiting
<1>. QED
  BY <1>2, <1>3, <1>4, <1>5, <1>6, <1>7, <1>8, <1>9, <1>10, <1>11, <1>12 DEF ClientStep

\* Time and the child's end leave the conversation as it is.
LEMMA EnvironmentProgress ==
  ASSUME HonestInv, honest, honest', Deadline \/ Dies \/ Exits \/ UNCHANGED vars
  PROVE  Progress'
<1>1. /\ UNCHANGED <<client, home, supports, index, rollouts, served, requests, lines>>
      /\ late => late'
      /\ proc = "none" => proc' = "none"
  <2>1. CASE Deadline
    BY <2>1 DEF Deadline
  <2>2. CASE Dies
    BY <2>2 DEF Dies
  <2>3. CASE Exits
    BY <2>3 DEF Exits
  <2>4. CASE UNCHANGED vars
    BY <2>4 DEF vars, server
  <2>. QED
    BY <2>1, <2>2, <2>3, <2>4
<1>2. UNCHANGED <<pc, n, stateOnly, pages, seen, found, reading, already, repaired, outcome>>
  BY <1>1 DEF client, list, results
<1>3. /\ \A q : Asks(q)' = Asks(q)
      /\ \A l : AnswersIt(l)' = AnswersIt(l)
      /\ Unread' = Unread
  BY <1>1, <1>2 DEF Asks, AnswersIt, PageAsked, PageGiven, Known, Unread
<1>4. pc \in Waiting => Conversation' /\ Prospects'
  BY <1>1, <1>2, <1>3 DEF HonestInv, Conversation, Prospects
<1>5. FailureHasReason'
  BY <1>1, <1>2 DEF HonestInv, FailureHasReason
<1>. QED
  BY <1>1, <1>2, <1>4, <1>5 DEF Progress, HonestInv

LEMMA HonestInit == ReconcileInit => HonestInv
BY TruthInit, BookInit DEF ReconcileInit, HonestInv, FailureHasReason, Waiting

\* Every step keeps it; a server that breaks the protocol stays out of it for good.
LEMMA HonestNext == HonestInv /\ [ReconcileNext]_vars => HonestInv'
<1> SUFFICES ASSUME HonestInv, [ReconcileNext]_vars PROVE HonestInv'
  OBVIOUS
<1>1. IInv' /\ Bookkeeping'
  BY TruthNext, BookNext DEF HonestInv
<1>2. ~honest' => Progress'
  BY DEF Progress, FailureHasReason
<1>3. honest' => honest
  <2>1. CASE Stray
    <3>1. PICK i \in 0..n : honest' = (honest /\ i # n)
      BY <2>1 DEF Stray
    <3>. QED
      BY <3>1
  <2>2. CASE Exits
    BY <2>2 DEF Exits
  <2>3. CASE ~Stray /\ ~Exits
    <3>1. honest' = honest \/ honest' = FALSE
      BY <2>3 DEF ReconcileNext, ClientStep, Start, SkipLine, EndOfOutput, Initialized,
         Unsupported, Refused, NextPage, Probed, ReadThread, Verified, CloseInput, GraceOver,
         Return, Deadline, Dies, Serve, ServeBadly, Read, server, vars
    <3>2. honest \in BOOLEAN
      BY DEF HonestInv, Bookkeeping
    <3>3. CASE honest' = honest
      BY <3>2, <3>3
    <3>4. CASE honest' = FALSE
      BY <3>4
    <3>. QED
      BY <3>1, <3>3, <3>4
  <2>. QED
    BY <2>1, <2>2, <2>3
<1>4. ASSUME honest, honest' PROVE Progress'
  <2>1. CASE ClientStep
    BY <1>4, <2>1, ClientProgress
  <2>2. CASE Deadline \/ Dies \/ Exits \/ UNCHANGED vars
    BY <1>4, <2>2, EnvironmentProgress
  <2>3. CASE Serve \/ Stray
    <3>1. Conversation' /\ Prospects'
      BY <1>4, <2>3, ServeConversation, StrayConversation
    <3>2. /\ outcome = "none" /\ UNCHANGED client /\ served \subseteq served'
      BY <2>3 DEF Serve, Stray, Up, HonestInv, IInv
    <3>3. outcome' = "none" /\ repaired' \subseteq served'
      BY <1>4, <3>2 DEF client, results, HonestInv
    <3>. QED
      BY <3>1, <3>3, InConversation
  <2>4. CASE ServeBadly
    BY <1>4, <2>4 DEF ServeBadly
  <2>. QED
    BY <2>1, <2>2, <2>3, <2>4 DEF ReconcileNext
<1>5. Progress'
  BY <1>2, <1>3, <1>4
<1>. QED
  BY <1>1, <1>5 DEF Progress, HonestInv

\* The invariant of the conversation, from which the theorems below follow.
THEOREM ReconcileInvariance == ReconcileSpec => []HonestInv
BY HonestInit, HonestNext, PTL DEF ReconcileSpec

\* A thread that Reconcile reports as repaired has been read by Codex, whatever a
\* server that keeps to the protocol prints besides its answers.
THEOREM RepairsAreReal == ReconcileSpec => []RepairedWereRead
<1>1. HonestInv => RepairedWereRead
  BY DEF HonestInv, RepairedWereRead
<1> QED
  BY <1>1, ReconcileInvariance, PTL

\* With a server that keeps to the protocol an attempt fails only because of the
\* deadline, another home, a list beyond the page limit or a thread that is not there:
\* the pages of a list, however it is cut, name every thread and repeat no cursor.
THEOREM FailuresAreJustified == ReconcileSpec => []FailureHasReason
<1>1. HonestInv => FailureHasReason
  BY DEF HonestInv
<1> QED
  BY <1>1, ReconcileInvariance, PTL
=============================================================================
