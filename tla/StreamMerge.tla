----------------------------- MODULE StreamMerge -----------------------------
(***************************************************************************)
(* How a session of a snapshot is merged into the local one: mergeStreams  *)
(* of src/internal/bundle/stream.go reads one record of each at a time,    *)
(* keeps the local bytes of what both have and appends what only the       *)
(* incoming session has.                                                   *)
(***************************************************************************)
EXTENDS SessionFiles

VARIABLES
  incoming, local,   \* the two files
  pos,               \* records of local that have been read
  out,               \* what has been written
  added,             \* records appended
  answer             \* the action, once decided

mergeVars == <<incoming, local, pos, out, added, answer>>

\* No merge is going on.
MergeIdle ==
  /\ incoming = <<>> /\ local = <<>>
  /\ pos = 0 /\ out = <<>> /\ added = 0
  /\ answer = "none"

MergeStarts(x, y) ==
  /\ incoming' = x /\ local' = y
  /\ pos' = 0 /\ out' = <<>> /\ added' = 0
  /\ answer' = "none"

Decide(action) == answer' = action /\ UNCHANGED <<incoming, local, pos, out, added>>

\* Both have a record, and it is the same one: its local bytes are kept.
Shared ==
  /\ answer = "none" /\ pos < Len(incoming) /\ pos < Len(local)
  /\ SameRecord(incoming[pos + 1], local[pos + 1])
  /\ out' = Append(out, local[pos + 1]) /\ pos' = pos + 1
  /\ UNCHANGED <<incoming, local, added, answer>>

\* Slip: texts are compared, so another serialization is another record.
DivergesTextually ==
  /\ answer = "none" /\ pos < Len(incoming) /\ pos < Len(local)
  /\ incoming[pos + 1].text # local[pos + 1].text
  /\ Decide("conflict")

Diverges ==
  /\ answer = "none" /\ pos < Len(incoming) /\ pos < Len(local)
  /\ ~SameRecord(incoming[pos + 1], local[pos + 1])
  /\ Decide("conflict")

\* The incoming session has nothing more.
IncomingEnds ==
  /\ answer = "none" /\ pos = Len(incoming)
  /\ Decide(IF pos = Len(local) THEN "skip-identical" ELSE "skip-ahead")

\* Slip: the record read before the local session was seen to end is lost.
LocalEndsDropsOne ==
  /\ answer = "none" /\ pos = Len(local) /\ pos + added < Len(incoming)
  /\ out' = IF added = 0 THEN Terminate(out)
            ELSE Append(Terminate(out), incoming[pos + added + 1])
  /\ added' = added + 1
  /\ answer' = IF pos + added' = Len(incoming) THEN "update" ELSE "none"
  /\ UNCHANGED <<incoming, local, pos>>

\* The local session has ended: the rest of the incoming one is appended.
LocalEnds ==
  /\ answer = "none" /\ pos = Len(local) /\ pos + added < Len(incoming)
  /\ out' = Append(Terminate(out), incoming[pos + added + 1])
  /\ added' = added + 1
  /\ answer' = IF pos + added' = Len(incoming) THEN "update" ELSE "none"
  /\ UNCHANGED <<incoming, local, pos>>

\* A record is too long, or the limitWriter refuses what is to be written.
TooLarge == answer = "none" /\ pos < Len(incoming) /\ Decide("error")

MergeNext == Shared \/ Diverges \/ IncomingEnds \/ LocalEnds \/ TooLarge

-----------------------------------------------------------------------------
\* The decision reached record by record, with one of each side in memory, is
\* that of the two sequences of records as wholes.
DecidesByRecords == answer \notin {"none", "error"} => answer = Reference(incoming, local)

\* mergeStreams "retains LOCAL bytes for every shared semantic record and appends
\* only the incoming suffix": nothing local is rewritten but a missing
\* terminator.
LocalBytesKept ==
  answer = "update" =>
    /\ Len(local) < Len(out)
    /\ \A i \in 1..Len(local) : out[i] = Terminated(local[i])
    /\ \A i \in (Len(local) + 1)..Len(out) : out[i] = incoming[i]

\* The streaming planner and the one on whole files take the same decision,
\* except where a file breaks off before the end of a line.  Within a record:
\* by bytes the other file extends it, by records that is a conflict.  Before a
\* terminator, or blanks: planMerge updates a local file to add what the canonical
\* form leaves out, mergeStreams leaves it.
Completes == local # incoming /\ BytePrefix(local, incoming) /\ answer = "skip-identical"

AgreesWithPlanMerge ==
  answer \notin {"none", "error"} =>
    PlanMerge(incoming, local) =
      IF Torn(local, incoming) \/ Completes THEN "update"
      ELSE IF Torn(incoming, local) \/ answer = "skip-identical" THEN "skip-ahead"
      ELSE answer
=============================================================================
