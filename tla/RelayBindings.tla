---------------------------- MODULE RelayBindings ----------------------------
(***************************************************************************)
(* The project bindings of the relay server (src/internal/relay/           *)
(* bindings.go): which project of one device is the counterpart of which   *)
(* project of another.  They live in the same state.json as the job table, *)
(* and a binding can be made of a finished preview of that table.          *)
(*                                                                         *)
(* The paths of projects come with the heartbeats of their devices and     *)
(* with snapshots and plans, so an endpoint can name any path at any time: *)
(* endpoints are inputs.                                                   *)
(***************************************************************************)
EXTENDS RelayJobs, FiniteSets

CONSTANTS
  Projects,      \* project keys
  Paths,         \* directories projects can be in
  BindingIds,
  MaxBindings    \* 1000 in the code

ASSUME BindingsAssumption == MaxBindings \in Nat

VARIABLES
  bindings,        \* the bindings in memory
  savedBindings    \* the bindings in state.json

vars == <<jobVars, bindings, savedBindings>>

Endpoint == [device : Devices, project : Projects, path : Paths]
Binding == [id : BindingIds, a : Endpoint, b : Endpoint]

BindingsInit ==
  /\ JobsInit
  /\ bindings = {} /\ savedBindings = {}

SameEndpoint(x, y) == x.device = y.device /\ x.project = y.project

\* The same two projects, in either order.
SamePair(old, a, b) ==
  \/ SameEndpoint(old.a, a) /\ SameEndpoint(old.b, b)
  \/ SameEndpoint(old.a, b) /\ SameEndpoint(old.b, a)

SamePaths(old, a, b) ==
  \/ SameEndpoint(old.a, a) /\ old.a.path = a.path /\ old.b.path = b.path
  \/ SameEndpoint(old.a, b) /\ old.a.path = b.path /\ old.b.path = a.path

Ends(x) == {<<x.a, x.b>>, <<x.b, x.a>>}

\* Slip: only the end the request names first is looked at.
TakenOneWay(old, a, b) == SameEndpoint(old.a, a) /\ old.b.device = b.device

\* One of the projects has a counterpart on the device of the other.
Taken(old, a, b) ==
  \E ends \in Ends(old) :
    \/ SameEndpoint(ends[1], a) /\ ends[2].device = b.device
    \/ SameEndpoint(ends[1], b) /\ ends[2].device = a.device

\* What one turn of the loop of bindLocked says of an old binding.  Swapping a
\* and b there only ever leads to its return.
Verdict(old, a, b) ==
  CASE SamePair(old, a, b) /\ SamePaths(old, a, b) -> "kept"
    [] SamePair(old, a, b) /\ ~SamePaths(old, a, b) -> "moved"
    [] ~SamePair(old, a, b) /\ Taken(old, a, b) -> "taken"
    [] OTHER -> "unrelated"

Deciding(a, b) == {old \in bindings : Verdict(old, a, b) # "unrelated"}

\* The answers bindLocked may give: the first binding that decides, in whatever
\* order the map is gone through, or a new one.
Answers(a, b) ==
  IF Deciding(a, b) = {}
  THEN IF Cardinality(bindings) >= MaxBindings THEN {"full"} ELSE {"new"}
  ELSE {Verdict(old, a, b) : old \in Deciding(a, b)}

\* save() writes the bindings with the jobs, or neither.
SaveBindings == savedBindings' = IF faults' = faults THEN bindings' ELSE savedBindings

\* Slip: a binding that could not be written stays in memory.
BindUnsaved(i, a, b) ==
  /\ a.device # b.device
  /\ \A old \in bindings : old.id # i
  /\ "new" \in Answers(a, b)
  /\ UNCHANGED jobs /\ Save
  /\ bindings' = bindings \cup {[id |-> i, a |-> a, b |-> b]}
  /\ SaveBindings

\* bindLocked: a new binding is taken back when it cannot be written; every
\* other answer changes nothing.
Bind(i, a, b) ==
  /\ a.device # b.device
  /\ \A old \in bindings : old.id # i
  /\ "new" \in Answers(a, b)
  /\ UNCHANGED jobs /\ Save
  /\ bindings' = IF faults' = faults
                   THEN bindings \cup {[id |-> i, a |-> a, b |-> b]} ELSE bindings
  /\ SaveBindings

\* Of two projects in the lists of their devices.
BindProjects(i, a, b) == Bind(i, a, b)

\* Of the source of a snapshot and the target of an applicable preview of it.
BindPreview(i, j, a, b) ==
  /\ jobs[j].kind = "preview" /\ jobs[j].status = "done" /\ jobs[j].canApply
  /\ b.device = jobs[j].device /\ Bind(i, a, b)

\* A binding whose removal cannot be written stays.
Unbind(old) ==
  /\ old \in bindings
  /\ UNCHANGED jobs /\ Save
  /\ bindings' = IF faults' = faults THEN bindings \ {old} ELSE bindings
  /\ SaveBindings

\* The handlers of the job table leave the bindings alone but write them too.
JobStep ==
  /\ AdminStep \/ DeviceStep
  /\ UNCHANGED bindings /\ SaveBindings

BindingsRestart ==
  /\ Restart
  /\ bindings' = savedBindings /\ UNCHANGED savedBindings

BindingsNext ==
  \/ \E i \in BindingIds, a, b \in Endpoint :
       BindProjects(i, a, b) \/ \E j \in Jobs : BindPreview(i, j, a, b)
  \/ \E old \in bindings : Unbind(old)
  \/ JobStep
  \/ BindingsRestart

BindingsSpec == BindingsInit /\ [][BindingsNext]_vars

-----------------------------------------------------------------------------
\* Every binding joins projects of two devices; ids are not used twice; the
\* table stays within its bound.
BindingsTypeOK ==
  /\ bindings \subseteq Binding
  /\ \A x \in bindings : x.a.device # x.b.device
  /\ \A x, y \in bindings : x.id = y.id => x = y
  /\ Cardinality(bindings) <= MaxBindings

\* bindLocked: one counterpart per project on each other device, whichever end
\* of a binding was named first and whichever request made it.
OneCounterpart ==
  \A x, y \in bindings : \A e \in Ends(x), g \in Ends(y) :
    SameEndpoint(e[1], g[1]) /\ e[2].device = g[2].device => x = y

\* The answer to a request to bind does not depend on the order in which the
\* unordered table is gone through, nor on which project is named first.
AnswerIsDetermined ==
  \A a, b \in Endpoint :
    a.device # b.device =>
      LET answers == Answers(a, b)
      IN answers = Answers(b, a) /\ \A v, w \in answers : v = w

\* A request to bind or unbind is all or nothing: unlike a job, a binding is in
\* memory exactly when a restart of the server will find it again.
BindingsAreDurable == bindings = savedBindings
=============================================================================
