---------------------------- MODULE SessionExport ----------------------------
(***************************************************************************)
(* A source device exports the sessions of one project while its agent may *)
(* come back to life: Engine.Export of internal/relay/archive.go and, for  *)
(* the sessions and the memory, bundle.Export.                             *)
(*                                                                         *)
(* Export looks for a running agent once.  Then it stamps the agent's      *)
(* directories, scans them for sessions of the project, copies what it     *)
(* found, hashes the files that go with a Claude session, packs those,     *)
(* stamps the directories again, and checks the archive it has written.    *)
(* Each pass over a directory lists it first and visits one file after the *)
(* other; the agent may write, create, move and remove files in between.   *)
(***************************************************************************)
EXTENDS SessionFiles, FiniteSets

CONSTANTS
  Names,        \* the files a home may have, numbered as a walk meets them
  KindOf,       \* what each of them is
  ParentOf,     \* the transcript a child or a result goes with
  OwnFolder,    \* those in the folder that has the project's name, as it is spelled
  Homes,        \* for each tool, the homes an export may begin with
  Fresh,        \* what a file may hold when the agent has created it
  Grows(_),     \* what a write may turn the content of a file into
  MaxWrites     \* bound on the agent's steps during an export

Kinds == {"rollout", "packed", "transcript", "child", "note", "result"}

\* Rollouts (packed: compressed ones) are Codex's; the rest is Claude's:
\* transcripts, those of subagents, memory files and results of tools.
ToolOf(kind) == IF kind \in {"rollout", "packed"} THEN "codex" ELSE "claude"

ASSUME ExportAssumption ==
  /\ Names \subseteq Nat /\ IsFiniteSet(Names)
  /\ KindOf \in [Names -> Kinds]
  /\ ParentOf \in [Names -> Names]
  /\ \A n \in Names :
       KindOf[n] \in {"child", "result"} =>
         /\ KindOf[ParentOf[n]] = "transcript"
         /\ n \in OwnFolder <=> ParentOf[n] \in OwnFolder
  /\ \A agent \in {"codex", "claude"} : \A home \in Homes[agent], n \in Names :
       /\ home[n].at \in {"none", "sessions"} \cup (IF agent = "codex" THEN {"archived"} ELSE {})
       /\ home[n].at # "none" => ToolOf(KindOf[n]) = agent
       /\ home[n].data \in Files
  /\ \A n \in Names : Fresh[n] \subseteq Files
  /\ \A data \in Files : Grows(data) \subseteq Files
  /\ MaxWrites \in Nat

VARIABLES
  tool,         \* the agent whose sessions are exported
  tree,         \* its home: where a file is, what it holds, its time of change
  writes,       \* steps the agent has taken
  running,      \* whether the agent runs
  step,         \* how far the export has come
  dir,          \* the directory a pass is in
  todo,         \* the files it has listed and not visited
  listed,       \* whether it has listed them
  stamps,       \* the two stamps, before and after
  found,        \* the sessions scanned: where they were and their directory
  noted,        \* the memory files listed, and their sizes
  sums,         \* the hashes of results
  archive,      \* what has been copied: where it was and what it held
  moment,       \* the home as the second stamp began (history)
  strayed       \* files that were moved or removed meanwhile (history)

sourceVars == <<tool, tree, writes, running>>
passVars == <<dir, todo, listed>>
exportVars == <<tool, tree, writes, running, step, dir, todo, listed, stamps,
                found, noted, sums, archive, moment, strayed>>

Places == {"sessions", "archived"}
Sessions == {n \in Names : KindOf[n] \in {"rollout", "packed", "transcript", "child"}}
InTool(n) == ToolOf(KindOf[n]) = tool

ExportInit ==
  /\ tool \in {"codex", "claude"}
  /\ tree \in {[n \in Names |-> [at |-> home[n].at, data |-> home[n].data, mark |-> 0]] :
                 home \in Homes[tool]}
  /\ writes = 0 /\ running \in BOOLEAN
  /\ step = "idle" /\ dir = "sessions" /\ todo = {} /\ listed = FALSE
  /\ stamps = [before |-> {}, after |-> {}]
  /\ found = NoFiles /\ noted = NoFiles /\ sums = NoFiles /\ archive = NoFiles
  /\ moment = tree /\ strayed = {}

-----------------------------------------------------------------------------
(* The agent, which does not know of the export. *)

Exporting == step \notin {"idle", "published", "failed"}

AgentStarts ==
  /\ Exporting /\ ~running /\ running' = TRUE
  /\ UNCHANGED <<tool, tree, writes, step, passVars, stamps, found, noted, sums, archive, moment, strayed>>

AgentTakes(n, file, away) ==
  /\ Exporting /\ running /\ writes < MaxWrites
  /\ InTool(n)
  /\ tree' = [tree EXCEPT ![n] = file] /\ writes' = writes + 1
  /\ strayed' = IF away THEN strayed \cup {n} ELSE strayed
  /\ UNCHANGED <<tool, running, step, passVars, stamps, found, noted, sums, archive, moment>>

\* A session grows, a memory file is rewritten.
AgentWrites(n) ==
  /\ tree[n].at # "none"
  /\ \E d \in Grows(tree[n].data) :
       AgentTakes(n, [at |-> tree[n].at, data |-> d, mark |-> writes + 1], FALSE)

AgentCreates(n) ==
  /\ tree[n].at = "none"
  /\ \E d \in Fresh[n] :
       AgentTakes(n, [at |-> "sessions", data |-> d, mark |-> writes + 1], FALSE)

AgentRemoves(n) ==
  /\ tree[n].at # "none"
  /\ AgentTakes(n, [tree[n] EXCEPT !.at = "none"], TRUE)

\* Codex archives a session, or takes it back: a rename, which keeps its time.
AgentMoves(n) ==
  /\ tree[n].at # "none" /\ tool = "codex"
  /\ AgentTakes(n, [tree[n] EXCEPT !.at = IF @ = "sessions" THEN "archived" ELSE "sessions"], TRUE)

-----------------------------------------------------------------------------
(* Passes over a directory. *)

\* guard() looks for the agent; Export of a project with nothing else to stop it.
ExportStarts ==
  /\ step = "idle" /\ ~running
  /\ step' = "before"
  /\ UNCHANGED <<sourceVars, passVars, stamps, found, noted, sums, archive, moment, strayed>>

\* Any input, output or limit may end an export; what was written is removed.
ExportFails ==
  /\ Exporting
  /\ step' = "failed" /\ todo' = {}
  /\ UNCHANGED <<sourceVars, dir, listed, stamps, found, noted, sums, archive, moment, strayed>>

\* What goes with an exported transcript is looked for only in the project's own
\* folder: nobody looks next to a transcript that is in another.
GoesWith(n) ==
  KindOf[n] \in {"child", "result"} /\ ParentOf[n] \in DOMAIN archive /\ n \in OwnFolder

\* Slip: the stamps leave out what is not a session.
LooksForSessions(n) ==
  CASE step \in {"before", "scan", "after"} -> n \in Sessions
    [] step = "memory" -> KindOf[n] = "note"
    [] step = "extras" -> GoesWith(n)
    [] OTHER -> TRUE

\* The files a pass is interested in.
Looks(n) ==
  CASE step = "scan" -> n \in Sessions
    [] step = "memory" -> KindOf[n] = "note"
    [] step = "extras" -> GoesWith(n)
    [] OTHER -> TRUE

Passing == step \in {"before", "scan", "memory", "extras", "after"}

List ==
  /\ Passing /\ ~listed
  /\ listed' = TRUE
  /\ todo' = {n \in Names : tree[n].at = dir /\ Looks(n)}
  /\ moment' = IF step = "after" /\ dir = "sessions" THEN tree ELSE moment
  /\ UNCHANGED <<sourceVars, step, dir, stamps, found, noted, sums, archive, strayed>>

\* Files are visited in the order of their names, and a file that has gone since
\* it was listed ends the export.
Visits(n) ==
  /\ Passing /\ listed /\ n \in todo
  /\ \A m \in todo : n <= m
  /\ tree[n].at = dir
  /\ todo' = todo \ {n}
  /\ UNCHANGED <<sourceVars, step, dir, listed, archive, moment, strayed>>

\* treeStamp: path, size and time of every file.
Stamp(n) == [name |-> n, at |-> dir, size |-> Len(tree[n].data), mark |-> tree[n].mark]

StampBefore(n) ==
  /\ step = "before" /\ Visits(n)
  /\ stamps' = [stamps EXCEPT !.before = @ \cup {Stamp(n)}]
  /\ UNCHANGED <<found, noted, sums>>

StampAfter(n) ==
  /\ step = "after" /\ Visits(n)
  /\ stamps' = [stamps EXCEPT !.after = @ \cup {Stamp(n)}]
  /\ UNCHANGED <<found, noted, sums>>

\* The scans of sessions read the directory a session was recorded in; of a
\* compressed one only if it can be unpacked.
Scan(n) ==
  /\ step = "scan" /\ Visits(n)
  /\ \E cwd \in {Recorded(tool, tree[n].data)} \cup (IF KindOf[n] = "packed" THEN {"none"} ELSE {}) :
       found' = With(found, n, [at |-> dir, cwd |-> cwd])
  /\ UNCHANGED <<stamps, noted, sums>>

\* collectProjectMemory takes the size of each file.
Note(n) ==
  /\ step = "memory" /\ Visits(n)
  /\ noted' = With(noted, n, Len(tree[n].data))
  /\ UNCHANGED <<stamps, found, sums>>

\* A child's transcript must be among the exported ones; a result is hashed.
Hash(n) ==
  /\ step = "extras" /\ Visits(n)
  /\ KindOf[n] = "child" => n \in DOMAIN archive
  /\ sums' = IF KindOf[n] = "child" THEN sums ELSE With(sums, n, tree[n].data)
  /\ UNCHANGED <<stamps, found, noted>>

-----------------------------------------------------------------------------
(* What is copied. *)

\* The directory of a scanned session; a child without one inherits that of its
\* parent.
CwdOf(n) ==
  IF KindOf[n] = "child" /\ found[n].cwd = "none" /\ ParentOf[n] \in DOMAIN found
  THEN found[ParentOf[n]].cwd ELSE found[n].cwd

\* selectSessions.
Selected == {n \in DOMAIN found : SamePath(CwdOf(n), "source")}

\* A compressed session of an unknown project is reported as skipped.
Unknown == {n \in DOMAIN found : KindOf[n] = "packed" /\ found[n].cwd = "none"}

Turns(next, to) ==
  /\ step' = next /\ dir' = "sessions" /\ listed' = FALSE /\ todo' = to
  /\ UNCHANGED <<sourceVars, stamps, found, noted, sums, archive, moment, strayed>>

PassEnds == Passing /\ listed /\ todo = {}

\* Codex has a second directory; its passes go on there.
NextDirectory ==
  /\ PassEnds /\ dir = "sessions" /\ tool = "codex"
  /\ dir' = "archived" /\ listed' = FALSE
  /\ UNCHANGED <<sourceVars, step, todo, stamps, found, noted, sums, archive, moment, strayed>>

LastDirectory == dir = "archived" \/ tool = "claude"

BeforeEnds == PassEnds /\ LastDirectory /\ step = "before" /\ Turns("scan", {})

\* Nothing selected is an error.
ScanEnds == PassEnds /\ LastDirectory /\ step = "scan" /\ Selected # {} /\ Turns("copy", Selected)

\* addFileToZip: a file that has gone ends the export.
Copies(n, from) ==
  /\ n \in todo /\ tree[n].at = from
  /\ archive' = With(archive, n, [at |-> from, data |-> tree[n].data])
  /\ todo' = todo \ {n}
  /\ UNCHANGED <<sourceVars, step, dir, listed, stamps, found, noted, sums, moment, strayed>>

CopySession(n) == step = "copy" /\ n \in todo /\ Copies(n, found[n].at)

CopyNote(n) == step = "remember" /\ Copies(n, "sessions")

PackResult(n) == step = "pack" /\ Copies(n, "sessions")

\* With the sessions copied a Codex export has what it needs, provided none was
\* skipped; Claude's memory is next.
CopyEnds ==
  /\ step = "copy" /\ todo = {}
  /\ IF tool = "claude" THEN Turns("memory", {}) ELSE Unknown = {} /\ Turns("after", {})

MemoryEnds == PassEnds /\ step = "memory" /\ Turns("remember", DOMAIN noted)

RememberEnds == step = "remember" /\ todo = {} /\ Turns("extras", {})

ExtrasEnd == PassEnds /\ step = "extras" /\ Turns("pack", DOMAIN sums)

PackEnds == step = "pack" /\ todo = {} /\ Turns("after", {})

\* Slip: the directories are not stamped again.
PublishUnchecked ==
  /\ PassEnds /\ LastDirectory /\ step = "after"
  /\ \A n \in DOMAIN sums : archive[n].data = sums[n]
  /\ Turns("published", {})

\* The stamps must agree, and InspectArchive finds each result as it was hashed.
Publish ==
  /\ PassEnds /\ LastDirectory /\ step = "after"
  /\ stamps.before = stamps.after
  /\ \A n \in DOMAIN sums : archive[n].data = sums[n]
  /\ Turns("published", {})

ExportNext ==
  \/ AgentStarts
  \/ \E n \in Names : AgentWrites(n) \/ AgentCreates(n) \/ AgentRemoves(n) \/ AgentMoves(n)
  \/ ExportStarts \/ ExportFails \/ List
  \/ \E n \in Names : StampBefore(n) \/ Scan(n) \/ Note(n) \/ Hash(n) \/ StampAfter(n)
  \/ \E n \in Names : CopySession(n) \/ CopyNote(n) \/ PackResult(n)
  \/ NextDirectory \/ BeforeEnds \/ ScanEnds \/ CopyEnds \/ MemoryEnds \/ RememberEnds
  \/ ExtrasEnd \/ PackEnds \/ Publish

ExportSpec == ExportInit /\ [][ExportNext]_exportVars

-----------------------------------------------------------------------------
\* The directory of a session of a home.
CwdAt(home, n) ==
  LET own == Recorded(tool, home[n].data)
      parent == ParentOf[n]
  IN IF KindOf[n] = "child" /\ own = "none" /\ home[parent].at # "none"
     THEN Recorded(tool, home[parent].data) ELSE own

\* The sessions of the project in a home, whichever folder they are in, the memory,
\* and the results in the project's own folder.  Results next to a transcript in
\* another folder belong to the project too, but are left out, and nothing says so.
ProjectOf(home) ==
  LET here == {n \in Sessions : home[n].at # "none" /\ SamePath(CwdAt(home, n), "source")}
      own == {n \in OwnFolder : KindOf[n] = "result" /\ ParentOf[n] \in here}
  IN here \cup {n \in Names : home[n].at # "none" /\ (KindOf[n] = "note" \/ n \in own)}

\* A published archive is the project at one moment, although it was read file by
\* file, some of them twice, with nothing locked: the moment the second stamp
\* began.  It never has the results that ProjectOf leaves out.  Files that were
\* moved or removed meanwhile are the exception, with what goes with them: one that
\* has come back, or was made and removed again, leaves no trace in the stamps.
PublishedIsAMoment ==
  step = "published" =>
    \A n \in Names : n \notin strayed /\ ParentOf[n] \notin strayed =>
      /\ n \in DOMAIN archive <=> n \in ProjectOf(moment)
      /\ n \in DOMAIN archive =>
           archive[n] = [at |-> moment[n].at, data |-> moment[n].data]
=============================================================================
