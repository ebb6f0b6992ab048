-------------------------- MODULE ProjectMappings --------------------------
(***************************************************************************)
(* The projects of a device (src/internal/relay/projects.go): those of     *)
(* client.json, those whose directory a session was found in, and those    *)
(* PrepareImport made for a snapshot, which project-mappings.json keeps;   *)
(* and how the server learns of them (Run and heartbeat in client.go).     *)
(*                                                                         *)
(* A key is the hash of what it is made from and is modelled as a pair.    *)
(* The user may move import_root between two runs of the client.  In which *)
(* directories an inventory finds sessions is an input: the tools record   *)
(* and delete them at any time.  A store that cannot be scanned, and every *)
(* store under disable_auto_scan, has none.                                *)
(***************************************************************************)
EXTENDS Integers, FiniteSets

CONSTANTS
  Roots,        \* directories import_root can name
  Folders,      \* names of new projects
  Fold,         \* what strings.ToLower makes of each
  Elsewhere,    \* other directories
  Configured,   \* the projects of client.json
  Limit,        \* projects the client lists (1000 in the code)
  MaxFound,     \* bound: directories one scan adds
  MaxFaults     \* bound: reads and writes that fail, and clients that stop

Dest == Roots \X Folders
Directories == Dest \cup Elsewhere

ImportKeys == {<<"import", Fold[f]>> : f \in Folders}

\* LoadConfig refuses a key that is used twice; that the user names every
\* directory once is taken for granted, here and by the code.
ASSUME MappingsAssumption ==
  /\ Fold \in [Folders -> Folders]
  /\ Limit \in Nat /\ MaxFound \in Nat /\ MaxFaults \in Nat
  /\ \A p, q \in Configured : p.key = q.key \/ p.path = q.path => p = q
  /\ \A p \in Configured : p = [key |-> p.key, path |-> p.path]
  /\ \A p \in Configured : p.path \in Elsewhere /\ p.key \notin ImportKeys
  /\ \A p \in Configured : \A d \in Directories : p.key # <<"auto", d>>
  /\ Elsewhere \cap (Roots \X Folders) = {}

VARIABLES
  windows,   \* letters of either case name one directory
  root,      \* import_root
  saved,     \* project-mappings.json
  table,     \* Engine.Config.Projects
  shown,     \* Client.Config.Projects, a copy of the table
  rows,      \* the number of rows of the last inventory
  server,    \* what the server lists for the device
  pc,        \* where Run is
  faults,
  missed,    \* history: this client has made an inventory without its mappings
  plans      \* history: projects of the previews the client has reported

clientVars == <<table, shown, rows, pc, missed>>
vars == <<windows, root, saved, server, faults, plans, clientVars>>

PathKey(d) == IF windows /\ d \in Dest THEN <<d[1], Fold[d[2]]>> ELSE d
ImportKey(f) == <<"import", Fold[f]>>
AutoKey(d) == <<"auto", PathKey(d)>>

KeysOf(t) == {p.key : p \in t}
Known(t) == {PathKey(p.path) : p \in t}

MappingsInit ==
  /\ windows \in BOOLEAN /\ root \in Roots
  /\ saved = {} /\ table = {} /\ shown = {} /\ rows = 0 /\ server = {}
  /\ pc = "off" /\ faults = 0 /\ missed = FALSE /\ plans = {}

Fails == faults < MaxFaults /\ faults' = faults + 1

-----------------------------------------------------------------------------
(* The inventory. *)

\* loadMappings: no saved key is one of client.json's, and the table has the others
\* from the same file, so that none conflicts.
Loaded(t) == t \cup {p \in saved : p.key \notin KeysOf(t)}

Samples == {found \in SUBSET Directories : Cardinality(found) <= MaxFound}

\* What the scan of one store may add: sessions are in any other directories, and only
\* the first ones are added when the limit is reached.
Finds(t) ==
  {found \in Samples :
     /\ \A d \in found : PathKey(d) \notin Known(t)
     /\ \A d, e \in found : PathKey(d) = PathKey(e) => d = e
     /\ found = {} \/ Cardinality(t) + Cardinality(found) <= Limit}

WithFound(t, found) == t \cup {[key |-> AutoKey(d), path |-> d] : d \in found}

\* The row that says the limit is reached is there if one more directory has sessions.
LimitRows(t) ==
  IF Cardinality(t) >= Limit /\ \E d \in Directories : PathKey(d) \notin Known(t)
  THEN {0, 1} ELSE {0}

\* What the scan of one store comes to.
Scans(t) ==
  UNION {{[table |-> after, rows |-> n] : n \in LimitRows(after)}
         : after \in {WithFound(t, found) : found \in Finds(t)}}

\* Slip: the client's copy is made once.
CopiedOnce(t) == IF server = {} THEN t ELSE shown

\* The client has a copy of its own, which heartbeats read while a job is executed.
Copied(t) == t

\* refreshInventory, over a table and the rows that came of reading the mappings.
Inventory(t, errors) ==
  \E codex \in Scans(t) : \E claude \in Scans(codex.table) :
    /\ table' = claude.table
    /\ rows' = 2 * Cardinality(table') + errors + codex.rows + claude.rows
    /\ shown' = Copied(table')

AfterRefresh == IF pc = "started" THEN "waiting" ELSE "listed"

\* When the client starts, after every job, and after a minute.
Refresh ==
  /\ pc \in {"started", "due", "beat"}
  /\ Inventory(Loaded(table), 0)
  /\ pc' = AfterRefresh
  /\ UNCHANGED <<windows, root, saved, server, faults, missed, plans>>

\* An inventory is made of whatever the engine has when the mappings cannot be read.
RefreshUnread ==
  /\ pc \in {"started", "due", "beat"}
  /\ Fails
  /\ Inventory(table, 1)
  /\ pc' = AfterRefresh /\ missed' = TRUE
  /\ UNCHANGED <<windows, root, saved, server, plans>>

-----------------------------------------------------------------------------
(* The heartbeat. *)

Acceptable == Cardinality(shown) <= Limit /\ rows <= 2 * Limit + 2

\* No job is asked for, and before the first answer no inventory is made.
Unanswered == IF pc = "waiting" THEN "waiting" ELSE "beat"

\* The answer to a heartbeat the server has accepted may be lost.
HeartbeatAccepted ==
  /\ pc \in {"waiting", "listed", "beat"}
  /\ Acceptable
  /\ server' = shown
  /\ pc' \in {"claims", Unanswered}
  /\ UNCHANGED <<windows, root, saved, table, shown, rows, faults, missed, plans>>

HeartbeatRefused ==
  /\ pc \in {"waiting", "listed", "beat"}
  /\ ~Acceptable
  /\ pc' = Unanswered
  /\ UNCHANGED <<windows, root, saved, server, table, shown, rows, faults, missed, plans>>

-----------------------------------------------------------------------------
(* Jobs.  They are claimed after an accepted heartbeat only. *)

Idle ==
  /\ pc = "claims"
  /\ pc' = "beat"
  /\ UNCHANGED <<windows, root, saved, server, table, shown, rows, faults, missed, plans>>

\* Slip: the same folder under a discovered project is not noticed.
TakenByKey(t, key, dest) ==
  \E p \in t : p.key = key /\ PathKey(p.path) # PathKey(dest)

\* The key stands for another directory, or the directory for another key.
TakenFor(t, key, dest) ==
  \E p \in t : (p.key = key) # (PathKey(p.path) = PathKey(dest))

Added(t, key, dest) ==
  IF key \in KeysOf(t) THEN t ELSE t \cup {[key |-> key, path |-> dest]}

\* Slip: the mapping is kept in memory only.
MappingsUnwritten(key, dest) == saved

\* Slip: the file is written anew for every folder.
MappingsAlone(key, dest) == {[key |-> key, path |-> dest]}

Mappings(key, dest) == Added(saved, key, dest)

Planned(t, key) == {p \in t : p.key = key}

\* PrepareImport and the Preview of the same job.  A Preview that fails reports no
\* plan; so does a client that stops between the two.
NewProject(f) ==
  LET key == ImportKey(f) dest == <<root, f>> t == Loaded(table) IN
  /\ pc = "claims"
  /\ ~TakenFor(t, key, dest)
  /\ saved' = Mappings(key, dest)
  /\ table' = Added(t, key, dest)
  /\ plans' \in {plans, plans \cup Planned(table', key)}
  /\ pc' = "due"
  /\ UNCHANGED <<windows, root, server, shown, rows, faults, missed>>

NewProjectRefused(f) ==
  LET t == Loaded(table) IN
  /\ pc = "claims"
  /\ TakenFor(t, ImportKey(f), <<root, f>>)
  /\ table' = t
  /\ pc' = "due"
  /\ UNCHANGED <<windows, root, saved, server, shown, rows, faults, missed, plans>>

\* The mappings cannot be read (the table stays as it is) or written.
NewProjectFails(f) ==
  /\ pc = "claims"
  /\ Fails
  /\ \/ table' = table
     \/ ~TakenFor(Loaded(table), ImportKey(f), <<root, f>>) /\ table' = Loaded(table)
  /\ pc' = "due"
  /\ UNCHANGED <<windows, root, saved, server, shown, rows, missed, plans>>

\* A preview into a project the server lists; without it the job fails.
PreviewListed(key) ==
  /\ pc = "claims"
  /\ key \in KeysOf(server)
  /\ plans' = plans \cup Planned(table, key)
  /\ pc' = "due"
  /\ UNCHANGED <<windows, root, saved, server, table, shown, rows, faults, missed>>

-----------------------------------------------------------------------------
(* The client starts and stops. *)

Start ==
  /\ pc = "off"
  /\ pc' = "started"
  /\ table' = Configured /\ shown' = Configured
  /\ rows' = 0 /\ missed' = FALSE
  /\ UNCHANGED <<windows, root, saved, server, faults, plans>>

Stop ==
  /\ pc # "off"
  /\ Fails
  /\ pc' = "off"
  /\ table' = {} /\ shown' = {} /\ rows' = 0 /\ missed' = FALSE
  /\ UNCHANGED <<windows, root, saved, server, plans>>

MoveRoot(r) ==
  /\ pc = "off"
  /\ root' = r
  /\ UNCHANGED <<windows, saved, server, faults, plans, clientVars>>

ClientStep ==
  \/ Start \/ HeartbeatAccepted \/ HeartbeatRefused \/ Idle
  \/ \E f \in Folders : NewProject(f) \/ NewProjectRefused(f)
  \/ \E key \in KeysOf(server) : PreviewListed(key)

MappingsNext ==
  \/ ClientStep \/ Refresh \/ RefreshUnread \/ Stop
  \/ \E f \in Folders : NewProjectFails(f)
  \/ \E r \in Roots : MoveRoot(r)

\* Run goes on, its heartbeats reach the server again, and the minute after which
\* the inventory is made anew passes.
MappingsSpec ==
  /\ MappingsInit /\ [][MappingsNext]_vars
  /\ WF_vars(ClientStep) /\ SF_vars(Refresh)

-----------------------------------------------------------------------------
(* Properties. *)

\* The two tools' sessions of one directory belong to one project (README.md:89),
\* whichever of import, discovery and restart came first, and no key stands for
\* two.  After an inventory without the mappings a directory that was imported may
\* have been discovered under another key, until the client is started again.
OneProjectPerDirectory ==
  \A p, q \in table :
    /\ p.key = q.key => p = q
    /\ ~missed /\ PathKey(p.path) = PathKey(q.path) => p = q

\* What a preview was made for stays where it is: a key that a plan was reported
\* under names its directory in the table, the file and the server's list, though
\* import_root moves, clients stop and writes fail.  Restores and bindings go by
\* the key.
PlansKeepTheirDirectory ==
  \A m \in plans : \A p \in table \cup saved \cup shown \cup server :
    p.key = m.key => PathKey(p.path) = PathKey(m.path)

\* Mappings are recovered when the client is started again (README.md:91), as far
\* as the file can be read: no limit and no discovery keeps one out.
PreparedAreRecovered ==
  \A m \in plans :
    /\ m.key \in ImportKeys => m.key \in KeysOf(saved)
    /\ m.key \in ImportKeys /\ pc \notin {"off", "started"} /\ ~missed => m.key \in KeysOf(table)

\* The server comes to list the project of every preview, unless it refuses the
\* list: only then can the administrator restore it, export it or bind it.
ServerLearns ==
  \A f \in Folders :
    (\E m \in plans : m.key = ImportKey(f))
      ~> (ImportKey(f) \in KeysOf(server) \/ ~Acceptable)
=============================================================================
