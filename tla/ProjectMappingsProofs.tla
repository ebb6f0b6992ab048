----------------------- MODULE ProjectMappingsProofs -----------------------
(***************************************************************************)
(* The projects of a device, for any directories, folders and limit and    *)
(* any number of faults.  That keys are apart rests on the hashes they are *)
(* made of (MappingsAssumption).                                           *)
(***************************************************************************)
EXTENDS ProjectMappings, TLAPS

AutoProjects == {[key |-> AutoKey(d), path |-> d] : d \in Directories}

\* Where a project can come from.
Origin(p) == p \in Configured \/ p \in saved \/ p \in AutoProjects

OneKey(t) == \A p, q \in t : p.key = q.key => p = q

Apart(t) == \A p, q \in t : PathKey(p.path) = PathKey(q.path) => p = q

\* What project-mappings.json holds.
SavedInv ==
  /\ \A p \in saved : \E r \in Roots, f \in Folders :
       p = [key |-> ImportKey(f), path |-> <<r, f>>]
  /\ OneKey(saved) /\ Apart(saved)

\* Every list there is was made of the same origins, whenever it was made.
ListsInv == \A p \in table \cup shown \cup server \cup plans : Origin(p)

TableInv ==
  /\ OneKey(table) /\ (~missed => Apart(table))
  /\ pc = "off" => table = {}
  /\ pc = "started" => table = Configured /\ ~missed
  /\ pc \notin {"off", "started"} /\ ~missed => saved \subseteq table

MappingsInv == root \in Roots /\ SavedInv /\ ListsInv /\ TableInv

-----------------------------------------------------------------------------
(* Keys and directories. *)

LEMMA FoldedIsDirectory ==
  ASSUME NEW d \in Directories
  PROVE  PathKey(d) \in Directories /\ (d \in Dest <=> PathKey(d) \in Dest)
BY MappingsAssumption DEF Directories, Dest, PathKey

\* A project of client.json shares neither key nor directory with a saved one, nor
\* its key with a discovered one.
LEMMA OriginsApart ==
  ASSUME SavedInv
  PROVE  /\ \A p \in Configured, q \in saved :
              p.key # q.key /\ PathKey(p.path) # PathKey(q.path)
         /\ \A p \in Configured \cup saved, q \in AutoProjects : p.key # q.key
<1>1. \A q \in saved : q.key \in ImportKeys /\ q.path \in Dest /\ q.key[1] = "import"
  BY DEF SavedInv, ImportKey, ImportKeys, Dest
<1>2. \A p \in Configured : p.path \in Elsewhere /\ p.path \notin Dest /\ p.key \notin ImportKeys
  BY MappingsAssumption DEF Dest
<1>3. \A p \in Configured, q \in saved : PathKey(p.path) # PathKey(q.path)
  BY <1>1, <1>2, FoldedIsDirectory DEF Directories
<1>4. \A q \in AutoProjects : \E d \in Directories : q.key = <<"auto", d>>
  BY FoldedIsDirectory DEF AutoProjects, AutoKey
<1>5. \A p \in Configured, q \in AutoProjects : p.key # q.key
  BY <1>4, MappingsAssumption
<1>6. \A p \in saved, q \in AutoProjects : p.key # q.key
  BY <1>1, <1>4
<1> QED
  BY <1>1, <1>2, <1>3, <1>5, <1>6

\* A key names one directory in all lists.
LEMMA KeyNamesOneDirectory ==
  ASSUME SavedInv, NEW p, NEW q, Origin(p), Origin(q), p.key = q.key
  PROVE  PathKey(p.path) = PathKey(q.path)
<1>1. CASE p \in Configured \/ q \in Configured
  BY <1>1, OriginsApart, MappingsAssumption DEF Origin
<1>2. CASE p \in saved /\ q \in saved
  BY <1>2 DEF SavedInv, OneKey
<1>3. CASE p \in AutoProjects /\ q \in AutoProjects
  BY <1>3 DEF AutoProjects, AutoKey
<1> QED
  BY <1>1, <1>2, <1>3, OriginsApart DEF Origin

\* A project under a new key in a new directory.
LEMMA OneMore ==
  ASSUME NEW t, NEW key, NEW d, OneKey(t), key \notin KeysOf(t),
         NEW u, u = t \cup {[key |-> key, path |-> d]}
  PROVE  OneKey(u) /\ (Apart(t) /\ PathKey(d) \notin Known(t) => Apart(u))
BY DEF OneKey, Apart, KeysOf, Known

-----------------------------------------------------------------------------
(* The inventory. *)

LEMMA LoadedKeeps ==
  ASSUME MappingsInv
  PROVE  /\ \A p \in Loaded(table) : Origin(p)
         /\ OneKey(Loaded(table)) /\ saved \subseteq Loaded(table)
         /\ ~missed => Apart(Loaded(table))
<1> USE DEF MappingsInv
<1>1. \A p \in Loaded(table) : Origin(p)
  BY DEF Loaded, ListsInv, Origin
<1>2. OneKey(Loaded(table))
  BY DEF Loaded, OneKey, TableInv, SavedInv, KeysOf
<1>3. \A p \in table, q \in saved : p.key = q.key => p = q
  <2> SUFFICES ASSUME NEW p \in table, NEW q \in saved, p.key = q.key PROVE p = q
    OBVIOUS
  <2>1. p \in saved
    BY OriginsApart DEF ListsInv, Origin
  <2> QED
    BY <2>1 DEF SavedInv, OneKey
<1>4. saved \subseteq Loaded(table)
  BY <1>3 DEF Loaded, KeysOf
<1>5. ASSUME ~missed PROVE Apart(Loaded(table))
  <2>1. CASE pc \notin {"off", "started"}
    BY <1>5, <2>1 DEF TableInv, Loaded, Apart
  <2>2. CASE pc \in {"off", "started"}
    <3>1. table \subseteq Configured
      BY <2>2 DEF TableInv
    <3> QED
      BY <1>5, <3>1, OriginsApart DEF Loaded, Apart, TableInv, SavedInv
  <2> QED
    BY <2>1, <2>2
<1> QED
  BY <1>1, <1>2, <1>4, <1>5

LEMMA ScanKeeps ==
  ASSUME SavedInv, NEW t, \A p \in t : Origin(p), OneKey(t), NEW scan \in Scans(t)
  PROVE  /\ \A p \in scan.table : Origin(p)
         /\ OneKey(scan.table) /\ t \subseteq scan.table
         /\ Apart(t) => Apart(scan.table)
<1>1. PICK found \in Finds(t) : scan.table = WithFound(t, found)
  BY DEF Scans
<1>2. /\ found \subseteq Directories /\ \A d \in found : PathKey(d) \notin Known(t)
      /\ \A d, e \in found : PathKey(d) = PathKey(e) => d = e
  BY DEF Finds, Samples
<1> DEFINE new == {[key |-> AutoKey(d), path |-> d] : d \in found}
<1>3. scan.table = t \cup new /\ new \subseteq AutoProjects
  BY <1>1, <1>2 DEF WithFound, AutoProjects
<1>4. \A p \in new : p.path \in found /\ p = [key |-> AutoKey(p.path), path |-> p.path]
  OBVIOUS
<1>5. \A p, q \in new : p.key = q.key \/ PathKey(p.path) = PathKey(q.path) => p = q
  BY <1>2, <1>4 DEF AutoKey
<1>6. \A p \in t, q \in new : PathKey(p.path) # PathKey(q.path)
  BY <1>2, <1>4 DEF Known
<1>7. \A p \in t, q \in new : p.key # q.key
  BY <1>3, <1>6, KeyNamesOneDirectory DEF Origin
<1>8. \A p \in scan.table : Origin(p)
  BY <1>3 DEF Origin
<1>9. OneKey(scan.table)
  BY <1>3, <1>5, <1>7 DEF OneKey
<1>10. Apart(t) => Apart(scan.table)
  BY <1>3, <1>5, <1>6 DEF Apart
<1> QED
  BY <1>3, <1>8, <1>9, <1>10

LEMMA InventoryKeeps ==
  ASSUME SavedInv, NEW t, \A p \in t : Origin(p), OneKey(t), NEW errors, Inventory(t, errors)
  PROVE  /\ \A p \in table' : Origin(p)
         /\ shown' = table' /\ OneKey(table') /\ t \subseteq table'
         /\ Apart(t) => Apart(table')
<1>1. PICK codex \in Scans(t) : \E claude \in Scans(codex.table) :
        table' = claude.table /\ shown' = table'
  BY DEF Inventory, Copied
<1>2. /\ \A p \in codex.table : Origin(p)
      /\ OneKey(codex.table) /\ t \subseteq codex.table /\ (Apart(t) => Apart(codex.table))
  BY ScanKeeps
<1>3. PICK claude \in Scans(codex.table) : table' = claude.table /\ shown' = table'
  BY <1>1
<1>4. /\ \A p \in claude.table : Origin(p)
      /\ OneKey(claude.table) /\ codex.table \subseteq claude.table
      /\ (Apart(codex.table) => Apart(claude.table))
  BY <1>2, ScanKeeps
<1> QED
  BY <1>2, <1>3, <1>4

-----------------------------------------------------------------------------
(* The steps. *)

LEMMA InitInv == MappingsInit => MappingsInv
BY DEF MappingsInit, MappingsInv, SavedInv, ListsInv, TableInv, OneKey, Apart

\* What every step does: the letters mean what they did, and nothing saved is lost.
LEMMA Primed ==
  ASSUME windows' = windows, saved \subseteq saved'
  PROVE  /\ \A d : PathKey(d)' = PathKey(d)
         /\ \A p : Origin(p) => Origin(p)'
BY DEF PathKey, Origin, AutoProjects, AutoKey

\* A step of the client that makes no project.
LEMMA PlainInv ==
  ASSUME MappingsInv, UNCHANGED <<windows, saved>>, root' \in Roots,
         \A p \in table' \cup shown' \cup server' \cup plans' : Origin(p),
         OneKey(table'), ~missed' => Apart(table'),
         pc' = "off" => table' = {},
         pc' = "started" => table' = Configured /\ ~missed',
         pc' \notin {"off", "started"} /\ ~missed' => saved \subseteq table'
  PROVE  MappingsInv'
<1>1. /\ \A d : PathKey(d)' = PathKey(d)
      /\ \A p : Origin(p) => Origin(p)'
  BY Primed
<1>2. SavedInv'
  BY <1>1 DEF MappingsInv, SavedInv, OneKey, Apart
<1>3. ListsInv'
  BY <1>1 DEF ListsInv
<1>4. TableInv'
  BY <1>1 DEF TableInv, OneKey, Apart
<1> QED
  BY <1>2, <1>3, <1>4 DEF MappingsInv

LEMMA RefreshInv == MappingsInv /\ (Refresh \/ RefreshUnread) => MappingsInv'
<1> SUFFICES ASSUME MappingsInv, Refresh \/ RefreshUnread PROVE MappingsInv'
  OBVIOUS
<1>1. SavedInv /\ UNCHANGED <<windows, root, saved, server, plans>> /\ pc' \notin {"off", "started"}
  BY DEF MappingsInv, Refresh, RefreshUnread, AfterRefresh
<1>2. CASE Refresh
  <2>1. Inventory(Loaded(table), 0) /\ missed' = missed
    BY <1>2 DEF Refresh
  <2>2. /\ \A p \in table' : Origin(p)
        /\ shown' = table' /\ OneKey(table') /\ saved \subseteq table'
        /\ ~missed => Apart(table')
    BY <1>1, <2>1, LoadedKeeps, InventoryKeeps
  <2>3. \A p \in table' \cup shown' \cup server' \cup plans' : Origin(p)
    BY <1>1, <2>2 DEF MappingsInv, ListsInv
  <2> QED
    BY <1>1, <2>1, <2>2, <2>3, PlainInv DEF MappingsInv
<1>3. CASE RefreshUnread
  <2>1. Inventory(table, 1) /\ missed'
    BY <1>3 DEF RefreshUnread
  <2>2. /\ \A p \in table' : Origin(p)
        /\ shown' = table' /\ OneKey(table')
    BY <1>1, <2>1, InventoryKeeps DEF MappingsInv, ListsInv, TableInv
  <2>3. \A p \in table' \cup shown' \cup server' \cup plans' : Origin(p)
    BY <1>1, <2>2 DEF MappingsInv, ListsInv
  <2> QED
    BY <1>1, <2>1, <2>2, <2>3, PlainInv DEF MappingsInv
<1> QED
  BY <1>2, <1>3

\* Heartbeats and jobs that leave the table alone.
LEMMA SameTableInv ==
  ASSUME MappingsInv, UNCHANGED <<windows, root, saved, table, shown, missed>>,
         server' \in {server, shown}, plans' \subseteq plans \cup table,
         pc \notin {"off", "started"}, pc' \notin {"off", "started"}
  PROVE  MappingsInv'
<1>1. \A p \in table' \cup shown' \cup server' \cup plans' : Origin(p)
  BY DEF MappingsInv, ListsInv
<1> QED
  BY <1>1, PlainInv DEF MappingsInv, TableInv

\* A job that has loaded the mappings, and no more.
LEMMA LoadedInv ==
  ASSUME MappingsInv, UNCHANGED <<windows, root, saved, shown, missed, server, plans>>,
         table' = Loaded(table), pc' \notin {"off", "started"}
  PROVE  MappingsInv'
<1>1. \A p \in table' \cup shown' \cup server' \cup plans' : Origin(p)
  BY LoadedKeeps DEF MappingsInv, ListsInv
<1> QED
  BY <1>1, LoadedKeeps, PlainInv DEF MappingsInv

LEMMA NewProjectInv ==
  ASSUME MappingsInv, NEW f \in Folders, NewProject(f)
  PROVE  MappingsInv'
<1> USE DEF MappingsInv
<1> DEFINE key == ImportKey(f)
           dest == <<root, f>>
           p == [key |-> key, path |-> dest]
           t == Loaded(table)
<1>1. /\ ~TakenFor(t, key, dest)
      /\ saved' = Added(saved, key, dest) /\ table' = Added(t, key, dest)
      /\ plans' \subseteq plans \cup table'
      /\ UNCHANGED <<windows, root, server, shown, missed>> /\ pc' = "due"
  BY DEF NewProject, Mappings, Planned
<1>2. /\ \A q \in t : Origin(q)
      /\ OneKey(t) /\ saved \subseteq t /\ (~missed => Apart(t))
  BY LoadedKeeps
<1>3. saved \subseteq saved'
  BY <1>1 DEF Added
<1>4. /\ \A d : PathKey(d)' = PathKey(d)
      /\ \A q : Origin(q) => Origin(q)'
  BY <1>1, <1>3, Primed
\* A project of the table that has the key is the saved one.
<1>5. key \in KeysOf(t) => key \in KeysOf(saved)
  <2> SUFFICES ASSUME NEW q \in t, q.key = key PROVE key \in KeysOf(saved)
    BY DEF KeysOf
  <2>1. q \notin Configured
    BY MappingsAssumption DEF ImportKeys, ImportKey
  <2>2. q \notin AutoProjects
    BY DEF AutoProjects, AutoKey, ImportKey
  <2> QED
    BY <1>2, <2>1, <2>2 DEF Origin, KeysOf
<1>6. CASE key \in KeysOf(t)
  <2>1. saved' = saved /\ table' = t
    BY <1>1, <1>5, <1>6 DEF Added
  <2>2. \A q \in table' \cup shown' \cup server' \cup plans' : Origin(q)
    BY <1>1, <1>2, <2>1 DEF ListsInv
  <2> QED
    BY <1>1, <1>2, <2>1, <2>2, PlainInv
<1>7. CASE key \notin KeysOf(t)
  <2>1. key \notin KeysOf(saved)
    BY <1>2, <1>7 DEF KeysOf
  <2>2. saved' = saved \cup {p} /\ table' = t \cup {p}
    BY <1>1, <1>7, <2>1 DEF Added
  <2>3. PathKey(dest) \notin Known(t) /\ PathKey(dest) \notin Known(saved)
    BY <1>1, <1>2, <1>7 DEF TakenFor, KeysOf, Known
  <2>4. OneKey(saved') /\ Apart(saved')
    BY <2>1, <2>2, <2>3, OneMore DEF SavedInv
  <2>5. OneKey(table') /\ (~missed' => Apart(table'))
    BY <1>1, <1>2, <1>7, <2>2, <2>3, OneMore
  <2>6. SavedInv'
    BY <1>4, <2>2, <2>4 DEF SavedInv, OneKey, Apart, ImportKey
  <2>7. ListsInv'
    <3>1. \A q \in saved' : Origin(q)'
      BY DEF Origin
    <3>2. p \in saved'
      BY <2>2
    <3>3. \A q \in t \cup shown \cup server \cup plans : Origin(q)'
      BY <1>2, <1>4 DEF ListsInv
    <3> QED
      BY <1>1, <2>2, <3>1, <3>2, <3>3 DEF ListsInv
  <2>8. TableInv'
    BY <1>1, <1>2, <1>4, <2>2, <2>5 DEF TableInv, OneKey, Apart
  <2> QED
    BY <1>1, <2>6, <2>7, <2>8
<1> QED
  BY <1>6, <1>7

LEMMA StartInv == MappingsInv /\ Start => MappingsInv'
<1> SUFFICES ASSUME MappingsInv, Start PROVE MappingsInv'
  OBVIOUS
<1>1. /\ UNCHANGED <<windows, root, saved, server, plans>> /\ pc' = "started"
      /\ table' = Configured /\ shown' = Configured /\ ~missed'
  BY DEF Start
<1>2. \A p \in table' \cup shown' \cup server' \cup plans' : Origin(p)
  BY <1>1 DEF MappingsInv, ListsInv, Origin
<1>3. OneKey(Configured) /\ Apart(Configured)
  <2>1. \A d \in Elsewhere : PathKey(d) = d
    BY MappingsAssumption DEF PathKey, Dest
  <2> QED
    BY <2>1, MappingsAssumption DEF OneKey, Apart
<1> QED
  BY <1>1, <1>2, <1>3, PlainInv DEF MappingsInv

LEMMA StopInv == MappingsInv /\ Stop => MappingsInv'
<1> SUFFICES ASSUME MappingsInv, Stop PROVE MappingsInv'
  OBVIOUS
<1>1. /\ UNCHANGED <<windows, root, saved, server, plans>> /\ pc' = "off"
      /\ table' = {} /\ shown' = {} /\ ~missed'
  BY DEF Stop
<1>2. \A p \in table' \cup shown' \cup server' \cup plans' : Origin(p)
  BY <1>1 DEF MappingsInv, ListsInv
<1>3. OneKey({}) /\ Apart({})
  BY DEF OneKey, Apart
<1> QED
  BY <1>1, <1>2, <1>3, PlainInv DEF MappingsInv

LEMMA StepInv == MappingsInv /\ [MappingsNext]_vars => MappingsInv'
<1> SUFFICES ASSUME MappingsInv, [MappingsNext]_vars PROVE MappingsInv'
  OBVIOUS
<1>1. CASE HeartbeatAccepted \/ HeartbeatRefused \/ Idle
  <2>1. UNCHANGED <<windows, root, saved, table, shown, missed>>
    BY <1>1 DEF HeartbeatAccepted, HeartbeatRefused, Idle
  <2>2. server' \in {server, shown} /\ plans' \subseteq plans \cup table
    BY <1>1 DEF HeartbeatAccepted, HeartbeatRefused, Idle
  <2>3. pc \notin {"off", "started"} /\ pc' \notin {"off", "started"}
    BY <1>1 DEF HeartbeatAccepted, HeartbeatRefused, Idle, Unanswered
  <2> QED
    BY <2>1, <2>2, <2>3, SameTableInv
<1>2. ASSUME NEW key, PreviewListed(key) PROVE MappingsInv'
  BY <1>2, SameTableInv DEF PreviewListed, Planned
<1>3. ASSUME NEW f \in Folders, NewProjectRefused(f) PROVE MappingsInv'
  BY <1>3, LoadedInv DEF NewProjectRefused
<1>4. ASSUME NEW f \in Folders, NewProjectFails(f) PROVE MappingsInv'
  BY <1>4, LoadedInv, SameTableInv DEF NewProjectFails
<1>5. ASSUME NEW r \in Roots, MoveRoot(r) PROVE MappingsInv'
  <2>1. UNCHANGED <<windows, saved, table, shown, server, plans, missed, pc>> /\ root' \in Roots
    BY <1>5 DEF MoveRoot, clientVars
  <2> QED
    BY <2>1, PlainInv DEF MappingsInv, ListsInv, TableInv
<1>6. CASE UNCHANGED vars
  <2>1. UNCHANGED <<windows, root, saved, table, shown, server, plans, missed, pc>>
    BY <1>6 DEF vars, clientVars
  <2> QED
    BY <2>1, PlainInv DEF MappingsInv, ListsInv, TableInv
<1> QED
  BY <1>1, <1>2, <1>3, <1>4, <1>5, <1>6, RefreshInv, NewProjectInv, StartInv, StopInv
  DEF MappingsNext, ClientStep

LEMMA MappingsInvariant == MappingsSpec => []MappingsInv
BY InitInv, StepInv, PTL DEF MappingsSpec

-----------------------------------------------------------------------------
(* What follows. *)

\* One directory, one project: Inventory, loadMappings and PrepareImport.
THEOREM DirectoriesStayApart == MappingsSpec => []OneProjectPerDirectory
<1>1. MappingsInv => OneProjectPerDirectory
  BY DEF MappingsInv, TableInv, OneKey, Apart, OneProjectPerDirectory
<1> QED
  BY <1>1, MappingsInvariant, PTL

\* A key that a preview was reported under never comes to name another directory.
THEOREM KeysAreForGood == MappingsSpec => []PlansKeepTheirDirectory
<1>1. MappingsInv => PlansKeepTheirDirectory
  <2> SUFFICES ASSUME MappingsInv, NEW m \in plans,
                      NEW p \in table \cup saved \cup shown \cup server, p.key = m.key
               PROVE  PathKey(p.path) = PathKey(m.path)
    BY DEF PlansKeepTheirDirectory
  <2>1. Origin(m) /\ Origin(p)
    BY DEF MappingsInv, ListsInv, Origin
  <2> QED
    BY <2>1, KeyNamesOneDirectory DEF MappingsInv
<1> QED
  BY <1>1, MappingsInvariant, PTL

\* Every folder made for a preview is in the file, and in the table of a client that
\* could read it.
THEOREM MappingsComeBack == MappingsSpec => []PreparedAreRecovered
<1>1. MappingsInv => PreparedAreRecovered
  <2> SUFFICES ASSUME MappingsInv, NEW m \in plans, m.key \in ImportKeys
               PROVE  /\ m.key \in KeysOf(saved)
                      /\ pc \notin {"off", "started"} /\ ~missed => m.key \in KeysOf(table)
    BY DEF PreparedAreRecovered
  <2>1. m \in saved
    <3>1. m \notin Configured
      BY MappingsAssumption
    <3>2. m \notin AutoProjects
      BY DEF AutoProjects, AutoKey, ImportKeys
    <3> QED
      BY <3>1, <3>2 DEF MappingsInv, ListsInv, Origin
  <2> QED
    BY <2>1 DEF MappingsInv, TableInv, KeysOf
<1> QED
  BY <1>1, MappingsInvariant, PTL
=============================================================================
