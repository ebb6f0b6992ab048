----------------------------- MODULE BundleImport -----------------------------
(***************************************************************************)
(* The planner on whole files that the project comes from: Import of       *)
(* internal/bundle/import.go decides what to do with every entry of a      *)
(* bundle and then writes.  The options are those of the command line.     *)
(* The agent here is not looked for and may go on writing; an import may   *)
(* break off at every write.                                               *)
(***************************************************************************)
EXTENDS SnapshotBundle, FiniteSets

CONSTANTS
  NoImport,       \* the bundle is previewed, not imported
  Spare,          \* records the agent here may add during an import
  MaxGrowth       \* bound on their number

ASSUME ImportAssumption == Spare \subseteq Record /\ MaxGrowth \in Nat

VARIABLES
  options,        \* of the import
  chosen,         \* the sessions its filters select
  written,        \* the entries written
  backups,        \* what was copied aside: the entry and its content
  growth,         \* records the agent here has added
  looked          \* the local sessions as the import last read them (history)

importVars == <<options, chosen, written, backups, growth, looked>>

Options ==
  [merge   : BOOLEAN,                      \* extend a session that has only grown
   clash   : {"keep", "replace", "copy"},  \* a conflict: skip, replace, add a copy
   mapped  : BOOLEAN,                      \* --map-cwd
   undo    : BOOLEAN,                      \* RecordUndo
   others  : BOOLEAN,                      \* archived sessions and memory as well
   filter  : {"none", "text", "other"},    \* --match, or other filters
   zstd    : BOOLEAN,                      \* the tool for compressed sessions is here
   dry     : BOOLEAN]                      \* decide and write nothing

ImportInit ==
  /\ chosen = {} /\ written = {} /\ backups = {} /\ growth = 0 /\ looked = NoFiles

-----------------------------------------------------------------------------
\* What filters may leave of the sessions; compressed ones are not searched.
Selections ==
  LET all == DOMAIN bundle.sessions
  IN CASE options.filter = "none" -> {all}
       [] options.filter = "text" -> SUBSET {n \in all : ~bundle.sessions[n].packed}
       [] options.filter = "other" -> SUBSET all

\* The bundle is verified before anything is written; a filter that leaves nothing
\* is an error.  Of the names no system but one takes, some are refused.
ImportOpens ==
  /\ verdict = "none" /\ bundle # NoBundle
  /\ \E selected \in Selections :
       /\ chosen' = selected
       /\ \/ verdict' = IF ~Verified \/ Hidden \/ (selected = {} /\ options.filter # "none")
                         THEN "aborted" ELSE "deciding"
          \/ (\E n \in Entries : n \notin Portable) /\ verdict' = "aborted"
  /\ UNCHANGED <<bundle, home, items, options, written, backups, growth, looked>>

\* Deselected sessions, archived ones and memory nobody asked for are left out, and
\* what does not read as a session.
Wanted ==
  {n \in chosen : Origin(n) \in Importable /\ (bundle.sessions[n].at = "archived" => options.others)}
    \cup (IF options.others THEN DOMAIN bundle.notes ELSE {})

\* Without the tool a compressed session is neither mapped nor merged.
Opaque(n) == bundle.sessions[n].packed /\ ~options.zstd

\* matchMapping goes by the directory the manifest has.
Mapping(n) == options.mapped /\ SamePath(bundle.sessions[n].cwd, "source")

Content(n) == IF Mapping(n) /\ ~Opaque(n) THEN Incoming(n) ELSE bundle.sessions[n].data

\* Only a session that is mapped leaves its folder.
Dest(n) == IF n \in DOMAIN bundle.sessions /\ Mapping(n) THEN Place(n) ELSE Origin(n)

\* A copy gets an id of its own, if the session is not compressed and has one: what
\* names a directory does.
Copyable(n) == ~bundle.sessions[n].packed /\ Naming(Content(n)) # {}

\* planCanonicalMerge: the local bytes, and the records beyond them.
CanonicalMerge(x, y) == Terminate(y) \o SubSeq(x, Len(y) + 1, Len(x))

\* planMerge writes the bundle's version if the local bytes begin it.
Extended(x, y) == IF BytePrefix(y, x) THEN x ELSE CanonicalMerge(x, y)

\* decideAction and, where the two differ, --merge and then what a conflict is for.
Resolved(n) ==
  LET x == Content(n)
      y == home[Dest(n)]
      grown == IF options.merge /\ ~Opaque(n) THEN PlanMerge(x, y) ELSE "conflict"
  IN CASE Dest(n) \notin DOMAIN home -> "import"
       [] Dest(n) \in DOMAIN home /\ x = y -> "skip-identical"
       [] Dest(n) \in DOMAIN home /\ x # y /\ grown # "conflict" -> grown
       [] OTHER ->
            IF options.clash = "replace" THEN "replace"
            ELSE IF options.clash = "copy" /\ Copyable(n)
            THEN "import-copy" ELSE "conflict"

\* What was rewritten for another directory has to be JSON.
MappingInvalid(n) ==
  Content(n) # bundle.sessions[n].data /\ ~Unbroken(bundle.sessions[n].data)

\* So has what Codex is to know under another name, and a copy of an archived rollout
\* gets no name that is accepted.
CopyInvalid(n) ==
  /\ bundle.tool = "codex" /\ Resolved(n) = "import-copy"
  /\ ~Unbroken(bundle.sessions[n].data) \/ bundle.sessions[n].at = "archived"

Invalid(n) == MappingInvalid(n) \/ CopyInvalid(n)

Deciding(n) == verdict = "deciding" /\ n \in Wanted \ DOMAIN items

SessionAborts(n) ==
  /\ n \in chosen /\ Deciding(n) /\ Invalid(n)
  /\ verdict' = "aborted"
  /\ UNCHANGED <<bundle, home, items, importVars>>

SessionResolved(n) ==
  /\ n \in chosen /\ Deciding(n) /\ ~Invalid(n)
  /\ Planned(n, Resolved(n),
             IF Resolved(n) = "update" THEN Extended(Content(n), home[Dest(n)]) ELSE Content(n))
  /\ looked' = IF Dest(n) \in DOMAIN home THEN With(looked, n, home[Dest(n)]) ELSE looked
  /\ UNCHANGED <<bundle, home, verdict, options, chosen, written, backups, growth>>

\* importMemoryEntry writes at once what is not here.  The loop that writes the
\* sessions comes by it again.
NoteResolved(n) ==
  LET data == bundle.notes[n].data
      action == AsideAction(Dest(n), data)
  IN /\ n \in DOMAIN bundle.notes /\ Deciding(n) /\ chosen \cap Wanted \subseteq DOMAIN items
     /\ Planned(n, action, data)
     /\ home' = IF action = "import" /\ ~options.dry THEN With(home, Dest(n), data) ELSE home
     /\ looked' = IF Dest(n) \in DOMAIN home THEN With(looked, n, home[Dest(n)]) ELSE looked
     /\ UNCHANGED <<bundle, verdict, options, chosen, written, backups, growth>>

AllDecided ==
  /\ verdict = "deciding" /\ DOMAIN items = Wanted
  /\ verdict' = IF options.dry THEN "imported" ELSE "writing"
  /\ UNCHANGED <<bundle, home, items, importVars>>

-----------------------------------------------------------------------------
\* Slip: a session is set aside only when an undo is recorded.
ForUndo(n) == options.undo /\ items[n].action \in {"replace", "update"}

\* What is about to change is set aside, an update only if it is to be undone.
SetAside(n) ==
  items[n].action = "replace" \/ (items[n].action = "update" /\ options.undo)

ToWrite == {n \in DOMAIN items : items[n].action \in {"import", "replace", "import-copy", "update"}}

HasBackup(n) == \E b \in backups : b.entry = n

BackUp(n) ==
  /\ verdict = "writing" /\ n \in ToWrite \ written
  /\ SetAside(n) /\ ~HasBackup(n)
  /\ backups' = backups \cup {[entry |-> n, data |-> home[Dest(n)]]}
  /\ looked' = With(looked, n, home[Dest(n)])
  /\ UNCHANGED <<bundleVars, options, chosen, written, growth>>

\* A copy goes to a name that is free.
Goes(n) == IF items[n].action = "import-copy" THEN <<"copies", n>> ELSE Dest(n)

Write(n) ==
  /\ verdict = "writing" /\ n \in ToWrite \ written
  /\ SetAside(n) => HasBackup(n)
  /\ home' = With(home, Goes(n), items[n].after)
  /\ written' = written \cup {n}
  /\ UNCHANGED <<bundle, verdict, items, options, chosen, backups, growth, looked>>

\* A failed read, backup or write ends the import where it is, as a crash does.
ImportBreaksOff ==
  /\ verdict \in {"deciding", "writing"}
  /\ verdict' = "aborted"
  /\ UNCHANGED <<bundle, home, items, importVars>>

ImportEnds ==
  /\ verdict = "writing" /\ ToWrite \subseteq written
  /\ verdict' = "imported"
  /\ UNCHANGED <<bundle, home, items, importVars>>

\* The agent here adds a record to a session or a line to a memory file.
LocalGrows(p) ==
  /\ verdict \in {"deciding", "writing"} /\ growth < MaxGrowth
  /\ p \in DOMAIN home
  /\ \E r \in Spare : home' = [home EXCEPT ![p] = Append(Terminate(@), r)]
  /\ growth' = growth + 1
  /\ UNCHANGED <<bundle, verdict, items, options, chosen, written, backups, looked>>

ImportNext ==
  \/ ImportOpens \/ AllDecided \/ ImportBreaksOff \/ ImportEnds
  \/ \E n \in Entries :
       SessionAborts(n) \/ SessionResolved(n) \/ NoteResolved(n) \/ BackUp(n) \/ Write(n)
  \/ \E p \in DOMAIN home : LocalGrows(p)

-----------------------------------------------------------------------------
Begins(x, y) == BytePrefix(x, y) \/ IsPrefixOf(Canon(x), Canon(y))

\* No other entry goes where this one goes.
Alone(n) == \A m \in DOMAIN items \ {n} : Dest(m) # Dest(n)

\* What an import has last read of a file here, when it decided on it or set it
\* aside, is never lost, wherever it breaks off and whatever its options: the file
\* still begins so, or a backup does.  (What the agent adds after that can be.  And
\* of two sessions with one destination, which Import does not look for, the second
\* is written over the first.)
LocalNeverLost ==
  \A n \in DOMAIN looked : Alone(n) =>
    \/ Begins(looked[n], home[Dest(n)])
    \/ \E b \in backups : b.entry = n /\ Begins(looked[n], b.data)
=============================================================================
