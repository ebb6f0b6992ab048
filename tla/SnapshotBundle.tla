---------------------------- MODULE SnapshotBundle ----------------------------
(***************************************************************************)
(* A bundle of sessions on the device that restores it, that device's home *)
(* and what is planned for each entry: what the two planners of            *)
(* internal/bundle, PlanStreaming and Import, have in common.              *)
(***************************************************************************)
EXTENDS SessionFiles

CONSTANTS
  Landing,      \* the name a session has in its project's folder, wherever it was
  Folded,       \* a name in lower case
  Portable,     \* the names a file can have on every system
  Importable    \* the places, with their names, that read as those of sessions

VARIABLES
  bundle,       \* the archive
  home,         \* the sessions and other files of the agent here, by place
  verdict,      \* how far the plan has come
  items         \* what is planned for each entry of the archive

bundleVars == <<bundle, home, verdict, items>>

\* An archive: where each session was, the directory the manifest has for it,
\* whether it is compressed, and its content; the size the manifest has for a
\* memory file, and its content; the content of the results; and for every entry
\* the content its checksum was taken of.
NoBundle ==
  [tool |-> "none", sessions |-> NoFiles, notes |-> NoFiles, results |-> NoFiles, sums |-> NoFiles]

Entries == DOMAIN bundle.sessions \cup DOMAIN bundle.notes \cup DOMAIN bundle.results

Packed(n) ==
  IF n \in DOMAIN bundle.sessions THEN bundle.sessions[n].data
  ELSE IF n \in DOMAIN bundle.notes THEN bundle.notes[n].data ELSE bundle.results[n]

\* What is registered is there, and nothing else, with the content it is registered
\* with.
Verified == DOMAIN bundle.sums = Entries /\ \A n \in Entries : bundle.sums[n] = Packed(n)

\* The name an archive has for an entry.
Origin(n) == <<IF n \in DOMAIN bundle.sessions THEN bundle.sessions[n].at ELSE "sessions", n>>

\* Slip: an archived session is restored as an active one.
PlaceActive(n) == <<"sessions", Landing[n]>>

\* Where it goes here.  A Claude session of the project goes to the project's
\* folder, whichever folder it was in.
Place(n) ==
  IF n \in DOMAIN bundle.sessions THEN <<bundle.sessions[n].at, Landing[n]>> ELSE Origin(n)

\* A memory file that reads as a session, one the manifest does not list.
Hidden == \E n \in DOMAIN bundle.notes : Origin(n) \in Importable

Incoming(n) == Mapped(bundle.tool, bundle.sessions[n].data, "source", "target")

Planned(n, action, after) == items' = With(items, n, [action |-> action, after |-> after])

\* What is done with a file that is here with another content, or with none.
AsideAction(place, data) ==
  IF place \notin DOMAIN home THEN "import"
  ELSE IF home[place] = data THEN "skip-identical" ELSE "conflict"
=============================================================================
