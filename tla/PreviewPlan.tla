----------------------------- MODULE PreviewPlan -----------------------------
(***************************************************************************)
(* A target device previews a snapshot: Engine.Preview of                  *)
(* internal/relay/engine.go and PlanStreaming of internal/bundle/stream.go. *)
(* The archive is opened and checked, then its sessions are taken one by   *)
(* one: mapped to the project's directory here, and written as they are,   *)
(* or merged record by record with the session that is here already; then  *)
(* the memory and result files.  Nothing of the agent's home changes.      *)
(***************************************************************************)
EXTENDS StreamMerge, SnapshotBundle

CONSTANT NoEntry   \* no session is being merged

VARIABLE entry     \* the session being merged

planVars == <<bundleVars, entry>>

PlanInit ==
  /\ verdict = "none" /\ entry = NoEntry /\ items = NoFiles
  /\ MergeIdle

-----------------------------------------------------------------------------
\* The tools and the numbers of sessions agree in what Export packs.  Each
\* session has to name the project's directory just as the project does.
Foreign == \E n \in DOMAIN bundle.sessions : bundle.sessions[n].cwd \notin {"source", "none"}

\* Names are compared in lower case, as some systems do.
LowerCase(place) == <<place[1], Folded[place[2]]>>

\* The sessions and the memory are an archive of their own, whose names have to be
\* names everywhere, and differ.
Packaged == DOMAIN bundle.sessions \cup DOMAIN bundle.notes

Misnamed ==
  \/ \E n \in Packaged : n \notin Portable
  \/ \E n, m \in Packaged : n # m /\ LowerCase(Origin(n)) = LowerCase(Origin(m))

PreviewOpens ==
  /\ verdict = "none" /\ bundle # NoBundle
  /\ verdict' = IF ~Verified \/ Foreign \/ Misnamed \/ Hidden THEN "refused" ELSE "planning"
  /\ UNCHANGED <<mergeVars, bundle, home, entry, items>>

\* Input, output and limits end a preview; so does a running agent or another
\* restore before it begins.
PreviewFails ==
  /\ verdict \in {"none", "planning"} /\ bundle # NoBundle
  /\ verdict' = "failed"
  /\ UNCHANGED <<mergeVars, bundle, home, entry, items>>

Waiting(n) == verdict = "planning" /\ entry = NoEntry /\ n \notin DOMAIN items

\* Memory and results are planned when every session has been.
SessionsPlanned == DOMAIN bundle.sessions \subseteq DOMAIN items

\* A session has to be where sessions are restored, at the depth the agent keeps them,
\* and mapStream refuses a record that is not JSON.  The manifest's size of a memory
\* file has to be that of its entry.
Unacceptable(n) ==
  IF n \in DOMAIN bundle.sessions
  THEN Origin(n) \notin Importable \/ ~Unbroken(bundle.sessions[n].data)
  ELSE n \in DOMAIN bundle.notes /\ Len(bundle.notes[n].data) # bundle.notes[n].size

EntryRefused(n) ==
  /\ Waiting(n) /\ Unacceptable(n)
  /\ n \in DOMAIN bundle.notes => SessionsPlanned
  /\ verdict' = "refused"
  /\ UNCHANGED <<mergeVars, bundle, home, entry, items>>

SessionNew(n) ==
  /\ n \in DOMAIN bundle.sessions /\ Waiting(n) /\ ~Unacceptable(n)
  /\ Place(n) \notin DOMAIN home
  /\ Planned(n, "import", Incoming(n))
  /\ UNCHANGED <<mergeVars, bundle, home, verdict, entry>>

SessionMerges(n) ==
  /\ n \in DOMAIN bundle.sessions /\ Waiting(n) /\ ~Unacceptable(n)
  /\ Place(n) \in DOMAIN home
  /\ MergeStarts(Incoming(n), home[Place(n)])
  /\ entry' = n
  /\ UNCHANGED <<bundle, home, verdict, items>>

MergeSteps ==
  /\ verdict = "planning" /\ entry # NoEntry
  /\ MergeNext
  /\ UNCHANGED planVars

\* An update is staged; anything else leaves the session as it is.
SessionDecided ==
  /\ verdict = "planning" /\ entry # NoEntry /\ answer \notin {"none", "error"}
  /\ Planned(entry, answer, IF answer = "update" THEN out ELSE local)
  /\ entry' = NoEntry
  /\ UNCHANGED <<mergeVars, bundle, home, verdict>>

MergeFailed ==
  /\ verdict = "planning" /\ entry # NoEntry /\ answer = "error"
  /\ verdict' = "failed" /\ entry' = NoEntry
  /\ UNCHANGED <<mergeVars, bundle, home, items>>

-----------------------------------------------------------------------------
(* Memory and results. *)

\* A file that is here with another content is a conflict and stays.
AsidePlanned(n, data) ==
  /\ Planned(n, AsideAction(Place(n), data), IF Place(n) \in DOMAIN home THEN home[Place(n)] ELSE data)
  /\ UNCHANGED <<mergeVars, bundle, home, verdict, entry>>

NotePlanned(n) ==
  /\ n \in DOMAIN bundle.notes /\ Waiting(n) /\ ~Unacceptable(n) /\ SessionsPlanned
  /\ AsidePlanned(n, bundle.notes[n].data)

ResultPlanned(n) ==
  /\ n \in DOMAIN bundle.results /\ Waiting(n) /\ SessionsPlanned
  /\ DOMAIN bundle.notes \subseteq DOMAIN items
  /\ AsidePlanned(n, bundle.results[n])

\* Two entries with one destination: transcripts of the same name out of two folders.
Collide == \E n, m \in Entries : n # m /\ LowerCase(Place(n)) = LowerCase(Place(m))

\* stage() compares the destinations when everything has been planned.
PreviewReady ==
  /\ verdict = "planning" /\ entry = NoEntry /\ DOMAIN items = Entries
  /\ verdict' = IF Collide THEN "refused" ELSE "ready"
  /\ UNCHANGED <<mergeVars, bundle, home, entry, items>>

PlanNext ==
  \/ PreviewOpens \/ PreviewFails \/ MergeSteps \/ SessionDecided \/ MergeFailed
  \/ \E n \in Entries :
       EntryRefused(n) \/ SessionNew(n) \/ SessionMerges(n) \/ NotePlanned(n) \/ ResultPlanned(n)
  \/ PreviewReady

-----------------------------------------------------------------------------
CanApply == verdict = "ready" /\ \A n \in DOMAIN items : items[n].action # "conflict"

\* Two devices converge.  The session a restore leaves here, mapped back to the
\* source's directory, extends the one it came from: going back it is no conflict,
\* for either planner, and coming again the snapshot changes nothing.  The
\* exception is a session that names the target's directory at the source, or the
\* source's in another spelling: the names become one on the way, and going back it
\* diverges from itself.
Converges ==
  verdict = "ready" =>
    \A n \in DOMAIN bundle.sessions :
      LET data == bundle.sessions[n].data
          after == items[n].after
          back == Mapped(bundle.tool, after, "target", "source")
      IN items[n].action # "conflict"
           /\ (\A i \in Naming(data) : CwdIn[data[i].text] \in {"source", "elsewhere"})
         => /\ Reference(back, data) \in {"skip-identical", "update"}
            /\ Reference(Incoming(n), after) \in {"skip-identical", "skip-ahead"}
            /\ items[n].action = "update" =>
                 PlanMerge(Incoming(n), after) = "skip-ahead" /\ PlanMerge(after, Incoming(n)) = "skip-ahead"
=============================================================================
