--------------------------- MODULE SessionTransfer ---------------------------
(***************************************************************************)
(* The way of a snapshot from one device to another: the source exports it *)
(* (SessionExport), the server keeps its bytes, whose hash the target      *)
(* checks, and the target previews it (PreviewPlan).  The two devices share *)
(* nothing else, so the target begins when the source is done.  It may also *)
(* preview, or import, a snapshot of an earlier time.                      *)
(***************************************************************************)
EXTENDS SessionExport, PreviewPlan, BundleImport

CONSTANTS
  TargetHomes,    \* for each tool, the homes of the target
  Earlier         \* sets of snapshots of an earlier time, with a home and options

\* What an export publishes: the files are sorted by their kinds, each is registered
\* with its content, and the sessions are of the project.
AsPublished(b) ==
  /\ b.tool \in {"codex", "claude"}
  /\ \A n \in DOMAIN b.sessions :
       /\ b.sessions[n].data \in Files /\ b.sums[n] = b.sessions[n].data
       /\ b.sessions[n].cwd \in {"source", "respelled"}
  /\ \A n \in DOMAIN b.notes : n \notin DOMAIN b.sessions /\ b.sums[n] = b.notes[n].data
  /\ \A n \in DOMAIN b.results :
       n \notin DOMAIN b.sessions \cup DOMAIN b.notes /\ b.sums[n] = b.results[n]
  /\ DOMAIN b.sums = DOMAIN b.sessions \cup DOMAIN b.notes \cup DOMAIN b.results

\* What its manifests say of the contents.
SizedRight(b, n) == b.notes[n].size = Len(b.notes[n].data)

FiledRight(b, n) ==
  Naming(b.sessions[n].data) # {} => b.sessions[n].cwd = Recorded(b.tool, b.sessions[n].data)

ASSUME TransferAssumption ==
  /\ Landing \in [Names -> Names] /\ Folded \in [Names -> Names]
  /\ \A n \in Names : ToolOf(KindOf[n]) = "codex" \/ n \in OwnFolder => Landing[n] = n
  /\ \A agent \in {"codex", "claude"} : \A here \in TargetHomes[agent] :
       \A place \in DOMAIN here : here[place] \in Files
  /\ \A i \in DOMAIN Earlier : \A e \in Earlier[i] :
       /\ e.bundle # NoBundle
       /\ e.options = NoImport =>
            /\ AsPublished(e.bundle) /\ \A place \in DOMAIN e.home : e.home[place] \in Files
            /\ \A n \in DOMAIN e.bundle.notes : SizedRight(e.bundle, n)
            /\ \A n \in DOMAIN e.bundle.sessions : FiledRight(e.bundle, n)
       /\ e.options # NoImport =>
            /\ e.options \in Options /\ \A place \in DOMAIN e.home : e.home[place] \in Files
            /\ \A n \in DOMAIN e.bundle.sessions :
                 e.bundle.sessions[n].at \in {"sessions", "archived"} /\ e.bundle.sessions[n].data \in Files
            /\ \A n \in DOMAIN e.bundle.notes : e.bundle.notes[n].data \in Files

transferVars == <<exportVars, mergeVars, planVars, importVars>>

\* What the published archive holds, as its manifests describe it.
Published ==
  [tool     |-> tool,
   sessions |-> [n \in DOMAIN archive \cap Sessions |->
                   [at |-> archive[n].at, data |-> archive[n].data, cwd |-> CwdOf(n),
                    packed |-> KindOf[n] = "packed"]],
   notes    |-> [n \in DOMAIN noted |-> [size |-> noted[n], data |-> archive[n].data]],
   results  |-> [n \in DOMAIN sums |-> archive[n].data],
   sums     |-> [n \in DOMAIN archive |-> IF n \in DOMAIN sums THEN sums[n] ELSE archive[n].data]]

TransferInit ==
  /\ ExportInit /\ PlanInit /\ ImportInit
  /\ \/ bundle = NoBundle /\ home \in TargetHomes[tool] /\ options = NoImport
     \/ /\ running = FALSE /\ \A n \in Names : tree[n].at = "none"
        /\ \E i \in DOMAIN Earlier : \E e \in Earlier[i] :
             bundle = e.bundle /\ home = e.home /\ options = e.options

Source ==
  /\ bundle = NoBundle /\ ExportNext
  /\ UNCHANGED <<mergeVars, planVars, importVars>>

Download ==
  /\ bundle = NoBundle /\ step = "published"
  /\ bundle' = Published
  /\ UNCHANGED <<exportVars, mergeVars, importVars, home, verdict, entry, items>>

Previewer == options = NoImport /\ PlanNext /\ UNCHANGED <<exportVars, importVars>>

Importer == options # NoImport /\ ImportNext /\ UNCHANGED <<exportVars, mergeVars, entry>>

TransferNext == Source \/ Download \/ Previewer \/ Importer

TransferSpec == TransferInit /\ [][TransferNext]_transferVars

-----------------------------------------------------------------------------
Refusable ==
  \/ \E n \in DOMAIN bundle.sessions :
       \/ ~Unbroken(bundle.sessions[n].data)
       \/ bundle.sessions[n].cwd = "respelled"
       \/ Origin(n) \notin Importable
  \/ Hidden \/ Misnamed \/ Collide
  \/ \E n \in DOMAIN bundle.notes \cap strayed :
       Len(bundle.notes[n].data) # bundle.notes[n].size

\* What Export has published, a preview refuses only for what the source could
\* have known, and does not look at: a session with a broken line, one whose
\* directory is spelled in another way than the project's, one that lies deeper or
\* less deep than the agent keeps them; a memory file that reads as a session; a
\* name that is none on another system, or two that differ in case only; two files
\* that end at one place.  Sizes and hashes taken at one time and contents copied at
\* another never disagree, but for a memory file that was made, changed and removed
\* again between the stamps, in which it leaves no trace.
NeverRefused == verdict = "refused" => Refusable

\* A session that a restore writes belongs to the target's project when the agent
\* here reads it back, or names no directory.  Exceptions are a rollout with several
\* session_meta, of which the last decides where it belongs and the first is the one
\* rewritten, and a session that was made and removed again between the stamps: what
\* was scanned of it need not be what was copied.
BelongsToTarget ==
  verdict = "ready" =>
    \A n \in DOMAIN bundle.sessions \ strayed :
      LET data == bundle.sessions[n].data
          first == {i \in Naming(data) : \A j \in Naming(data) : i <= j}
      IN items[n].action = "import"
           /\ Naming(data) # {} /\ (bundle.tool = "codex" => Naming(data) = first)
         => Recorded(bundle.tool, items[n].after) = "target"

\* End to end: a plan that can be applied leaves the target with every session of
\* the source's project, whole as it was at one moment of the export, at the place
\* it had, or the like one in the project's folder, which is no other's, and with
\* everything that was in the target's own sessions.
RestoresTheMoment ==
  CanApply /\ step = "published" =>
    \A n \in Sessions \cap ProjectOf(moment) : n \notin strayed /\ ParentOf[n] \notin strayed =>
      /\ n \in DOMAIN items /\ Place(n) = <<moment[n].at, Landing[n]>>
      /\ \A m \in DOMAIN items \ {n} : Place(m) # Place(n)
      /\ IsPrefixOf(Canon(Mapped(tool, moment[n].data, "source", "target")), Canon(items[n].after))
      /\ Place(n) \in DOMAIN home => IsPrefixOf(Canon(home[Place(n)]), Canon(items[n].after))
=============================================================================
