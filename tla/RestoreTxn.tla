----------------------------- MODULE RestoreTxn -----------------------------
(***************************************************************************)
(* The local restore transaction of src/internal/relay/engine.go: Preview  *)
(* plans and stages the changes of one snapshot, Apply backs up, journals  *)
(* and writes them file by file, Rollback puts the backups back.  The      *)
(* engine shares the session files with the agent (Codex or Claude), which *)
(* guard() looks for only at the start of an operation, and may be killed  *)
(* between any two file operations.                                        *)
(*                                                                         *)
(* InstanceLock lets one process per data directory run operations, one at *)
(* a time: there is a single program counter.  A content is the sequence   *)
(* of the records of a file and stands for its SHA-256.  Reads of several  *)
(* files that commute with every write to the others (verification, the    *)
(* copying of backups into a private directory) are one step.              *)
(***************************************************************************)
EXTENDS Naturals, Sequences

CONSTANTS
  Files,        \* session files a plan can write
  Extras,       \* those restored only when absent: memory files, tool results
  Contents,     \* the contents a file can have, sequences of records
  Absent,       \* fileHash of a file that does not exist
  Bundles,      \* the snapshots: functions from files to contents
  PreviewIds,   \* preview job ids, which name previews/<id>
  RestoreIds,   \* restore job ids, which name transactions/<id>
  None,         \* no preview, restore or file
  MaxFaults     \* bound on crashes and failed file operations

ASSUME DataAssumption ==
  /\ Extras \subseteq Files
  /\ Absent \notin Contents
  /\ None \notin Files \cup PreviewIds \cup RestoreIds
  /\ \A b \in Bundles : DOMAIN b \subseteq Files /\ \A f \in DOMAIN b : b[f] \in Contents
  /\ MaxFaults \in Nat

VARIABLES
  disk,       \* the session files
  agent,      \* the agent is running
  preview,    \* previews/<id>: nothing, a partial directory, a plan.json
  journal,    \* transactions/<id>: journal.json and the .before copies
  pc,         \* the step the engine is at
  pid, rid,   \* the preview and the transaction it works for
  bundle,     \* the snapshot being previewed
  draft,      \* what PlanStreaming decided, before the files are hashed
  todo,       \* the changes the current loop has still to do
  cur,        \* the file between its check and its verification
  faults,     \* crashes and failed operations so far
  origin,     \* history: the files when the journal of a restore was made
  disturbed   \* history: others have written files of that restore since

locals == <<pid, rid, bundle, draft, todo, cur>>
engine == <<pc, locals>>
history == <<origin, disturbed>>
vars == <<disk, agent, preview, journal, engine, faults, history>>

Stored == Contents \cup {Absent}
Actions == {"import", "update", "skip", "conflict"}
Change == [action : Actions, before : Stored, after : Stored]
Plans == UNION {[S -> Change] : S \in SUBSET Files}
NoPlan == [f \in {} |-> Absent]
Statuses == {"none", "prepared", "done", "rolled_back"}
Steps == {"idle", "plan", "stage", "verify", "prepare", "check", "copy",
          "readback", "guard", "inspect", "undo"}

Extends(longer, shorter) ==
  Len(shorter) < Len(longer) /\ SubSeq(longer, 1, Len(shorter)) = shorter

Mutates(c) == c.action \in {"import", "update"}
Mutated(p) == {f \in DOMAIN p : Mutates(p[f])}
CanApply(p) == \A f \in DOMAIN p : p[f].action # "conflict"

\* Slip: the scan of transactions/ lets a prepared journal pass.
NoPendingIgnored == TRUE

NoPending == \A r \in RestoreIds : journal[r].status # "prepared"

\* Slip: a session that has gone another way is replaced.
DecideOverwrites(f, local, incoming) ==
  CASE local = Absent -> "import"
    [] local # Absent /\ local # incoming /\ f \notin Extras -> "update"
    [] OTHER -> "skip"

(***************************************************************************)
(* The planner: import what is absent, append when the incoming session    *)
(* has grown, leave alone what is equal or ahead, refuse everything else.  *)
(***************************************************************************)
Decide(f, local, incoming) ==
  CASE local = Absent -> "import"
    [] local = incoming -> "skip"
    [] local \notin {Absent, incoming} /\ f \notin Extras /\ Extends(incoming, local) -> "update"
    [] local \notin {Absent, incoming} /\ f \notin Extras /\ Extends(local, incoming) -> "skip"
    [] OTHER -> "conflict"

Init ==
  /\ disk \in [Files -> Stored]
  /\ agent = FALSE
  /\ preview = [p \in PreviewIds |-> [state |-> "none", plan |-> NoPlan]]
  /\ journal = [r \in RestoreIds |->
                 [status |-> "none", plan |-> NoPlan, backup |-> [f \in Files |-> Absent]]]
  /\ pc = "idle"
  /\ pid = None /\ rid = None /\ cur = None
  /\ bundle = NoPlan /\ draft = NoPlan /\ todo = {}
  /\ faults = 0
  /\ origin = [r \in RestoreIds |-> [f \in Files |-> Absent]]
  /\ disturbed = [r \in RestoreIds |-> FALSE]

\* An operation is over, with or without an error: its locals are gone.
Return ==
  /\ pc' = "idle"
  /\ pid' = None /\ rid' = None /\ cur' = None
  /\ bundle' = NoPlan /\ draft' = NoPlan /\ todo' = {}

Goto(step) == pc' = step

-----------------------------------------------------------------------------
(* Preview.                                                                *)

PreviewBegin(p, b) ==
  /\ pc = "idle" /\ ~agent /\ NoPending
  /\ preview[p].state = "none"
  /\ preview' = [preview EXCEPT ![p].state = "partial"]
  /\ pc' = "plan" /\ pid' = p /\ bundle' = b
  /\ UNCHANGED <<disk, agent, journal, rid, draft, todo, cur, faults, history>>

\* PlanStreaming reads the local files, decides and writes merged contents.
PlanStreaming ==
  /\ pc = "plan"
  /\ draft' = [f \in DOMAIN bundle |->
                [action |-> Decide(f, disk[f], bundle[f]), before |-> Absent,
                 after |-> bundle[f]]]
  /\ pc' = "stage"
  /\ UNCHANGED <<disk, agent, preview, journal, pid, rid, bundle, todo, cur, faults, history>>

\* stage() hashes the local files again, then plan.json is written.
Staged(d) ==
  [f \in DOMAIN d |->
     [action |-> d[f].action, before |-> disk[f],
      after |-> IF Mutates(d[f]) THEN d[f].after ELSE disk[f]]]

StagePlan ==
  /\ pc = "stage"
  /\ preview' = [preview EXCEPT ![pid] = [state |-> "saved", plan |-> Staged(draft)]]
  /\ Return
  /\ UNCHANGED <<disk, agent, journal, faults, history>>

-----------------------------------------------------------------------------
(* Apply.                                                                  *)

ApplyBegin(p, r) ==
  /\ pc = "idle" /\ ~agent /\ NoPending
  /\ preview[p].state = "saved" /\ CanApply(preview[p].plan)
  /\ pc' = "verify" /\ pid' = p /\ rid' = r
  /\ UNCHANGED <<disk, agent, preview, journal, bundle, draft, todo, cur, faults, history>>

Unchanged(p) == \A f \in DOMAIN p : disk[f] = p[f].before

\* Slip: an existing transactions/<id> is replaced.
ApplyVerifyAgain ==
  /\ pc = "verify"
  /\ IF Unchanged(preview[pid].plan) THEN Goto("prepare") /\ UNCHANGED locals ELSE Return
  /\ UNCHANGED <<disk, agent, preview, journal, faults, history>>

ApplyVerify ==
  /\ pc = "verify"
  /\ IF Unchanged(preview[pid].plan) /\ journal[rid].status = "none"
       THEN Goto("prepare") /\ UNCHANGED locals
       ELSE Return
  /\ UNCHANGED <<disk, agent, preview, journal, faults, history>>

\* Slip: files that are appended to are not backed up.
BackedUpImports(p) == {f \in DOMAIN p : p[f].action = "import" /\ p[f].before # Absent}

\* The files Apply keeps a .before copy of.
BackedUp(p) == {f \in Mutated(p) : p[f].before # Absent}

\* Backups and journal.json are made aside and appear with one rename.
ApplyPrepare ==
  LET p == preview[pid].plan IN
  /\ pc = "prepare"
  /\ journal' = [journal EXCEPT ![rid] =
       [status |-> "prepared", plan |-> p,
        backup |-> [f \in Files |-> IF f \in BackedUp(p) THEN disk[f] ELSE Absent]]]
  /\ todo' = Mutated(p)
  /\ pc' = "check"
  /\ origin' = [origin EXCEPT ![rid] = disk]
  /\ UNCHANGED <<disk, agent, preview, pid, rid, bundle, draft, cur, faults, disturbed>>

\* The loop follows the order of the plan, which the bundle determines.
CheckTarget(f) ==
  /\ pc = "check" /\ f \in todo
  /\ cur' = f
  /\ pc' = IF disk[f] = journal[rid].plan[f].before THEN "copy" ELSE "guard"
  /\ UNCHANGED <<disk, agent, preview, journal, pid, rid, bundle, draft, todo, faults, history>>

Disturb(r, f) ==
  [s \in RestoreIds |->
     disturbed[s] \/ (s # r /\ journal[s].status # "none" /\ f \in Mutated(journal[s].plan))]

CopyTarget ==
  /\ pc = "copy"
  /\ disk' = [disk EXCEPT ![cur] = journal[rid].plan[cur].after]
  /\ disturbed' = Disturb(rid, cur)
  /\ pc' = "readback"
  /\ UNCHANGED <<agent, preview, journal, pid, rid, bundle, draft, todo, cur, faults, origin>>

ReadBack ==
  /\ pc = "readback"
  /\ IF disk[cur] = journal[rid].plan[cur].after
       THEN Goto("check") /\ todo' = todo \ {cur}
       ELSE Goto("guard") /\ UNCHANGED todo
  /\ UNCHANGED <<disk, agent, preview, journal, pid, rid, bundle, draft, cur, faults, history>>

ApplyDone ==
  /\ pc = "check" /\ todo = {}
  /\ journal' = [journal EXCEPT ![rid].status = "done"]
  /\ Return
  /\ UNCHANGED <<disk, agent, preview, faults, history>>

-----------------------------------------------------------------------------
(* Rollback: asked for, or called by an Apply that failed.                 *)

RollbackBegin(r) ==
  /\ pc = "idle"
  /\ journal[r].status \in {"prepared", "done"}
  /\ pc' = "guard" /\ rid' = r
  /\ UNCHANGED <<disk, agent, preview, journal, pid, bundle, draft, todo, cur, faults, history>>

RollbackGuard ==
  /\ pc = "guard"
  /\ IF agent THEN Return ELSE Goto("inspect") /\ UNCHANGED locals
  /\ UNCHANGED <<disk, agent, preview, journal, faults, history>>

\* Slip: only fully restored files may be rolled back.
RestorableWhenApplied(r, f) ==
  LET c == journal[r].plan[f] IN
  /\ disk[f] = c.after
  /\ c.before # Absent => journal[r].backup[f] = c.before

\* What the first loop demands of every mutated file before anything is written.
Restorable(r, f) ==
  LET c == journal[r].plan[f] IN
  /\ disk[f] \in {c.after, c.before}
  /\ c.before # Absent => journal[r].backup[f] = c.before

RollbackInspect ==
  LET p == journal[rid].plan IN
  /\ pc = "inspect"
  /\ IF \A f \in Mutated(p) : Restorable(rid, f)
       THEN Goto("undo") /\ todo' = Mutated(p) /\ UNCHANGED <<pid, rid, bundle, draft, cur>>
       ELSE Return
  /\ UNCHANGED <<disk, agent, preview, journal, faults, history>>

\* Slip: files the restore created are left in place.
UndoFileKeepsNew(f) ==
  /\ pc = "undo" /\ f \in todo
  /\ disk' = IF journal[rid].plan[f].before = Absent THEN disk
               ELSE [disk EXCEPT ![f] = journal[rid].backup[f]]
  /\ disturbed' = Disturb(rid, f)
  /\ todo' = todo \ {f}
  /\ UNCHANGED <<agent, preview, journal, pc, pid, rid, bundle, draft, cur, faults, origin>>

\* The second loop removes what was absent and copies back the rest.
UndoFile(f) ==
  /\ pc = "undo" /\ f \in todo
  /\ disk' = [disk EXCEPT ![f] = IF journal[rid].plan[f].before = Absent
                                   THEN Absent ELSE journal[rid].backup[f]]
  /\ disturbed' = Disturb(rid, f)
  /\ todo' = todo \ {f}
  /\ UNCHANGED <<agent, preview, journal, pc, pid, rid, bundle, draft, cur, faults, origin>>

\* Slip: the journal is marked rolled back after the first file.
RollbackDoneEarly ==
  /\ pc = "undo"
  /\ journal' = [journal EXCEPT ![rid].status = "rolled_back"]
  /\ Return
  /\ UNCHANGED <<disk, agent, preview, faults, history>>

RollbackDone ==
  /\ pc = "undo" /\ todo = {}
  /\ journal' = [journal EXCEPT ![rid].status = "rolled_back"]
  /\ Return
  /\ UNCHANGED <<disk, agent, preview, faults, history>>

-----------------------------------------------------------------------------
(* The environment.                                                        *)

\* A file operation fails: the deferred RemoveAll drops a preview directory,
\* an error in the apply loop starts the automatic rollback, every other
\* error returns, leaving the journal as it is.
OperationFails ==
  /\ pc \in Steps \ {"idle"} /\ faults < MaxFaults
  /\ faults' = faults + 1
  /\ preview' = IF pc \in {"plan", "stage"}
                  THEN [preview EXCEPT ![pid].state = "none"] ELSE preview
  /\ IF pc \in {"copy", "readback"} \/ (pc = "check" /\ todo # {})
       THEN Goto("guard") /\ UNCHANGED locals
       ELSE Return
  /\ UNCHANGED <<disk, agent, journal, history>>

\* The process is killed; what is on disk stays.
Crash ==
  /\ pc # "idle" /\ faults < MaxFaults
  /\ faults' = faults + 1
  /\ Return
  /\ UNCHANGED <<disk, agent, preview, journal, history>>

AgentStart == ~agent /\ agent' = TRUE /\ UNCHANGED <<disk, preview, journal, engine, faults, history>>
AgentStop == agent /\ agent' = FALSE /\ UNCHANGED <<disk, preview, journal, engine, faults, history>>

\* The agent creates a session, appends to it, or deletes it.
AgentWrite(f, c) ==
  /\ agent
  /\ CASE c = Absent -> disk[f] # Absent
       [] disk[f] = Absent -> c \in Contents
       [] OTHER -> Extends(c, disk[f])
  /\ disk' = [disk EXCEPT ![f] = c]
  /\ disturbed' = [r \in RestoreIds |->
       disturbed[r] \/ (journal[r].status # "none" /\ f \in Mutated(journal[r].plan))]
  /\ UNCHANGED <<agent, preview, journal, engine, faults, origin>>

-----------------------------------------------------------------------------
Preview ==
  \/ \E p \in PreviewIds, b \in Bundles : PreviewBegin(p, b)
  \/ PlanStreaming
  \/ StagePlan

Apply ==
  \/ \E p \in PreviewIds, r \in RestoreIds : ApplyBegin(p, r)
  \/ ApplyVerify
  \/ ApplyPrepare
  \/ \E f \in Files : CheckTarget(f)
  \/ CopyTarget
  \/ ReadBack
  \/ ApplyDone

RollbackSteps ==
  \/ RollbackGuard
  \/ RollbackInspect
  \/ \E f \in Files : UndoFile(f)
  \/ RollbackDone

Rollback == RollbackSteps \/ \E r \in RestoreIds : RollbackBegin(r)

Environment ==
  \/ OperationFails
  \/ Crash
  \/ AgentStart
  \/ AgentStop
  \/ \E f \in Files, c \in Stored : AgentWrite(f, c)

Next == Preview \/ Apply \/ Rollback \/ Environment

Spec == Init /\ [][Next]_vars

(***************************************************************************)
(* Calm use: the agent is not started while the engine works, a rollback   *)
(* of a finished restore is neither interrupted nor asked for while        *)
(* another restore is unfinished.  The code checks none of the three; the  *)
(* all-or-nothing promise holds under them and fails without.              *)
(***************************************************************************)
Undoing(r) == pc = "undo" /\ rid = r

CalmStep ==
  /\ (~agent /\ agent') => pc = "idle"
  /\ \A r \in RestoreIds :
       /\ Undoing(r) /\ journal[r].status = "done" /\ pc' = "idle"
            => journal'[r].status = "rolled_back"
       /\ pc = "idle" /\ pc' = "guard" /\ rid' = r /\ journal[r].status = "done"
            => NoPending

CalmSpec == Init /\ [][Next /\ CalmStep]_vars

-----------------------------------------------------------------------------
\* The values of the engine's data, and which of its locals mean something at
\* which step of Preview, Apply and Rollback.
TypeOK ==
  /\ disk \in [Files -> Stored]
  /\ agent \in BOOLEAN
  /\ preview \in [PreviewIds -> [state : {"none", "partial", "saved"}, plan : Plans]]
  /\ journal \in [RestoreIds -> [status : Statuses, plan : Plans, backup : [Files -> Stored]]]
  /\ pc \in Steps
  /\ pid \in IF pc \in {"plan", "stage", "verify", "prepare"}
               THEN PreviewIds ELSE PreviewIds \cup {None}
  /\ rid \in IF pc \in {"idle", "plan", "stage"} THEN {None} ELSE RestoreIds
  /\ bundle \in Bundles \cup {NoPlan}
  /\ draft \in Plans
  /\ todo \subseteq Files
  /\ cur \in IF pc \in {"copy", "readback"} THEN Files ELSE Files \cup {None}
  /\ faults \in 0..MaxFaults
  /\ origin \in [RestoreIds -> [Files -> Stored]]
  /\ disturbed \in [RestoreIds -> BOOLEAN]

\* What the local variables mean at each step: the inductive strengthening of
\* OneUnfinished and of the type invariant.
Working ==
  /\ pc \in {"verify", "prepare"} => NoPending
  /\ pc = "prepare" => journal[rid].status = "none"
  /\ pc \in {"check", "copy", "readback"} => journal[rid].status = "prepared"
  /\ pc \in {"guard", "inspect", "undo"} => journal[rid].status \in {"prepared", "done"}
  /\ pc \in {"check", "copy", "readback", "undo"} => todo \subseteq Mutated(journal[rid].plan)
  /\ pc \in {"copy", "readback"} => cur \in todo
  /\ pc = "undo" => \A f \in BackedUp(journal[rid].plan) :
                      journal[rid].backup[f] = journal[rid].plan[f].before

(***************************************************************************)
(* Safety whatever the agent does and wherever the process is killed.      *)
(***************************************************************************)

\* noPending(): "an interrupted restore blocks further writing": two restores
\* are never unfinished together, however Apply, Rollback and crashes mix.
OneUnfinished ==
  \A r, s \in RestoreIds :
    journal[r].status = "prepared" /\ journal[s].status = "prepared" => r = s

\* A transaction id runs once: its journal only moves prepared -> done ->
\* rolled_back or prepared -> rolled_back, over one plan and one set of backups.
JournalLifecycle ==
  [][\A r \in RestoreIds :
       journal'[r] # journal[r] =>
         /\ <<journal[r].status, journal'[r].status>> \in
              {<<"none", "prepared">>, <<"prepared", "done">>,
               <<"prepared", "rolled_back">>, <<"done", "rolled_back">>}
         /\ journal[r].status # "none" =>
              /\ journal'[r].plan = journal[r].plan
              /\ journal'[r].backup = journal[r].backup]_vars

(***************************************************************************)
(* Safety in calm use.                                                     *)
(***************************************************************************)

\* From the rename of the journal on, the backups hold what the files held
\* then, and a file of an unfinished restore nobody else wrote is still its
\* old or its new content: rollback() will accept it after any crash.
Recoverable ==
  \A r \in RestoreIds :
    journal[r].status # "none" =>
      \A f \in Mutated(journal[r].plan) :
        /\ journal[r].plan[f].before = origin[r][f]
        /\ origin[r][f] # Absent => journal[r].backup[f] = origin[r][f]
        /\ journal[r].status = "prepared" /\ ~disturbed[r] => Restorable(r, f)

\* A restore that reports done has every file of its plan in place, and keeps
\* them until its own rollback: files are not half restored.
DoneIsComplete ==
  \A r \in RestoreIds :
    journal[r].status = "done" /\ ~disturbed[r] /\ ~Undoing(r) =>
      \A f \in Mutated(journal[r].plan) : disk[f] = journal[r].plan[f].after

\* A rollback that reports success has put every file back exactly as it was
\* when the restore began, whatever was interrupted in between.
RolledBackIsExact ==
  [][\A r \in RestoreIds :
       journal[r].status # "rolled_back" /\ journal'[r].status = "rolled_back" =>
         \A f \in Mutated(journal[r].plan) : disk'[f] = origin[r][f]]_vars

\* The steps at which the engine writes session files.
Copying == pc = "copy" /\ pc' = "readback"
Restoring == pc = "undo" /\ todo' # todo /\ pc' = "undo"

\* The engine never destroys local records it has no copy of: what Apply
\* overwrites is a prefix of what it writes, what Rollback overwrites came from
\* the restore it undoes.
NothingLost ==
  [][\A f \in Files :
       disk'[f] # disk[f] =>
         /\ Copying => disk[f] = Absent \/ Extends(disk'[f], disk[f])
         /\ Restoring => disk[f] = journal[rid].plan[f].after]_vars

\* What makes the four inductive: where each file stands at each step.
OnlyAppends(p) ==
  \A f \in Mutated(p) : p[f].before = Absent \/ Extends(p[f].after, p[f].before)

CalmPlans ==
  /\ pc = "stage" => \A f \in DOMAIN draft : draft[f].action = Decide(f, disk[f], draft[f].after)
  /\ \A p \in PreviewIds : OnlyAppends(preview[p].plan)
  /\ \A r \in RestoreIds : OnlyAppends(journal[r].plan)

CalmFiles ==
  /\ pc \notin {"idle", "guard"} => ~agent
  /\ \A r \in RestoreIds : journal[r].status = "none" => ~disturbed[r]
  /\ pc = "prepare" => Unchanged(preview[pid].plan)
  /\ pc \in {"check", "copy", "readback"} =>
       \A f \in Mutated(journal[rid].plan) :
         IF f \in todo /\ ~(pc = "readback" /\ f = cur)
           THEN disk[f] = journal[rid].plan[f].before
           ELSE disk[f] = journal[rid].plan[f].after
  /\ pc = "undo" =>
       \A f \in Mutated(journal[rid].plan) :
         IF f \in todo
           THEN disk[f] \in {journal[rid].plan[f].before, journal[rid].plan[f].after}
           ELSE disk[f] = journal[rid].plan[f].before

(***************************************************************************)
(* In calm use the engine implements AtomicRestore.  A file an unfinished  *)
(* restore has written still counts as its old content, one a rollback has *)
(* put back as its restored content until the rollback is complete.        *)
(***************************************************************************)
Shown(f) ==
  LET Masked == {r \in RestoreIds : /\ f \in Mutated(journal[r].plan)
                                    /\ journal[r].status = "prepared"
                                    /\ disk[f] = journal[r].plan[f].after}
      Kept == {r \in RestoreIds : /\ f \in Mutated(journal[r].plan)
                                  /\ journal[r].status = "done"
                                  /\ Undoing(r) /\ ~disturbed[r]}
  IN CASE Masked # {} -> journal[CHOOSE r \in Masked : TRUE].plan[f].before
       [] Masked = {} /\ Kept # {} -> journal[CHOOSE r \in Kept : TRUE].plan[f].after
       [] OTHER -> disk[f]

View == [f \in Files |-> Shown(f)]

Phase(r) ==
  CASE journal[r].status = "none" -> "none"
    [] journal[r].status = "prepared" -> "open"
    [] journal[r].status = "done" -> "applied"
    [] journal[r].status = "rolled_back" -> "undone"

Atomic == INSTANCE AtomicRestore WITH
  content <- View,
  phase <- [r \in RestoreIds |-> Phase(r)],
  plan <- [r \in RestoreIds |-> journal[r].plan]

\* A restore is all or nothing to everyone but the engine, through crashes,
\* failed writes and repeated rollbacks.
AllOrNothing == Atomic!Spec

(***************************************************************************)
(* What the documentation promises and the code keeps only in calm use.    *)
(***************************************************************************)

\* README: an interrupted restore blocks further writing and must be rolled
\* back first.  Rollback of another restore does not look for it.
InterruptedBlocksWrites ==
  [][\A r \in RestoreIds :
       journal[r].status = "prepared" /\ disk' # disk /\ (Copying \/ Restoring)
         => rid = r]_vars

\* README: a changed target requires a new preview, and restoring only appends.
\* A session the agent writes between PlanStreaming and the hash of stage() is
\* taken as the accepted old content, its new records not being in the new one.
PlansOnlyAppend == \A p \in PreviewIds : OnlyAppends(preview[p].plan)

(***************************************************************************)
(* Progress.  The client runs every job it claims to its end; the operator *)
(* closes the agent, as guard() asks, and keeps asking for the rollback of *)
(* an interrupted restore at times when the agent is closed.               *)
(***************************************************************************)
Fairness ==
  /\ WF_vars((PlanStreaming \/ StagePlan) /\ CalmStep)
  /\ WF_vars((Apply \/ RollbackSteps) /\ pc # "idle" /\ CalmStep)
  /\ WF_vars(AgentStop)
  /\ \A r \in RestoreIds : SF_vars(RollbackBegin(r) /\ ~agent /\ CalmStep)

FairCalmSpec == CalmSpec /\ Fairness

\* An interrupted restore that nobody else has disturbed is eventually resolved.
InterruptedIsResolved ==
  \A r \in RestoreIds :
    journal[r].status = "prepared" ~> journal[r].status # "prepared" \/ disturbed[r]
=============================================================================
