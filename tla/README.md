# Verification of Session Relay

Session Relay moves Codex and Claude Code sessions between machines. A relay
server keeps snapshots of sessions and queues jobs for its devices; a client on
each device exports sessions, previews what a snapshot would change, restores
it and rolls a restore back; after a restore of Codex sessions, Codex itself is
asked to take notice. This directory holds TLA+ models of that code, TLC
configurations that check them on small instances, and proofs checked by TLAPS.

`PROJECT.json` lists components, runs, hazards, theorems, the source lines each
definition stands for, and for every property a small mutation of the model
(written beside the definition as a "Slip") under which the property fails.

    tlc -config RestoreCalm.cfg MCRestoreTxn        # check a run
    tlapm RestoreTxnProofs.tla                      # check a module's proofs

## 1. Inventory

| Component | Source | State | Operations | What is hard |
|---|---|---|---|---|
| Restore engine | `internal/relay/engine.go` | session files; `previews/<id>`, `transactions/<id>` | Preview, Apply, Rollback | files are written one by one; the process may die anywhere; the agent writes the same files; plans age |
| Job table | `internal/relay/server.go` 35-66, 280-558 | `jobs`, in memory and in `state.json` | create, cancel, claim, result, heartbeat, restart | a failed write keeps the change in memory; a restart goes back |
| Snapshots | `server.go` 559-680, `retention.go` | snapshot records, archives in `bundles/`, upload slots | upload, download, delete, cleanup | uploads hold the lock twice, not throughout; record and archive change one after the other |
| Project bindings | `bindings.go` | `bindings`, in `state.json` | bind, bind by preview, unbind | a map in no fixed order decides; roles may be swapped |
| Client loop | `client.go` | `results/<job>.json`, the pending job | recover, claim, execute, post | lost and late answers, crashes of either side, results posted again |
| Session export | `relay/archive.go` 191-415, `internal/bundle/export.go` | the agent's home, the archive | Export | every file is read up to four times, nothing is locked, and the agent comes to life after it was looked for |
| Session files | `internal/sessions`, `internal/claudesessions`, `bundle/mapcwd.go`, `bundle/claude_rewrite.go` | | scan, map to another directory | which of several records says where a session belongs; lines cut off |
| Preview plan | `internal/bundle/stream.go` 183-441, `engine.go` 113-358, `memory.go` | bundle, home, planned items | PlanStreaming | one entry after the other; whatever Export has published should be accepted |
| Session merge | `stream.go` 127-181, `mergesync.go` | two files, the merged output | mergeStreams, planMerge | lines cut off, missing terminators, other serializations, size limit |
| Bundle import | `internal/bundle/import.go`, `copysession.go` | bundle, home, backups | Import (upstream command line) | a chain of decisions under many options; breaks off; the agent is not looked for |
| Codex reconcile | `internal/codexreconcile/reconcile.go` | a child process, its two pipes, the thread list | initialize, list, read, verify, close | lines that are not answers, hangs, paging, another home, fallback |
| SSH tunnel | `relay/tunnel.go` | child process, its health | ensure, watch, close | reuse and respawn |
| Project mappings | `relay/projects.go`, heartbeat in `client.go` | `project-mappings.json`, the table in memory, the client's copy, the server's list | Inventory, PrepareImport, heartbeat | four lists that are made at different times; discovery against saved mappings; limits |
| Login | `server.go` 196-230 | counters per minute | login | window boundaries |
| Homes, hand-off, search, page, command line | several | none that is shared | parsing, paths, presentation | data, not control |

Interactions. The server runs its handlers under one mutex; the client reaches
it by HTTP, over an SSH tunnel. The engine runs inside the client, one
operation at a time (`InstanceLock`), and shares the session files with the
agent, which has no lock it could take. The snapshot handlers look at the job
table and bindings at a finished preview, and the three are written to
`state.json` together. The engine calls the merge for every session that exists
on both sides. Two devices share nothing but the bytes of a snapshot, which the
server keeps and whose hash the target checks.

What makes each correct:

- engine: a restore happens wholly or not at all, can be undone exactly, and
  destroys no record it has no copy of; at most one restore is unfinished;
- jobs: one active job a device, restores only on applicable previews, statuses
  and results that only move forward;
- snapshots: nothing is evicted that a preview needs or before it was used,
  records agree with archives, the quota holds, temporary snapshots go in the end;
- bindings: one counterpart on each other device, an answer that does not depend
  on the order of a map, and nothing lost by failed writes;
- client and server together: a job runs at most once, what is reported is what
  happened, everything queued is settled;
- export: what is published is the project as it was at one moment, although it was
  read file by file;
- preview: what was published is accepted, a restored session belongs to the
  target's project, and what a plan leaves is that moment merged with what was there;
- merge: local bytes are kept, the decision is that of the whole files, and
  exchanging merged sessions converges;
- import: what it has read of a local file is never lost, wherever it breaks off;
- mappings: a directory has one project and a key one directory, whichever of import, discovery
  and restart came first; what a plan was made for stays where it is; the server learns of it;
- reconcile: success means that Codex really knows the threads; it always
  returns and leaves no process behind.

## 2. Modules

| Module | What it is | Extends |
|---|---|---|
| `RestoreTxn` | the engine, step by step, with agent and crashes | |
| `AtomicRestore` | what a restore promises: files change together | |
| `RestoreTxnProofs` | theorems about `RestoreTxn`, and that it implements `AtomicRestore` | `RestoreTxn` |
| `RelayJobs` | the job table | |
| `RelayJobsProofs` | theorems about it | `RelayJobs` |
| `RelayBindings` | bindings over the job table | `RelayJobs` |
| `RelayBindingsProofs` | theorems, and that it implements `RelayJobs` | both |
| `RelayRetention` | snapshots and uploads over the job table | `RelayJobs` |
| `RelayRetentionProofs` | theorems about it | `RelayRetention`, `RelayJobsProofs` |
| `RelayDelivery` | client, network and job table | `RelayJobs` |
| `RelayDeliveryProofs` | theorems about it | `RelayDelivery`, `RelayJobsProofs` |
| `SessionFiles` | session files: directories, mapping, comparison | |
| `StreamMerge` | the merge of two sessions | `SessionFiles` |
| `SessionExport` | the export of a project while the agent works | `SessionFiles` |
| `SnapshotBundle` | a bundle on the device that restores it | `SessionFiles` |
| `PreviewPlan` | the plan of a preview, entry by entry | `StreamMerge`, `SnapshotBundle` |
| `BundleImport` | the planner on whole files, and its writes | `SnapshotBundle` |
| `SessionTransfer` | a snapshot from one device to another | the last two and `SessionExport` |
| `SessionTransferProofs` | theorems about merge, import, export and the transfer | `SessionTransfer` |
| `ProjectMappings` | the projects of a device and how the server learns of them | |
| `ProjectMappingsProofs` | theorems about it | `ProjectMappings` |
| `CodexReconcile` | the dialogue with the app-server | |
| `CodexReconcileProofs` | theorems about it | `CodexReconcile` |
| `MC...` | model values for TLC | |

### RestoreTxn

A content is a sequence of records and stands for its SHA-256. `disk` is the
session files, `preview` the directories `previews/<id>`, `journal` the
directories `transactions/<id>` with their `.before` copies. `pc` is the place
the engine is at, `pid`, `rid`, `bundle`, `draft`, `todo` and `cur` its locals,
lost when it returns or dies.

Preview is `PreviewBegin`, with all the checks of the snapshot that can only refuse
it, `PlanStreaming` (reads the files and decides), and
`StagePlan` (hashes them *again*, writes `plan.json`). Apply is `ApplyBegin`,
`ApplyVerify` (all files still as planned), `ApplyPrepare` (backups and journal
appear with one rename), then for each file `CheckTarget`, `CopyTarget` and
`ReadBack`, then `ApplyDone`. A file that fails goes to the rollback, as
`Apply` calls it in the code. Rollback is `RollbackBegin`, `RollbackGuard`
(agent closed?), `RollbackInspect` (the first loop: every file old or new and
every backup intact), `UndoFile` for each file and `RollbackDone`.
`OperationFails` is a failed file operation anywhere, with what the `defer`s do;
`Crash` a kill anywhere. `AgentStart`, `AgentStop` and `AgentWrite` are Codex or
Claude: creating, appending, deleting.

Files are read together where the reads commute with every write to the other
files. `origin` and `disturbed` are history variables: what the files held when
a journal was made, and whether somebody else has written them since.

`CalmSpec` restricts the steps in three ways the code does not enforce: the
agent does not start during an operation, and a rollback of a *finished* restore
is neither interrupted nor begun while another restore is unfinished. Without
them the properties checked under it fail; the findings below say how.

### RelayJobs, RelayBindings, RelayRetention

A handler is one step, since handlers hold the mutex from their checks to the
write of `state.json`. `jobs` is the table in memory, `saved` the one in the
file. `Save` writes it or fails (bounded by `MaxFaults`), and then the change
stays in memory only, as in the code; `Restart` goes back to the file and fails
what was running. `RelayBindings` adds the bindings: `Verdict` is what one entry
says of a request, `Answers` the set of answers the loop over the map can give,
depending on which deciding entry comes first. A bind whose write fails *is* taken
back in memory. `RelayRetention` adds the snapshots: an upload is `UploadBegin` and
`UploadCommit` (or `UploadAbort`), two locked halves with any other handler in
between; `Purge` removes the archive and then the record; `sweep` is what
`cleanupLocked` has left to visit, in any order, and no other handler runs until
it is empty. Archives are counted, each as one unit of the quota. `damaged` marks
records that a restart separated from their archives.

### RelayDelivery

One client and the job table. `pc` follows `Run`: the first heartbeat (`greeting`), repeated until
it is accepted, recovery of what an earlier run left (`checking`, `recovering`), then rounds of
posting what is pending, a heartbeat (`beating`), and a claim only if that was accepted and
nothing is pending, and running. An accepted heartbeat has written the whole state of the
server (`server.go:485`), including what an earlier failed write left in memory only; `Beat` is any other
request that does. A request is either
served (`ServeRequest`) and answered, or given up by the client (`Timeout`,
`ClientCrash`, `ServerRestart`), and then lost or kept in `stale`, from where the server may
serve it at any later time. `results` survives a crash of the client. What `execute`
does is one step with an outcome, that of `RestoreTxn` being the one that matters.

### SessionFiles, StreamMerge

A record is a text and whether it ends with a newline, `CanonOf` is
`canonicalJSONLLine`, `Cut` tells which text is a proper byte prefix of which, so
that a file may end in the middle of a line, and `Broken` which texts are not JSON.
`CwdIn` is the directory a text names, `WithCwd` the text with another one. A project
has its directory as it spells it, a session may spell it in another way (`pathEqual`
folds case on Windows), the target has its own, and a session may name any other:
`Cwds`. `RewritingAssumption` says what the rewriting of one record does: a record that names
a directory then names the new one, comes back as it was, and two spellings of one record stay
one. `RolloutCwd` and
`TranscriptCwd` are what the two scanners make of a file, `MappedRollout` and
`MappedTranscript` what the two rewriters do; that these four do not agree for every
file is the point of `BelongsToTarget`.

`StreamMerge` reads one record of each file at a time, as `mergeStreams` does.
`Reference` is the decision on whole sequences, `PlanMerge` the other planner of the
code base, by bytes first.

### SessionExport

`tree` is the home of the agent: for each file its directory, content and time of change.
`step` is the phase of `Engine.Export`: `before` (first stamps), `scan`, `copy`, and for
Claude `memory`, `remember`, `extras`, `pack`, then `after` (second stamps). A pass lists
a directory (`List`) and visits one file at a time, in the order of the names; Codex's
passes go on in a second directory. A visit needs the file where it was listed, else the
export ends (`ExportFails`, which may also happen at any other time). `AgentWrites`,
`AgentCreates`, `AgentRemoves` and `AgentMoves` may come between any two of these steps.
`found`, `noted` and `sums` are what the passes have noted, `archive` what has been
copied. What goes with a transcript, its subagents and results, is looked for only in the
folder spelled like the project (`GoesWith`); a session of the project may lie in another one, as Claude
files it by the directory it was begun in, and is found by the scan wherever it is.
`moment` is the home as the second stamp began and `strayed` the files that were
moved or removed: both are history, no step depends on them.

`treeStamp` takes the size and time of each file. The model gives each write a time of its
own, that is, it trusts the file system's clock to tell two writes apart; moving a file keeps
its time, as `rename` does.

### SnapshotBundle, PreviewPlan

`bundle` is the archive as its manifests describe it, with the content every checksum was
taken of; `home` the sessions here by place; `items` what is planned for each entry.
`PreviewOpens` is all that Preview checks before planning: `Verified` is the checksums and
that nothing unregistered is there, `Foreign` that the sessions name the project's directory,
`Misnamed` that names are possible on every system and differ in lower case, `Hidden` that no memory
file reads as a session. `Unacceptable` is what refuses one entry, such as a session at a depth the agent
does not use (`Importable`), and `Collide` that two entries go to one place, which
is seen at the end. `Place` puts a Claude session into the project's folder under the name it had
(`Landing`), whichever folder it came from. All of these are refusals that depend on the
snapshot alone; limits of size and number, links, and a file system that folds case are `PreviewFails`.
Sessions are then planned one at a time: `SessionNew`, or `SessionMerges` with the steps
of `StreamMerge` and `SessionDecided`; then memory, then results. `EntryRefused` is what
ends a plan for good, `PreviewFails` what may end it for outside reasons. Nothing of `home`
changes: Apply is in `RestoreTxn`, where the plan is one step.

### BundleImport

`Import` decides about every entry (`SessionResolved`, `NoteResolved`) and then writes:
`BackUp` if `SetAside`, then `Write`, file by file, breaking off anywhere. `Options` has
those options that change what is here; `Selections` is what the filters may leave.
`NoteResolved` writes a new memory file while it plans, as `importMemoryEntry` does.
`Dest` is where an entry goes, its own place or, mapped, that in the target's folder. `LocalGrows` is the agent, which Import does not look for. `looked` is history: each local
file as the import last read it.

### SessionTransfer

The composition: `Source` exports, `Download` hands what was `Published` to the target,
`Previewer` plans. Instead of an export a behaviour may begin with a snapshot of an
`Earlier` time, which is previewed, or, with options, imported; that is how all pairs of
files get to the merge, and how a damaged archive gets to the checks of an import. One that
is previewed has come from the server, whose bytes are those of an export:
`TransferAssumption` asks of it what `PublishedWell` proves of everything that
`Published` is, that each entry has the content it is registered with, the size and the
directory its manifest says. An imported one may be anything with files in it.

### ProjectMappings

`table` is `Engine.Config.Projects`, `shown` the copy of it the client's heartbeats send,
`saved` the mappings file and `server` what the server lists. `pc` is where `Run` is: `started`
(nothing scanned yet), `waiting` for the first answer, `listed` (an inventory was just made), `beat`,
`claims`, and `due` after a job. `Refresh` is `refreshInventory` with `loadMappings`
and the scans of both stores, one after the other; which directories they find is an input (`Finds`),
bounded only by what `Inventory` skips. `RefreshUnread` is the same when the mappings cannot be read:
`Inventory` notes a row and goes on. `NewProject` is `PrepareImport` with the Preview behind it;
`NewProjectFails` breaks off before the file is written. A key is modelled by what is hashed to make it,
so that two keys are equal exactly when their hashes are meant to be: `ImportKey` folds case
everywhere, `PathKey` on Windows only. `plans` and `missed` are history.

### CodexReconcile

`requests` and `lines` are the child's pipes. A cursor is the set of threads still to
be listed. The server can answer (`Serve`), print something else (`Stray`), answer
wrongly (`ServeBadly`), exit (`Exits`) or do nothing. The client's actions are the
places `Reconcile` and `call` can be at when a line or the end of the output comes. The
deadline signals the child; a signalled child dies some time later. The app-server's
index only grows during the dialogue, it never lists threads it does not know, and it
names the home it has really opened; beyond that nothing is assumed of it in the
safety properties but where `honest` is mentioned.

## 3. Runs

| Run | Module, configuration | Checks |
|---|---|---|
| `restore_calm` | `MCRestoreTxn`, `RestoreCalm` | `OneUnfinished`, `JournalLifecycle`, `Recoverable`, `RolledBackIsExact`, `NothingLost`, and `AllOrNothing`: the engine implements `AtomicRestore` |
| `restore_progress` | `MCRestoreTxn`, `RestoreProgress` | `InterruptedIsResolved` |
| `relay_server` | `MCRelayBindings`, `RelayServer` | `OneActiveJobPerDevice`, `RestoresAreGrounded`, `StatusOnlyAdvances`; `OneCounterpart`, `BindingsAreDurable` |
| `retention_evict` | `MCRelayRetention`, `RetentionEvict` | `RetentionTypeOK`, `ActivePreviewHasSnapshot`, `FilesMatchRecords`, `SurvivesUntilUsed`, `NoDuplicateKept` |
| `retention_uploads` | `MCRelayRetention`, `RetentionUploads` | `QuotaKept`, `TemporaryEventuallyEvicted` |
| `delivery` | `MCRelayDelivery`, `Delivery` | `RunsAtMostOnce`, `ReportsAreTrue`, `CancelledNeverRuns`, `JobsAreSettled` |
| `transfer` | `MCSessionTransfer`, `SessionTransfer` | `PublishedIsAMoment`, `RestoresTheMoment`, `NeverRefused`, `BelongsToTarget`, `Converges`, `DecidesByRecords`, `LocalBytesKept`, `AgreesWithPlanMerge`; `LocalNeverLost` |
| `mappings` | `MCProjectMappings`, `Mappings` | `OneProjectPerDirectory`, `PlansKeepTheirDirectory`, `PreparedAreRecovered`, `ServerLearns` |
| `reconcile` | `MCCodexReconcile`, `Reconcile` | `VerifiedIsIndexed`, `RepairedWereRead`, `FailureHasReason`, `AlwaysReturns` |
| `restore_interrupted` | `MCRestoreTxn`, `RestoreInterrupted` | finding 1: `InterruptedBlocksWrites` fails |
| `restore_stale_plan` | `MCRestoreTxn`, `RestoreStalePlan` | finding 2: `PlansOnlyAppend` fails |
| `delivery_replay` | `MCRelayDelivery`, `DeliveryReplay` | finding 3: `RunsAtMostOnce` fails when a write may fail |

Bounds, and why they are enough:

- *Restores*: two previews and two restores, the least with which one restore can
  interfere with another, and a failure or crash on top (`MaxFaults` 1), which
  may hit an operation or the rollback that follows it. `RestoreCalm` has two files, so that a restore
  can be half done, one of them an `Extra`, which is never merged. `RestoreProgress`
  has one restore, and contents that diverge, so that conflicts occur.
- *Jobs and bindings*: two devices, three jobs (a preview, its restore and its
  rollback fit), one snapshot; two projects and two paths a device; two bindings, at
  the bound, so that a full table occurs; one failed write, any number of restarts.
- *Retention*: for eviction, two devices, three jobs and two snapshots of one content,
  so that duplicates occur; for uploads, a store for one snapshot, two transfers at once.
- *Delivery*: two jobs, six crashes, restarts and losses in all, two requests under way late.
  Six is enough for every pair of troubles to strike at each of the three requests a
  job takes. `MaxFaults` is 0 in `delivery`, because finding 3 needs a failed write.
- *Export*: one file of each kind (a rollout and a compressed one; a transcript, its
  subagent, a memory file, a result), each there or not; rollouts in both directories, naming
  the directory in both spellings, and one with two `session_meta`; a second transcript and its
  result in another folder, a third there under the name of the first; a rollout at the wrong depth,
  memory files of one name but for the case, of a name that is not portable, and of one that
  reads as a session. Each reason for a refusal, but the last in `Refusable`, which takes three steps, occurs. The agent takes two steps
  at any two places, enough to undo what it did, or to change something on each side of a pass.
  A file that is made, changed and removed between the stamps takes three; with three steps TLC
  finds the exceptions for such files in `NeverRefused` and `BelongsToTarget` to be needed.
- *Preview*: the target has nothing, an older copy, a longer one or another. The merge gets
  every file of up to three records that belongs to the project against every other: a record two machines write
  differently, one that was cut off, the two directories, ends with and without a newline; and
  sessions that have gone on to another directory (`Wandered`).
- *Import*: a session that is equal, grown on either side or diverged, with a memory file, an
  archived session beside it, compressed or not, under each combination of `merge`, `clash`,
  `mapped` and `undo` and each other option once; the agent adds one record.
- *Mappings*: two roots, three folders, two of which differ in the case of a letter, one project in
  `client.json`, and a limit of two projects, so that it is reached and passed; each scan adds up to one
  directory; one failed read or write, or stop of the client. With `MaxFaults` 2 the three invariants hold as
  well (half a million states); `ServerLearns` takes too long there.
- *Reconcile*: two threads of the snapshot and another one, pages of one thread, lists
  of up to three pages, so that a list is exactly as long as the limit, one stray or bad line.
  With `MaxStrays` 2 the safety properties also hold (13 million states).

Deadlock is checked for `RestoreTxn`, where something can always happen. Elsewhere the
ids are finite: once all jobs are used up or a snapshot is planned nothing is left to do.
Symmetry is used in runs without liveness properties only.

Fairness, which only the liveness properties depend on:

- `RestoreProgress`: the engine goes on with what it has begun (it is a loop in one
  process); the operator closes the agent, and while a restore is unfinished keeps
  asking for its rollback at times when the agent is closed. That last one is strong
  fairness, because the agent may be started again and again; the page asks the user
  for exactly that.
- `RetentionUploads`: the ticker of the server fires, a day passes, and devices post the
  results of what they run. `Visit` and `PostResult` have strong fairness, as a restart,
  of which there may be infinitely many, ends a sweep and a running job; a server that
  restarts before each sweep for ever would evict nothing.
- `Delivery`: the client goes round its loop and is started again when it stops, and the
  server serves what reaches it. Troubles are bounded, so weak fairness is enough.
- `Mappings`: `Run` goes round its loop, its heartbeats reach the server, and a stopped client is
  started again (weak fairness of `ClientStep`). `Refresh` has strong fairness: while heartbeats are
  exchanged it is possible again and again, and after a minute (`client.go:279`) it is done.
- `Reconcile`: Go runs the client, timers fire and a killed process dies. The app-server
  may hang.

## 4. Findings

1. `Rollback` does not call `noPending()`. While one restore is unfinished, rolling
   back another finished one writes session files, although `README.md:139` says that
   an interrupted restore blocks writing until it is rolled back. When the two share
   a file, both rollbacks can be refused afterwards (`engine.go:514`).
2. `stage()` hashes the local file after `PlanStreaming` has read it. A record the
   agent appends in between is in the accepted old content and not in the new one;
   Apply replaces it, against `README.md:135` (`engine.go:270`). The backup has it.
3. A claim whose `save()` fails has set the job running in memory only (`server.go:504`). The heartbeat of
   the next round would write it, and the claim comes after that. But a claim the client has given up on may be
   served late: the client times out, its next heartbeat is accepted, it claims again; only now the
   old claim is served and cannot be saved; the new one is answered with the job that runs (`server.go:493`).
   The client executes it and is killed before it has a result. The server restarts and reads
   the job back as queued; the client starts, is told that nothing is running, claims the job and runs it a second time, against
   `VALIDATION.md:43`. Both the late claim and the failed write are needed: `RunsAtMostOnce` holds without either.

One more disagreement has no run, as the model takes it for what it is: `README.md:148` says that
files of an unknown kind that go with a session are an error, "避免静默丢弃" (to avoid losing them silently), and `README.md:144`
that `tool-results` are in a snapshot. But Export looks only next to transcripts in the folder spelled like the project
(`archive.go:291-296`). What lies next to a transcript of the project in another folder, or in one
spelled in other letters, is neither archived nor mentioned, but for subagents' records, which the scan finds by themselves.
`ProjectOf` leaves such results out, and `PublishedIsAMoment` says that nothing else is missing.

Facts that contradict no document. The limit of 1000 projects (`projects.go:105`) stops discovery
only: `PrepareImport` and `loadMappings` append beyond it, and the server refuses a heartbeat
with more than 1000 projects or 2002 rows (`server.go:475`), after which the client claims nothing.
1000 projects with two rows for the limit and one for unreadable mappings are already too many rows.
`ServerLearns` excepts a list that is refused. And after an inventory without its mappings an imported directory may
have two projects until the client is started again, which `OneProjectPerDirectory` excepts. With failed writes a client can also be wedged: a
job it has executed is queued or cancelled after a restart, its result is refused with
409, and it claims nothing while a result is pending; `JobsAreSettled` is therefore
checked without failed writes. Its heartbeats are accepted unless they are lost: a device whose list is refused for its
length would claim nothing for ever. And the two planners of sessions differ on files that
end within a line or without a newline; `AgreesWithPlanMerge` says exactly how. Where a
property of `transfer` names an exception, the code behaves so:

- A session that was moved and moved back, or created and removed, between the stamps leaves
  no trace in them; such files are left out of `PublishedIsAMoment` and `RestoresTheMoment`.
- Export selects sessions by `pathEqual`, which folds case on Windows; Preview compares
  exactly (`engine.go:199`) and refuses the whole snapshot. The same holds of a session whose last
  line was not finished: exported, but never accepted (`stream.go:79-81`). A memory file that is
  made, changed and removed again between the stamps is in neither, but may be in the archive, with
  the size of one pass (`memory.go:171`) and the content of another (`export.go:433`); such a
  snapshot is published, and refused by every preview (`stream.go:421`).
- Preview refuses, and Export does not look for: a session at another depth than the agent's
  (`stream.go:224`; the scan takes any, `sessions/scan.go:70`), names that are not possible everywhere, such as `a:b.md`
  (`engine.go:216`), names alike but for their case (`engine.go:219-223`), a memory file whose name reads as
  that of a session (`import.go:866`), and two transcripts of one name out of two folders (`engine.go:266`). `Refusable`
  lists these and the three before; `NeverRefused` says that there is no other reason in a snapshot itself.
- Import does not look for two sessions with one destination, and writes the second over the first.
  `LocalNeverLost` excepts them.
- The last `session_meta` before the first message decides where a rollout belongs
  (`sessions/parse.go:176`), and only the first is rewritten. `BelongsToTarget` excepts rollouts
  with several. It excepts, too, a session made and removed again between the stamps, which may be
  archived with another content than was scanned, and so with a directory nobody looked at.
- A session that names the target's directory beside the source's, or the source's in two spellings, has
  one name for both after the restore, and diverges from its own source on the way back. `Converges`
  excepts it. Any other directory a session names is left alone both ways, and does no harm.
- Import reads a local file when it decides and, for a replacement, once more when it sets it
  aside, and never again: what is added after that is overwritten. A new memory file is written
  during planning and once more afterwards, although errors are meant to end an import "before
  any write" (`import.go:716`).
- With "import a copy", an archived Codex session that conflicts ends the whole import: the name of
  its copy is checked as that of an active one (`CopyInvalid`), although `import.go:646` allows
  such an end for internal and I/O errors only.

## 5. Proofs

Every theorem holds for any value of the constants that satisfies the named
assumptions of its modules: any files, snapshots, devices, jobs, threads and bounds. Every
safety property a passing run checks has one, of the specification the run checks (for the merge, the
import and the export also of their own specifications, which ask less of what is around them);
`RunsAtMostOnce`, `ReportsAreTrue` and `CancelledNeverRuns` have it for as long as no write has failed, as they are checked.

### The engine: `RestoreTxnProofs`

- Whatever the agent does: `TypeCorrect`, `AtMostOneUnfinished`, `LifecycleHolds`. The inductive
  invariant is `IInv`, `TypeOK /\ Working /\ OneUnfinished`. `OneUnfinished` alone is not inductive:
  `noPending()` is called at the start of Apply and the journal appears three steps
  later, so `Working` carries "nothing is pending" to `prepare` and says which status the
  journal has at each later step.
- In calm use (`CalmSpec`): `AlwaysRecoverable`, `NeverHalfDone`, `RollbackIsExact`. The strengthening
  is `CalmFiles`: where each file stands (old, new, either) at each step of the loops,
  given that the agent is closed.
- `NeverDestroys`: nothing is lost. It needs `CalmPlans`, that a plan only appends, in the drafts and previews as in
  the journals, since what is copied at the end was decided at the beginning; and
  `CalmTurns`, that nobody else has written the files of the restore at work.
- `RestoresAreAtomic`: the refinement. `View` is what `AtomicRestore` sees of the files: the old contents until
  the journal of a restore says done, the new ones until its rollback is complete; each step of the engine is
  shown to be one step of `AtomicRestore`, or to leave the view as it is. Most of the work is that the
  loops of Apply and Rollback, failures and crashes are such stutters.

### The server: `RelayJobsProofs`, `RelayBindingsProofs`, `RelayRetentionProofs`

- Jobs: `JobsTypeCorrect`, `OneActivePerDevice`, `AlwaysGrounded`,
  `AlwaysAdvances`. The invariants are stated of the memory and of the file;
  `SaveFacts` says that the file is always a former memory.
- Bindings: `BindingsTypeCorrect`, `AlwaysOneCounterpart`,
  `AlwaysDurable`, and `AlwaysDetermined`, which follows from one counterpart without a
  further induction. `ImplementsJobs` shows that every step is one of `RelayJobs` or
  leaves its variables alone, so the theorems above carry over.
- Snapshots: `RetentionTypeCorrect`, `PreviewsKeepSnapshots`, `RecordsMatchFiles`, `PurgedForAReason`,
  `StoredOnce`, `NeverOverQuota`, and `EvictionKeepsJobTable`, again by showing the steps to be those
  of `RelayJobs`. No one of the properties is inductive: a restart replaces records and jobs by those of the file,
  so `RetentionInv` asks of the file what it asks of the memory (`StateOK`, of any table and
  records), for which it matters that both are written together (`SavedTogether`). What was looked up when an
  upload began may be different when it ends; all the invariant keeps of it is that the ids of uploads are new and
  distinct (`UploadsFresh`), and quota and duplicates rest on what `UploadCommit` looks up again.

### Client and server: `RelayDeliveryProofs`

- `AtMostOnce`, `TrueReports`, `CancelledStayIdle`: `faults = 0` implies the property, in every state;
  that is, they hold until a write fails. `SafeWithoutFaults` puts it as the run does, with
  `MaxFaults = 0`. `DeliveryKeepsJobTable` holds with failed writes too.
- `DeliveryInv` relates the three places a job leaves traces in: the requests under way or given up, the client's
  results and the server's statuses. A job is `Accountable` when the client has started it or has
  sent a result of it, even one that is late. The server has handed out every such job
  (`AccountsHandedOut`). When the client is back in its loop, each of them has a durable result or is over
  at the server (`InLoop`), for which recovery has to be right: what `current` answers names the one job that is not over
  (`CurrentAnswered`, `Recovery`). So a claim is answered with a job the client knows nothing of, or
  has a result of (`ClaimAnswered`), and only the former is run. That the file is the memory (`saved = jobs`) is where `faults = 0` comes in.

### Codex: `CodexReconcileProofs`

- `SuccessIsTrue`, of any server: *every* line under
  way names only threads of the index, in the home opened; since the index only grows,
  whatever the client makes of lines, it has not been told anything untrue.
- `RepairsAreReal` and `FailuresAreJustified`, of one that keeps to the protocol. `HonestInv` says that there is one request under
  way, that a line with its id answers what the client waits for (`Conversation`), and
  that a cursor leads to exactly what the pages have not named yet, while pages before the last are full
  (`PageAsked`, `PageGiven`); so the page limit is met only by an index that is longer.

### Sessions: `SessionTransferProofs`

- The merge (`MergeSpec`, merges one after the other, each of any two files whose last record may be cut
  off): `LocalBytesAreKept`, `DecisionIsThatOfTheFiles`, `PlannersAlike`. `MergeInv` says that the records shared so far agree, that what was written is what was
  read (the local records, the last one terminated, then the incoming ones), and what each
  answer has seen. The properties alone are about the end and say nothing of a merge under way.
- The import (`ImportSpec`, any bundle into any
  home, under any options, while the agent adds records): `ImportLosesNothing`. An
  update may be written later than it was decided, so `ImportInv` says that until a file is set aside what
  an update will write begins with what was read of it, and afterwards its backup does; and that only what
  was looked at is extended or replaced. `AloneStays` keeps the entries apart that go to places of their own.
- The export (`ExportSpec`): `ArchivesAreMoments`. `ExportInv` holds of each file that has not strayed: what a pass has noted of it is where it was and, if the
  file is `Steady` since the first stamp, what it holds (`ReadsTrue`); no pass has overlooked it (`NotOverlooked`); and the second stamp
  has it as the moment has (`StampedTwice`). Equal stamps then make every file steady, from the first pass to the moment.
- The transfer (`TransferSpec`, what the run checks): `PartsKeepTheirPromises` carries the theorems above over. `TransferInv` adds that the bundle is
  what the export has published (`SourceFits`) and that each planned item is what the two files decide (`PlanFits`). From it follow
  `RefusedForAReason`, `RestoredSessionsBelong`, `TransfersRestoreTheMoment` and `DevicesConverge`.

### Project mappings: `ProjectMappingsProofs`

- `DirectoriesStayApart`, `KeysAreForGood`, `MappingsComeBack`, of
  `MappingsSpec`. None is inductive alone. `MappingsInv` says that every key in any of the four lists is made of what the project's
  directory or folder is (`ListsInv`), except those of `client.json`; that the file keeps what it has (`SavedInv`); and that the table
  holds the file once it was read (`TableInv`). A saved folder keeps the root it was made under, so that two lists
  agree on a key although `import_root` has moved. That hashes do not collide is in the model.

### What the proofs have changed

Some attempts failed because a property said more than is true outside the bounds of its run, or
because the model could not have broken it:

- `NeverRefused` was without its exception for a memory file that comes and goes, which three steps of the agent are needed for.
- `RestoresTheMoment` was without a place for each session; it follows from `Collide`, that a plan with two entries for one place never gets ready.
- `BelongsToTarget` held of any file whatsoever, since sessions could name no directory but the project's
  and the target's. With `elsewhere` in `Cwds` it depends on the scan, and needs its exception for sessions that come and go.
- `Converges` excepted every session that names two directories; only those whose names become one diverge.
- `AgreesWithPlanMerge` is stated by cases that exclude each other, as is the `View` of `AllOrNothing`, where
  two arms of a CASE applied at once.

### Only model-checked

The liveness properties, as TLAPS handles neither fairness nor ENABLED: `InterruptedIsResolved`,
`TemporaryEventuallyEvicted`, `JobsAreSettled`, `ServerLearns`, `AlwaysReturns`. `TypeOK`, `JobsTypeOK`,
`BindingsTypeOK`, `AnswerIsDetermined` and `DoneIsComplete` are theorems only; that TLC agrees was tried, and no run repeats it.
Induction over data and RECURSIVE operators are out of reach of the provers; no
module uses the latter.

## 6. Not modelled

Within the modelled parts: checks of paths and links, project configuration and the 24
hours a preview is valid (each can only refuse an operation); progress reports, which are
neither written nor decided upon; authentication; the size of archives beyond a unit each.
The atomic rename of `safety/atomic.go` and `types.go` and `state.json`'s encoding are taken as
they are meant: a file has its old or its new content. Of the upstream command line Import is
modelled and the filters of its Export (time, text, thread, redaction, images, git) are not:
the relay passes none of them. Hand-off and search are not called by the relay. The titles,
models and git data the scanners read decide nothing. The page drives the operations modelled as the
administrator's. Of the project mappings the counts and sizes of the rows and the `Missing` flags are left out, as nothing
decides upon them; a directory reached under two names by a link counts as two, for the code as well.
The tunnel and the login limiter are planned.

## 7. Plan

Done: the engine, the job table and what depends on it, the dialogue with Codex, the way of a
snapshot from the export to the plan of a preview, with both planners, and the project mappings; and
a theorem for each safety property of each passing run. What is left, in this order:

1. *Proofs*: what of `RelayDelivery` survives failed writes. `RunsAtMostOnce` does not (finding 3), but
   a job should run twice only if the write of a late claim has failed, which has to be stated first.
2. *Tunnel* and *login limiter*: small machines each; reuse of a healthy tunnel, at most ten
   attempts a minute.
