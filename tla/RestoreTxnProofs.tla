-------------------------- MODULE RestoreTxnProofs --------------------------
(* Theorems about RestoreTxn, for every set of files, previews and restores: what
   holds whatever the agent does, then what holds in calm use. *)
EXTENDS RestoreTxn, TLAPS

\* The plan of a preview that has not been made is a plan.
LEMMA EmptyPlan == NoPlan \in Plans
<1>1. {} \in SUBSET Files
  OBVIOUS
<1>2. NoPlan \in [{} -> Change]
  BY DEF NoPlan
<1> QED
  BY <1>1, <1>2 DEF Plans

\* What PlanStreaming makes of a bundle and the files is a plan.
LEMMA DraftIsPlan ==
  ASSUME bundle \in Bundles \cup {NoPlan}, disk \in [Files -> Stored]
  PROVE  [f \in DOMAIN bundle |->
           [action |-> Decide(f, disk[f], bundle[f]), before |-> Absent,
            after |-> bundle[f]]] \in Plans
<1> DEFINE d == [f \in DOMAIN bundle |->
           [action |-> Decide(f, disk[f], bundle[f]), before |-> Absent,
            after |-> bundle[f]]]
<1>1. DOMAIN bundle \in SUBSET Files /\ \A f \in DOMAIN bundle : bundle[f] \in Contents
  BY DataAssumption DEF NoPlan
<1>2. \A f \in DOMAIN bundle : Decide(f, disk[f], bundle[f]) \in Actions
  BY DEF Decide, Actions
<1>3. \A f \in DOMAIN bundle : d[f] \in Change
  BY <1>1, <1>2 DEF Change, Stored
<1>4. d \in [DOMAIN bundle -> Change]
  BY <1>3
<1> QED
  BY <1>1, <1>4 DEF Plans

\* What stage() makes of a plan is a plan.
LEMMA StagedIsPlan ==
  ASSUME draft \in Plans, disk \in [Files -> Stored]
  PROVE  Staged(draft) \in Plans
<1>1. PICK S \in SUBSET Files : draft \in [S -> Change]
  BY DEF Plans
<1>2. \A f \in S : Staged(draft)[f] \in Change
  BY <1>1 DEF Staged, Change
<1>3. Staged(draft) \in [S -> Change]
  BY <1>1, <1>2 DEF Staged
<1> QED
  BY <1>3 DEF Plans

\* A plan is a function on session files, and writes some of them.
LEMMA PlanFacts ==
  ASSUME NEW p \in Plans
  PROVE  /\ Mutated(p) \subseteq DOMAIN p
         /\ DOMAIN p \subseteq Files
         /\ \A f \in DOMAIN p : p[f] \in Change
BY DEF Plans, Mutated

\* The initial states are type correct.
LEMMA TypeInit == Init => TypeOK
<1> SUFFICES ASSUME Init PROVE TypeOK
  OBVIOUS
<1>1. [f \in Files |-> Absent] \in [Files -> Stored]
  BY DEF Stored
<1>2. preview \in [PreviewIds -> [state : {"none", "partial", "saved"}, plan : Plans]]
  BY EmptyPlan DEF Init
<1>3. journal \in [RestoreIds -> [status : Statuses, plan : Plans, backup : [Files -> Stored]]]
  BY <1>1, EmptyPlan DEF Init, Statuses
<1>4. origin \in [RestoreIds -> [Files -> Stored]] /\ disturbed \in [RestoreIds -> BOOLEAN]
  BY <1>1 DEF Init
<1>5. disk \in [Files -> Stored] /\ agent \in BOOLEAN /\ draft \in Plans
  BY EmptyPlan DEF Init
<1>6. /\ pc = "idle" /\ pc \in Steps /\ todo \subseteq Files
      /\ pid = None /\ rid = None /\ cur = None /\ bundle = NoPlan
      /\ faults \in 0..MaxFaults
  BY DataAssumption DEF Init, Steps
<1> QED
  BY <1>2, <1>3, <1>4, <1>5, <1>6 DEF TypeOK

\* Every step keeps the type invariant, given what the local variables mean.
LEMMA TypeNext == TypeOK /\ Working /\ [Next]_vars => TypeOK'
<1> SUFFICES ASSUME TypeOK, Working, [Next]_vars PROVE TypeOK'
  OBVIOUS
<1> USE DEF TypeOK
<1>1. ASSUME NEW p \in PreviewIds, NEW b \in Bundles, PreviewBegin(p, b) PROVE TypeOK'
  BY <1>1 DEF PreviewBegin, Steps, history
<1>2. CASE PlanStreaming
  BY <1>2, DraftIsPlan DEF PlanStreaming, Steps, history
<1>3. CASE StagePlan
  BY <1>3, StagedIsPlan, EmptyPlan DEF StagePlan, Return, Steps, history
<1>4. ASSUME NEW p \in PreviewIds, NEW r \in RestoreIds, ApplyBegin(p, r) PROVE TypeOK'
  BY <1>4 DEF ApplyBegin, Steps, history
<1>5. CASE ApplyVerify
  BY <1>5, EmptyPlan DEF ApplyVerify, Return, Goto, Steps, history, locals
<1>6. CASE ApplyPrepare
  <2> DEFINE p == preview[pid].plan
  <2>1. pid \in PreviewIds /\ rid \in RestoreIds /\ p \in Plans
    BY <1>6 DEF ApplyPrepare
  <2>2. Mutated(p) \subseteq Files
    BY <2>1, PlanFacts
  <2>3. [f \in Files |-> IF f \in BackedUp(p) THEN disk[f] ELSE Absent] \in [Files -> Stored]
    BY DEF Stored
  <2> QED
    BY <1>6, <2>1, <2>2, <2>3 DEF ApplyPrepare, Statuses, Steps
<1>7. ASSUME NEW f \in Files, CheckTarget(f) PROVE TypeOK'
  BY <1>7 DEF CheckTarget, Steps, history
<1>8. CASE CopyTarget
  <2>1. rid \in RestoreIds /\ cur \in Files /\ cur \in Mutated(journal[rid].plan)
    BY <1>8 DEF CopyTarget, Working
  <2> QED
    BY <1>8, <2>1, PlanFacts DEF CopyTarget, Steps, Disturb, Change
<1>9. CASE ReadBack
  BY <1>9 DEF ReadBack, Goto, Steps, history
<1>10. CASE ApplyDone
  BY <1>10, EmptyPlan DEF ApplyDone, Return, Statuses, Steps, history
<1>11. ASSUME NEW r \in RestoreIds, RollbackBegin(r) PROVE TypeOK'
  BY <1>11 DEF RollbackBegin, Steps, history
<1>12. CASE RollbackGuard
  BY <1>12, EmptyPlan DEF RollbackGuard, Return, Goto, Steps, history, locals
<1>13. CASE RollbackInspect
  <2>1. rid \in RestoreIds /\ Mutated(journal[rid].plan) \subseteq Files
    BY <1>13, PlanFacts DEF RollbackInspect
  <2> QED
    BY <1>13, <2>1, EmptyPlan DEF RollbackInspect, Return, Goto, Steps, history
<1>14. ASSUME NEW f \in Files, UndoFile(f) PROVE TypeOK'
  BY <1>14 DEF UndoFile, Disturb, Stored
<1>15. CASE RollbackDone
  BY <1>15, EmptyPlan DEF RollbackDone, Return, Statuses, Steps, history
<1>16. CASE OperationFails
  BY <1>16, EmptyPlan, DataAssumption DEF OperationFails, Return, Goto, Steps, history, locals
<1>17. CASE Crash
  BY <1>17, EmptyPlan, DataAssumption DEF Crash, Return, Steps, history
<1>18. CASE AgentStart \/ AgentStop
  BY <1>18 DEF AgentStart, AgentStop, engine, locals, history
<1>19. ASSUME NEW f \in Files, NEW c \in Stored, AgentWrite(f, c) PROVE TypeOK'
  BY <1>19 DEF AgentWrite, engine, locals
<1>20. CASE UNCHANGED vars
  BY <1>20 DEF vars, engine, locals, history
<1> QED
  BY <1>1, <1>2, <1>3, <1>4, <1>5, <1>6, <1>7, <1>8, <1>9, <1>10, <1>11, <1>12, <1>13,
     <1>14, <1>15, <1>16, <1>17, <1>18, <1>19, <1>20
     DEF Next, Preview, Apply, RollbackSteps, Rollback, Environment

-----------------------------------------------------------------------------
IInv == TypeOK /\ Working /\ OneUnfinished

\* The inductive invariant holds initially.
LEMMA IInvInit == Init => IInv
<1>1. Init => Working /\ OneUnfinished
  BY DEF Init, Working, OneUnfinished
<1> QED
  BY <1>1, TypeInit DEF IInv

\* Every step keeps Working and OneUnfinished: ApplyPrepare writes the second
\* journal only where ApplyVerify found none unfinished.
LEMMA WorkingNext == IInv /\ [Next]_vars => Working' /\ OneUnfinished'
<1> SUFFICES ASSUME TypeOK, Working, OneUnfinished, [Next]_vars
             PROVE  Working' /\ OneUnfinished'
  BY DEF IInv
<1> USE DEF TypeOK, Working, OneUnfinished
<1>1. ASSUME NEW p \in PreviewIds, NEW b \in Bundles, PreviewBegin(p, b)
      PROVE  Working' /\ OneUnfinished'
  BY <1>1 DEF PreviewBegin, history
<1>2. CASE PlanStreaming
  BY <1>2 DEF PlanStreaming, history
<1>3. CASE StagePlan
  BY <1>3 DEF StagePlan, Return, history
<1>4. ASSUME NEW p \in PreviewIds, NEW r \in RestoreIds, ApplyBegin(p, r)
      PROVE  Working' /\ OneUnfinished'
  BY <1>4 DEF ApplyBegin, NoPending, history
<1>5. CASE ApplyVerify
  BY <1>5 DEF ApplyVerify, Return, Goto, NoPending, history, locals
<1>6. CASE ApplyPrepare
  BY <1>6 DEF ApplyPrepare, NoPending
<1>7. ASSUME NEW f \in Files, CheckTarget(f) PROVE Working' /\ OneUnfinished'
  BY <1>7 DEF CheckTarget, history
<1>8. CASE CopyTarget
  BY <1>8 DEF CopyTarget
<1>9. CASE ReadBack
  BY <1>9 DEF ReadBack, Goto, history
<1>10. CASE ApplyDone
  BY <1>10 DEF ApplyDone, Return, history
<1>11. ASSUME NEW r \in RestoreIds, RollbackBegin(r) PROVE Working' /\ OneUnfinished'
  BY <1>11 DEF RollbackBegin, history
<1>12. CASE RollbackGuard
  BY <1>12 DEF RollbackGuard, Return, Goto, history, locals
<1>13. CASE RollbackInspect
  BY <1>13 DEF RollbackInspect, Restorable, BackedUp, Return, Goto, history
<1>14. ASSUME NEW f \in Files, UndoFile(f) PROVE Working' /\ OneUnfinished'
  BY <1>14 DEF UndoFile
<1>15. CASE RollbackDone
  BY <1>15 DEF RollbackDone, Return, history
<1>16. CASE OperationFails
  BY <1>16 DEF OperationFails, Return, Goto, history, locals
<1>17. CASE Crash
  BY <1>17 DEF Crash, Return, history
<1>18. CASE AgentStart \/ AgentStop
  BY <1>18 DEF AgentStart, AgentStop, engine, locals, history, NoPending
<1>19. ASSUME NEW f \in Files, NEW c \in Stored, AgentWrite(f, c)
       PROVE  Working' /\ OneUnfinished'
  BY <1>19 DEF AgentWrite, engine, locals, NoPending
<1>20. CASE UNCHANGED vars
  BY <1>20 DEF vars, engine, locals, history, NoPending
<1> QED
  BY <1>1, <1>2, <1>3, <1>4, <1>5, <1>6, <1>7, <1>8, <1>9, <1>10, <1>11, <1>12, <1>13,
     <1>14, <1>15, <1>16, <1>17, <1>18, <1>19, <1>20
     DEF Next, Preview, Apply, RollbackSteps, Rollback, Environment

\* IInv is inductive.
LEMMA IInvNext == IInv /\ [Next]_vars => IInv'
BY TypeNext, WorkingNext DEF IInv

\* The inductive invariant holds of every state of the engine (engine.go, all of
\* Preview, Apply and Rollback), whatever the agent does.
THEOREM Invariance == Spec => []IInv
BY IInvInit, IInvNext, PTL DEF Spec

\* The engine's data keeps its shape through every interleaving with the agent
\* and every crash (engine.go, Preview, Apply and Rollback).
THEOREM TypeCorrect == Spec => []TypeOK
<1>1. IInv => TypeOK
  BY DEF IInv
<1> QED
  BY <1>1, Invariance, PTL

\* However many restores there are, and wherever they are interrupted, at most
\* one is unfinished: noPending() in Apply is enough (engine.go:359).
THEOREM AtMostOneUnfinished == Spec => []OneUnfinished
<1>1. IInv => OneUnfinished
  BY DEF IInv
<1> QED
  BY <1>1, Invariance, PTL

-----------------------------------------------------------------------------
\* The steps that change files or journals are six; the others move the engine
\* between its steps, or start and stop the agent.
LEMMA LoudSteps ==
  ASSUME [Next]_vars
  PROVE  \/ UNCHANGED <<disk, journal, history>>
         \/ ApplyPrepare
         \/ CopyTarget
         \/ ApplyDone
         \/ \E f \in Files : UndoFile(f)
         \/ RollbackDone
         \/ \E f \in Files, c \in Stored : AgentWrite(f, c)
BY DEF Next, Preview, Apply, RollbackSteps, Rollback, Environment, PreviewBegin,
       PlanStreaming, StagePlan, ApplyBegin, ApplyVerify, CheckTarget, ReadBack,
       RollbackBegin, RollbackGuard, RollbackInspect, OperationFails, Crash,
       AgentStart, AgentStop, vars, history

-----------------------------------------------------------------------------
(* The journal is written once, and its status moves one way. *)

\* Every step of the engine keeps JournalLifecycle: ApplyPrepare writes a journal
\* where there was none, and every other step changes a status at most.
LEMMA LifecycleStep ==
  IInv /\ [Next]_vars =>
    \A r \in RestoreIds :
      journal'[r] # journal[r] =>
        /\ <<journal[r].status, journal'[r].status>> \in
             {<<"none", "prepared">>, <<"prepared", "done">>,
              <<"prepared", "rolled_back">>, <<"done", "rolled_back">>}
        /\ journal[r].status # "none" =>
             /\ journal'[r].plan = journal[r].plan
             /\ journal'[r].backup = journal[r].backup
<1> SUFFICES ASSUME IInv, [Next]_vars, NEW r \in RestoreIds, journal'[r] # journal[r]
             PROVE  /\ <<journal[r].status, journal'[r].status>> \in
                         {<<"none", "prepared">>, <<"prepared", "done">>,
                          <<"prepared", "rolled_back">>, <<"done", "rolled_back">>}
                    /\ journal[r].status # "none" =>
                         /\ journal'[r].plan = journal[r].plan
                         /\ journal'[r].backup = journal[r].backup
  OBVIOUS
<1> USE DEF IInv, TypeOK, Working
<1>1. CASE ApplyPrepare
  BY <1>1 DEF ApplyPrepare
<1>2. CASE ApplyDone
  BY <1>2 DEF ApplyDone
<1>3. CASE RollbackDone
  BY <1>3 DEF RollbackDone
<1>4. CASE UNCHANGED journal
  BY <1>4
<1> QED
  BY <1>1, <1>2, <1>3, <1>4, LoudSteps DEF CopyTarget, UndoFile, AgentWrite

\* A transaction id is executed at most once, and its plan and backups are never
\* rewritten, whatever is interrupted (engine.go, Apply and Rollback).
THEOREM LifecycleHolds == Spec => JournalLifecycle
<1>1. IInv /\ [Next]_vars =>
        [\A r \in RestoreIds :
           journal'[r] # journal[r] =>
             /\ <<journal[r].status, journal'[r].status>> \in
                  {<<"none", "prepared">>, <<"prepared", "done">>,
                   <<"prepared", "rolled_back">>, <<"done", "rolled_back">>}
             /\ journal[r].status # "none" =>
                  /\ journal'[r].plan = journal[r].plan
                  /\ journal'[r].backup = journal[r].backup]_vars
  BY LifecycleStep
<1> QED
  BY <1>1, Invariance, PTL DEF Spec, JournalLifecycle

-----------------------------------------------------------------------------
(* Calm use. *)

\* In calm use the files of the restore at work are where the step it has reached
\* says they are: CalmFiles is inductive relative to IInv.
LEMMA CalmFilesNext ==
  IInv /\ CalmFiles /\ [Next /\ CalmStep]_vars => CalmFiles'
<1> SUFFICES ASSUME IInv, CalmFiles, [Next /\ CalmStep]_vars PROVE CalmFiles'
  OBVIOUS
<1> USE DEF IInv, TypeOK, Working, CalmFiles
<1>1. ASSUME NEW p \in PreviewIds, NEW b \in Bundles, PreviewBegin(p, b) PROVE CalmFiles'
  BY <1>1 DEF PreviewBegin, history
<1>2. CASE PlanStreaming
  BY <1>2 DEF PlanStreaming, history
<1>3. CASE StagePlan
  BY <1>3 DEF StagePlan, Return, history
<1>4. ASSUME NEW p \in PreviewIds, NEW r \in RestoreIds, ApplyBegin(p, r) PROVE CalmFiles'
  BY <1>4 DEF ApplyBegin, history
<1>5. CASE ApplyVerify
  BY <1>5 DEF ApplyVerify, Return, Goto, Unchanged, history, locals
<1>6. CASE ApplyPrepare
  <2>1. pid \in PreviewIds /\ rid \in RestoreIds /\ preview[pid].plan \in Plans
    BY <1>6 DEF ApplyPrepare
  <2>2. Mutated(preview[pid].plan) \subseteq DOMAIN preview[pid].plan
    BY DEF Mutated
  <2> QED
    BY <1>6, <2>1, <2>2 DEF ApplyPrepare, Unchanged
<1>7. ASSUME NEW f \in Files, CheckTarget(f) PROVE CalmFiles'
  BY <1>7 DEF CheckTarget, history
<1>8. CASE CopyTarget
  <2>1. rid \in RestoreIds /\ journal[rid].plan \in Plans
    BY <1>8 DEF CopyTarget
  <2>2. Mutated(journal[rid].plan) \subseteq Files
    BY <2>1, PlanFacts
  <2> QED
    BY <1>8, <2>1, <2>2 DEF CopyTarget, Disturb
<1>9. CASE ReadBack
  BY <1>9 DEF ReadBack, Goto, history
<1>10. CASE ApplyDone
  BY <1>10 DEF ApplyDone, Return, history
<1>11. ASSUME NEW r \in RestoreIds, RollbackBegin(r) PROVE CalmFiles'
  BY <1>11 DEF RollbackBegin, history
<1>12. CASE RollbackGuard
  BY <1>12 DEF RollbackGuard, Return, Goto, history, locals
<1>13. CASE RollbackInspect
  BY <1>13 DEF RollbackInspect, Restorable, Return, Goto, history
<1>14. ASSUME NEW f \in Files, UndoFile(f) PROVE CalmFiles'
  <2>1. rid \in RestoreIds /\ journal[rid].plan \in Plans
    BY <1>14 DEF UndoFile
  <2>2. Mutated(journal[rid].plan) \subseteq Files
    BY <2>1, PlanFacts
  <2> QED
    BY <1>14, <2>1, <2>2 DEF UndoFile, Disturb, BackedUp
<1>15. CASE RollbackDone
  BY <1>15 DEF RollbackDone, Return, history
<1>16. CASE OperationFails
  BY <1>16 DEF OperationFails, Return, Goto, history, locals
<1>17. CASE Crash
  BY <1>17 DEF Crash, Return, history
<1>18. CASE (AgentStart \/ AgentStop) /\ CalmStep
  BY <1>18 DEF AgentStart, AgentStop, CalmStep, engine, locals, history
<1>19. ASSUME NEW f \in Files, NEW c \in Stored, AgentWrite(f, c) PROVE CalmFiles'
  BY <1>19 DEF AgentWrite, engine, locals
<1>20. CASE UNCHANGED vars
  BY <1>20 DEF vars, engine, locals, history, Unchanged
<1> QED
  BY <1>1, <1>2, <1>3, <1>4, <1>5, <1>6, <1>7, <1>8, <1>9, <1>10, <1>11, <1>12, <1>13,
     <1>14, <1>15, <1>16, <1>17, <1>18, <1>19, <1>20
     DEF Next, Preview, Apply, RollbackSteps, Rollback, Environment

\* A change of one status leaves plans, backups and the other journals alone.
LEMMA StatusFacts ==
  ASSUME TypeOK, rid \in RestoreIds, NEW v \in Statuses,
         journal' = [journal EXCEPT ![rid].status = v], NEW s \in RestoreIds
  PROVE  /\ journal'[s].plan = journal[s].plan
         /\ journal'[s].backup = journal[s].backup
         /\ journal'[s].status = IF s = rid THEN v ELSE journal[s].status
<1>1. journal[s] \in [status : Statuses, plan : Plans, backup : [Files -> Stored]]
  BY DEF TypeOK
<1>2. journal \in [RestoreIds -> [status : Statuses, plan : Plans, backup : [Files -> Stored]]]
  BY DEF TypeOK
<1>3. CASE s = rid
  <2>1. journal'[s] = [journal[s] EXCEPT !.status = v]
    BY <1>2, <1>3
  <2> QED
    BY <1>1, <1>3, <2>1
<1>4. CASE s # rid
  BY <1>2, <1>4
<1> QED
  BY <1>3, <1>4

\* A restore that is undisturbed after a write of restore r to file f was so before,
\* and is r itself or does not contain f.
LEMMA DisturbFacts ==
  ASSUME TypeOK, NEW r, NEW f, disturbed' = Disturb(r, f), NEW s \in RestoreIds, ~disturbed'[s]
  PROVE  /\ ~disturbed[s]
         /\ s = r \/ journal[s].status = "none" \/ f \notin Mutated(journal[s].plan)
<1>1. disturbed'[s] = (disturbed[s] \/ (s # r /\ journal[s].status # "none"
                                         /\ f \in Mutated(journal[s].plan)))
  BY Zenon DEF Disturb
<1> QED
  BY <1>1, Zenon

\* A restore that is undisturbed after the agent wrote f does not contain f.
LEMMA WriteFacts ==
  ASSUME TypeOK, NEW f \in Files, NEW c \in Stored, AgentWrite(f, c),
         NEW s \in RestoreIds, ~disturbed'[s]
  PROVE  /\ ~disturbed[s]
         /\ journal[s].status = "none" \/ f \notin Mutated(journal[s].plan)
<1>1. disturbed'[s] = (disturbed[s] \/ (journal[s].status # "none"
                                         /\ f \in Mutated(journal[s].plan)))
  BY Zenon DEF AgentWrite
<1> QED
  BY <1>1, Zenon

\* Each of the steps that change files or journals keeps Recoverable.
LEMMA RecoverableNext ==
  IInv /\ CalmFiles /\ Recoverable /\ [Next /\ CalmStep]_vars => Recoverable'
<1> SUFFICES ASSUME IInv, CalmFiles, Recoverable, [Next /\ CalmStep]_vars,
                    NEW r \in RestoreIds, journal'[r].status # "none",
                    NEW g \in Mutated(journal'[r].plan)
             PROVE  /\ journal'[r].plan[g].before = origin'[r][g]
                    /\ origin'[r][g] # Absent => journal'[r].backup[g] = origin'[r][g]
                    /\ journal'[r].status = "prepared" /\ ~disturbed'[r] =>
                         disk'[g] \in {journal'[r].plan[g].after, journal'[r].plan[g].before}
  BY DEF Recoverable, Restorable
<1> DEFINE Same == /\ journal[r].status # "none" /\ g \in Mutated(journal[r].plan)
                   /\ journal'[r].plan = journal[r].plan
                   /\ journal'[r].backup = journal[r].backup
                   /\ origin'[r] = origin[r]
<1>0. TypeOK /\ Working
  BY DEF IInv
<1>f. Mutated(journal'[r].plan) \subseteq Files
  <2>1. TypeOK'
    BY TypeNext DEF IInv
  <2> QED
    BY <2>1, PlanFacts DEF TypeOK
<1>1. CASE UNCHANGED <<disk, journal, history>>
  BY <1>1 DEF history, Recoverable, Restorable
<1>2. CASE ApplyPrepare
  <2>1. pid \in PreviewIds /\ rid \in RestoreIds /\ preview[pid].plan \in Plans
    BY <1>2, <1>0 DEF ApplyPrepare, TypeOK
  <2>2. CASE r = rid
    <3>1. /\ journal'[r].plan = preview[pid].plan
          /\ journal'[r].backup = [f \in Files |->
               IF f \in BackedUp(preview[pid].plan) THEN disk[f] ELSE Absent]
          /\ origin'[r] = disk /\ disk' = disk
      BY <1>2, <1>0, <2>1, <2>2 DEF ApplyPrepare, TypeOK
    <3>2. g \in DOMAIN preview[pid].plan /\ g \in Files
      BY <3>1, <2>1, PlanFacts
    <3>3. preview[pid].plan[g].before = disk[g]
      BY <1>2, <3>2 DEF CalmFiles, ApplyPrepare, Unchanged
    <3> QED
      BY <3>1, <3>2, <3>3 DEF BackedUp
  <2>3. CASE r # rid
    <3>1. journal'[r] = journal[r] /\ origin'[r] = origin[r] /\ disk' = disk
          /\ disturbed' = disturbed
      BY <1>2, <1>0, <2>1, <2>3 DEF ApplyPrepare, TypeOK
    <3> QED
      BY <3>1 DEF Recoverable, Restorable
  <2> QED
    BY <2>2, <2>3
<1>3. CASE CopyTarget
  <2>1. rid \in RestoreIds /\ cur \in Mutated(journal[rid].plan) /\ cur \in Files
    BY <1>3, <1>0 DEF CopyTarget, TypeOK, Working
  <2>2. Same
    BY <1>3 DEF CopyTarget
  <2>3. disk'[g] = IF g = cur THEN journal[rid].plan[cur].after ELSE disk[g]
    BY <1>3, <1>0, <1>f DEF CopyTarget, TypeOK
  <2>4. ~disturbed'[r] => ~disturbed[r] /\ (r = rid \/ g # cur)
    BY <1>3, <1>0, <2>2, DisturbFacts DEF CopyTarget
  <2> QED
    BY <2>1, <2>2, <2>3, <2>4, <1>3 DEF Recoverable, Restorable, CopyTarget
<1>4. CASE ApplyDone
  <2>1. rid \in RestoreIds /\ journal' = [journal EXCEPT ![rid].status = "done"]
        /\ journal[rid].status = "prepared" /\ UNCHANGED <<disk, history>>
    BY <1>4, <1>0 DEF ApplyDone, TypeOK, Working
  <2>2. Same /\ journal'[r].status = IF r = rid THEN "done" ELSE journal[r].status
    BY <2>1, <1>0, StatusFacts DEF history, Statuses
  <2> QED
    BY <2>1, <2>2 DEF Recoverable, Restorable, history
<1>5. ASSUME NEW f \in Files, UndoFile(f)
      PROVE  /\ journal'[r].plan[g].before = origin'[r][g]
             /\ origin'[r][g] # Absent => journal'[r].backup[g] = origin'[r][g]
             /\ journal'[r].status = "prepared" /\ ~disturbed'[r] =>
                  disk'[g] \in {journal'[r].plan[g].after, journal'[r].plan[g].before}
  <2>1. rid \in RestoreIds /\ f \in Mutated(journal[rid].plan)
    BY <1>5, <1>0 DEF UndoFile, TypeOK, Working
  <2>2. Same
    BY <1>5 DEF UndoFile
  <2>3. disk'[g] = IF g = f THEN journal[rid].plan[f].before ELSE disk[g]
    BY <1>5, <1>0, <1>f, <2>1 DEF UndoFile, TypeOK, Working, BackedUp
  <2>4. ~disturbed'[r] => ~disturbed[r] /\ (r = rid \/ g # f)
    BY <1>5, <1>0, <2>2, DisturbFacts DEF UndoFile
  <2> QED
    BY <2>1, <2>2, <2>3, <2>4, <1>5 DEF Recoverable, Restorable, UndoFile
<1>6. CASE RollbackDone
  <2>1. rid \in RestoreIds /\ journal' = [journal EXCEPT ![rid].status = "rolled_back"]
        /\ journal[rid].status # "none" /\ UNCHANGED <<disk, history>>
    BY <1>6, <1>0 DEF RollbackDone, TypeOK, Working
  <2>2. Same /\ journal'[r].status = IF r = rid THEN "rolled_back" ELSE journal[r].status
    BY <2>1, <1>0, StatusFacts DEF history, Statuses
  <2> QED
    BY <2>1, <2>2 DEF Recoverable, Restorable, history
<1>7. ASSUME NEW f \in Files, NEW c \in Stored, AgentWrite(f, c)
      PROVE  /\ journal'[r].plan[g].before = origin'[r][g]
             /\ origin'[r][g] # Absent => journal'[r].backup[g] = origin'[r][g]
             /\ journal'[r].status = "prepared" /\ ~disturbed'[r] =>
                  disk'[g] \in {journal'[r].plan[g].after, journal'[r].plan[g].before}
  <2>1. Same /\ journal' = journal
    BY <1>7 DEF AgentWrite
  <2>2. disk'[g] = IF g = f THEN c ELSE disk[g]
    BY <1>7, <1>0, <1>f DEF AgentWrite, TypeOK
  <2>3. ~disturbed'[r] => ~disturbed[r] /\ g # f
    BY <1>7, <1>0, <2>1, WriteFacts
  <2> QED
    BY <2>1, <2>2, <2>3 DEF Recoverable, Restorable
<1>8. [Next]_vars
  OBVIOUS
<1> QED
  BY <1>1, <1>2, <1>3, <1>4, <1>5, <1>6, <1>7, <1>8, LoudSteps

\* Each of the steps that change files or journals keeps DoneIsComplete.
LEMMA DoneNext ==
  IInv /\ CalmFiles /\ DoneIsComplete /\ [Next /\ CalmStep]_vars => DoneIsComplete'
<1> SUFFICES ASSUME IInv, CalmFiles, DoneIsComplete, [Next /\ CalmStep]_vars,
                    NEW r \in RestoreIds, journal'[r].status = "done",
                    ~disturbed'[r], ~Undoing(r)', NEW g \in Mutated(journal'[r].plan)
             PROVE  disk'[g] = journal'[r].plan[g].after
  BY DEF DoneIsComplete
<1>0. TypeOK /\ Working
  BY DEF IInv
<1>f. g \in Files
  <2>1. TypeOK'
    BY TypeNext DEF IInv
  <2> QED
    BY <2>1, PlanFacts DEF TypeOK
<1>1. CASE UNCHANGED <<disk, journal, history>>
  \* The engine leaves "undo" other than by UndoFile and RollbackDone only when
  \* it is interrupted, which calm use excludes for a finished restore.
  <2>1. ~Undoing(r)
    <3>1. CASE UNCHANGED vars
      BY <3>1 DEF Undoing, vars, engine, locals
    <3>2. CASE Next /\ CalmStep /\ Undoing(r)
      <4>1. pc = "undo" /\ rid = r /\ journal[r].status = "done"
        BY <1>1, <3>2 DEF Undoing
      <4>2. pc' = "idle" \/ (pc' = pc /\ rid' = rid)
        BY <3>2, <4>1 DEF Next, Preview, Apply, RollbackSteps, Rollback, Environment,
           PreviewBegin, PlanStreaming, StagePlan, ApplyBegin, ApplyVerify, ApplyPrepare,
           CheckTarget, CopyTarget, ReadBack, ApplyDone, RollbackBegin, RollbackGuard,
           RollbackInspect, UndoFile, RollbackDone, OperationFails, Crash, Return, Goto,
           AgentStart, AgentStop, AgentWrite, engine, locals
      <4>3. pc' # "idle"
        BY <1>1, <3>2, <4>1 DEF CalmStep, Undoing
      <4> QED
        BY <4>1, <4>2, <4>3 DEF Undoing
    <3> QED
      BY <3>1, <3>2
  <2> QED
    BY <1>1, <2>1 DEF history, DoneIsComplete
<1>2. CASE ApplyPrepare
  <2>1. rid \in RestoreIds /\ r # rid
    BY <1>2, <1>0 DEF ApplyPrepare, TypeOK
  <2>2. journal'[r] = journal[r] /\ disk' = disk /\ disturbed' = disturbed
    BY <1>2, <1>0, <2>1 DEF ApplyPrepare, TypeOK
  <2> QED
    BY <1>2, <2>2 DEF DoneIsComplete, Undoing, ApplyPrepare
<1>3. CASE CopyTarget
  <2>1. rid \in RestoreIds /\ r # rid /\ journal' = journal
    BY <1>3, <1>0 DEF CopyTarget, TypeOK, Working
  <2>2. ~disturbed[r] /\ g # cur
    BY <1>3, <1>0, <2>1, DisturbFacts DEF CopyTarget
  <2>3. disk'[g] = disk[g]
    BY <1>3, <1>0, <1>f, <2>2 DEF CopyTarget, TypeOK
  <2> QED
    BY <1>3, <2>1, <2>2, <2>3 DEF DoneIsComplete, Undoing, CopyTarget
<1>4. CASE ApplyDone
  <2>1. rid \in RestoreIds /\ journal' = [journal EXCEPT ![rid].status = "done"]
        /\ UNCHANGED <<disk, history>> /\ pc = "check" /\ todo = {}
    BY <1>4, <1>0 DEF ApplyDone, TypeOK
  <2>2. /\ journal'[r].plan = journal[r].plan
        /\ journal'[r].status = IF r = rid THEN "done" ELSE journal[r].status
    BY <2>1, <1>0, StatusFacts DEF Statuses
  <2> QED
    BY <2>1, <2>2 DEF DoneIsComplete, Undoing, CalmFiles, history
<1>5. ASSUME NEW f \in Files, UndoFile(f) PROVE disk'[g] = journal'[r].plan[g].after
  <2>1. rid \in RestoreIds /\ r # rid /\ journal' = journal
    BY <1>5, <1>0 DEF UndoFile, TypeOK, Working, Undoing
  <2>2. ~disturbed[r] /\ g # f
    BY <1>5, <1>0, <2>1, DisturbFacts DEF UndoFile
  <2>3. disk'[g] = disk[g]
    BY <1>5, <1>0, <1>f, <2>2 DEF UndoFile, TypeOK
  <2> QED
    BY <1>5, <2>1, <2>2, <2>3 DEF DoneIsComplete, Undoing, UndoFile
<1>6. CASE RollbackDone
  <2>1. rid \in RestoreIds /\ journal' = [journal EXCEPT ![rid].status = "rolled_back"]
        /\ UNCHANGED <<disk, history>> /\ pc = "undo"
    BY <1>6, <1>0 DEF RollbackDone, TypeOK
  <2>2. r # rid /\ journal'[r].plan = journal[r].plan /\ journal[r].status = "done"
    BY <2>1, <1>0, StatusFacts DEF Statuses
  <2> QED
    BY <2>1, <2>2 DEF DoneIsComplete, Undoing, history
<1>7. ASSUME NEW f \in Files, NEW c \in Stored, AgentWrite(f, c)
      PROVE  disk'[g] = journal'[r].plan[g].after
  <2>1. journal' = journal /\ pc' = pc /\ rid' = rid
    BY <1>7 DEF AgentWrite, engine, locals
  <2>2. ~disturbed[r] /\ g # f
    BY <1>7, <1>0, <2>1, WriteFacts
  <2>3. disk'[g] = disk[g]
    BY <1>7, <1>0, <1>f, <2>2 DEF AgentWrite, TypeOK
  <2> QED
    BY <2>1, <2>2, <2>3 DEF DoneIsComplete, Undoing
<1>8. [Next]_vars
  OBVIOUS
<1> QED
  BY <1>1, <1>2, <1>3, <1>4, <1>5, <1>6, <1>7, <1>8, LoudSteps

\* No restore has begun.
LEMMA CalmInit == Init => CalmFiles /\ Recoverable /\ DoneIsComplete
BY DEF Init, CalmFiles, Recoverable, DoneIsComplete

\* The inductive invariant of calm use.
LEMMA CalmInvariance == CalmSpec => [](IInv /\ CalmFiles /\ Recoverable /\ DoneIsComplete)
<1> DEFINE Inv == IInv /\ CalmFiles /\ Recoverable /\ DoneIsComplete
<1>1. Init => Inv
  BY IInvInit, CalmInit
<1>2. Inv /\ [Next /\ CalmStep]_vars => Inv'
  BY IInvNext, CalmFilesNext, RecoverableNext, DoneNext
<1> QED
  BY <1>1, <1>2, PTL DEF CalmSpec

\* After a crash at any step, the backups are those of the files as they were
\* before the restore and rollback() will accept every file it has to put back.
THEOREM AlwaysRecoverable == CalmSpec => []Recoverable
BY CalmInvariance, PTL

\* A restore that reports done has put all its files in place.
THEOREM NeverHalfDone == CalmSpec => []DoneIsComplete
BY CalmInvariance, PTL

\* A step that sets "rolled_back" finds every file as it was when the restore began:
\* it is RollbackDone, after the loop over the files.
LEMMA RolledBackStep ==
  IInv /\ CalmFiles /\ Recoverable /\ [Next /\ CalmStep]_vars =>
    \A r \in RestoreIds :
      journal[r].status # "rolled_back" /\ journal'[r].status = "rolled_back" =>
        \A f \in Mutated(journal[r].plan) : disk'[f] = origin[r][f]
<1> SUFFICES ASSUME IInv, CalmFiles, Recoverable, [Next /\ CalmStep]_vars,
                    NEW r \in RestoreIds,
                    journal[r].status # "rolled_back", journal'[r].status = "rolled_back"
             PROVE  \A f \in Mutated(journal[r].plan) : disk'[f] = origin[r][f]
  OBVIOUS
<1>0. [Next]_vars
  OBVIOUS
<1>a. ~ApplyPrepare
  <2>1. SUFFICES ASSUME ApplyPrepare PROVE FALSE
    OBVIOUS
  <2>2. CASE r = rid
    <3>1. journal'[r].status = "prepared"
      BY <2>1, <2>2 DEF ApplyPrepare, IInv, TypeOK
    <3> QED
      BY <3>1
  <2>3. CASE r # rid
    <3>1. journal'[r] = journal[r]
      BY <2>1, <2>3 DEF ApplyPrepare, IInv, TypeOK
    <3> QED
      BY <3>1
  <2> QED
    BY <2>2, <2>3
<1>b. ~ApplyDone
  <2>1. SUFFICES ASSUME ApplyDone PROVE FALSE
    OBVIOUS
  <2>2. rid \in RestoreIds /\ journal' = [journal EXCEPT ![rid].status = "done"]
    BY <2>1 DEF ApplyDone, IInv, TypeOK
  <2> QED
    BY <2>2, StatusFacts DEF IInv, Statuses
<1>1. RollbackDone
  BY <1>0, <1>a, <1>b, LoudSteps DEF CopyTarget, UndoFile, AgentWrite
<1>2. rid = r /\ pc = "undo" /\ todo = {} /\ disk' = disk
  BY <1>1 DEF RollbackDone, IInv, TypeOK
<1>3. journal[r].status # "none"
  BY <1>2 DEF IInv, Working
<1> QED
  BY <1>2, <1>3 DEF CalmFiles, Recoverable

\* A rollback that reports success has restored the exact contents from before.
THEOREM RollbackIsExact == CalmSpec => RolledBackIsExact
<1>1. IInv /\ CalmFiles /\ Recoverable /\ DoneIsComplete /\ [Next /\ CalmStep]_vars =>
        [\A r \in RestoreIds :
           journal[r].status # "rolled_back" /\ journal'[r].status = "rolled_back" =>
             \A f \in Mutated(journal[r].plan) : disk'[f] = origin[r][f]]_vars
  BY RolledBackStep
<1> QED
  BY <1>1, CalmInvariance, PTL DEF CalmSpec, RolledBackIsExact

-----------------------------------------------------------------------------
(* Only appending, and the turns a calm operator takes. *)

\* Rollback of a finished restore runs while no other is unfinished, and nobody
\* else has written the files of the restore that is being applied.
CalmTurns ==
  /\ pc \in {"guard", "inspect", "undo"} /\ journal[rid].status = "done" => NoPending
  /\ pc \in {"check", "copy", "readback"} => ~disturbed[rid]

\* Staging a draft that was decided on the files as they are only appends.
LEMMA StagedAppends ==
  ASSUME draft \in Plans, disk \in [Files -> Stored],
         \A f \in DOMAIN draft : draft[f].action = Decide(f, disk[f], draft[f].after)
  PROVE  OnlyAppends(Staged(draft))
<1>1. SUFFICES ASSUME NEW f \in DOMAIN draft, Staged(draft)[f].action \in {"import", "update"}
               PROVE  \/ Staged(draft)[f].before = Absent
                      \/ Extends(Staged(draft)[f].after, Staged(draft)[f].before)
  BY DEF OnlyAppends, Mutated, Mutates, Staged
<1>2. Staged(draft)[f].action = Decide(f, disk[f], draft[f].after)
  BY <1>1 DEF Staged
<1>3. /\ Staged(draft)[f].before = disk[f]
      /\ Staged(draft)[f].after = draft[f].after
  BY <1>1, <1>2 DEF Staged, Mutates
<1>4. disk[f] = Absent \/ Extends(draft[f].after, disk[f])
  BY <1>1, <1>2 DEF Decide
<1>. QED
  BY <1>3, <1>4

\* Plans only append, in the previews as in the journals.
LEMMA CalmPlansNext ==
  IInv /\ CalmFiles /\ CalmPlans /\ [Next /\ CalmStep]_vars => CalmPlans'
<1> SUFFICES ASSUME IInv, CalmFiles, CalmPlans, [Next /\ CalmStep]_vars PROVE CalmPlans'
  OBVIOUS
<1>0. TypeOK /\ Working
  BY DEF IInv
<1>1. ASSUME NEW p \in PreviewIds, NEW b \in Bundles, PreviewBegin(p, b) PROVE CalmPlans'
  <2>1. \A q \in PreviewIds : preview'[q].plan = preview[q].plan
    BY <1>0, <1>1 DEF PreviewBegin, TypeOK
  <2>. QED
    BY <1>1, <2>1 DEF PreviewBegin, CalmPlans, OnlyAppends, Mutated
<1>2. CASE PlanStreaming
  <2>1. \A f \in DOMAIN draft' : draft'[f].action = Decide(f, disk'[f], draft'[f].after)
    BY <1>2 DEF PlanStreaming
  <2>. QED
    BY <1>2, <2>1 DEF PlanStreaming, CalmPlans, OnlyAppends, Mutated
<1>3. CASE StagePlan
  <2>1. OnlyAppends(Staged(draft))
    BY <1>0, <1>3, StagedAppends DEF TypeOK, CalmPlans, StagePlan
  <2>2. \A q \in PreviewIds : preview'[q].plan = IF q = pid THEN Staged(draft) ELSE preview[q].plan
    BY <1>0, <1>3 DEF StagePlan, TypeOK
  <2>. QED
    BY <1>3, <2>1, <2>2 DEF StagePlan, Return, CalmPlans, OnlyAppends, Mutated
<1>4. CASE ApplyPrepare
  <2>1. /\ rid \in RestoreIds /\ pid \in PreviewIds
        /\ \A r \in RestoreIds : journal'[r].plan = IF r = rid THEN preview[pid].plan ELSE journal[r].plan
    BY <1>0, <1>4 DEF ApplyPrepare, TypeOK
  <2>. QED
    BY <1>4, <2>1 DEF ApplyPrepare, CalmPlans, OnlyAppends, Mutated
<1>5. CASE ApplyDone \/ RollbackDone
  <2>1. PICK st \in {"done", "rolled_back"} : journal' = [journal EXCEPT ![rid].status = st]
    BY <1>5 DEF ApplyDone, RollbackDone
  <2>2. \A r \in RestoreIds : journal'[r].plan = journal[r].plan
    BY <1>0, <2>1 DEF TypeOK
  <2>. QED
    BY <1>5, <2>2 DEF ApplyDone, RollbackDone, Return, CalmPlans, OnlyAppends, Mutated
<1>6. CASE OperationFails
  <2>1. /\ pc' # "stage" /\ UNCHANGED <<disk, journal>>
        /\ \A q \in PreviewIds : preview'[q].plan = preview[q].plan
    BY <1>0, <1>6 DEF OperationFails, Return, Goto, TypeOK
  <2>. QED
    BY <2>1 DEF CalmPlans, OnlyAppends, Mutated
<1>7. CASE AgentStart \/ AgentStop
  <2>1. UNCHANGED <<disk, journal, preview, pc, draft>>
    BY <1>7 DEF AgentStart, AgentStop, engine, locals
  <2>. QED
    BY <2>1 DEF CalmPlans, OnlyAppends, Mutated
<1>8. ASSUME NEW f \in Files, NEW c \in Stored, AgentWrite(f, c) PROVE CalmPlans'
  <2>1. UNCHANGED <<journal, preview, pc, draft>> /\ pc # "stage"
    BY <1>8 DEF AgentWrite, engine, locals, CalmFiles
  <2>. QED
    BY <2>1 DEF CalmPlans, OnlyAppends, Mutated
<1>9. CASE UNCHANGED vars
  BY <1>9 DEF vars, engine, locals, CalmPlans, OnlyAppends, Mutated
<1>10. ASSUME UNCHANGED <<journal, preview>>, pc' # "stage" PROVE CalmPlans'
  BY <1>10 DEF CalmPlans, OnlyAppends, Mutated
<1>. QED
  BY <1>1, <1>2, <1>3, <1>4, <1>5, <1>6, <1>7, <1>8, <1>9, <1>10 DEF Next, Preview, Apply,
     RollbackSteps, Rollback, Environment, ApplyBegin, ApplyVerify, CheckTarget, CopyTarget,
     ReadBack, RollbackBegin, RollbackGuard, RollbackInspect, UndoFile, Crash, Return, Goto

\* The restore at work keeps its turn.
LEMMA CalmTurnsNext ==
  IInv /\ CalmFiles /\ CalmTurns /\ [Next /\ CalmStep]_vars => CalmTurns'
<1> SUFFICES ASSUME IInv, CalmFiles, CalmTurns, [Next /\ CalmStep]_vars PROVE CalmTurns'
  OBVIOUS
<1> USE DEF CalmTurns
<1>0. TypeOK /\ Working
  BY DEF IInv
<1>1. CASE Preview
  BY <1>1 DEF Preview, PreviewBegin, PlanStreaming, StagePlan, Return
<1>2. CASE ApplyPrepare
  <2>1. /\ rid \in RestoreIds /\ rid' = rid /\ disturbed' = disturbed /\ pc' = "check"
        /\ journal[rid].status = "none"
    BY <1>0, <1>2 DEF ApplyPrepare, TypeOK, Working
  <2>. QED
    BY <2>1 DEF CalmFiles
<1>3. CASE CopyTarget
  <2>1. disturbed'[rid] = disturbed[rid]
    BY <1>0, <1>3 DEF CopyTarget, Disturb, TypeOK, Working
  <2>. QED
    BY <1>3, <2>1 DEF CopyTarget
<1>4. ASSUME NEW r \in RestoreIds, RollbackBegin(r) PROVE CalmTurns'
  <2>1. pc = "idle" /\ pc' = "guard" /\ rid' = r /\ journal' = journal
    BY <1>4 DEF RollbackBegin
  <2>2. CalmStep
    BY <2>1 DEF vars, engine
  <2>3. journal[r].status = "done" => NoPending
    BY <2>1, <2>2 DEF CalmStep
  <2>. QED
    BY <2>1, <2>3 DEF NoPending
<1>5. ASSUME NEW f \in Files, UndoFile(f) PROVE CalmTurns'
  BY <1>5 DEF UndoFile, NoPending
<1>6. ASSUME NEW f \in Files, NEW c \in Stored, AgentWrite(f, c) PROVE CalmTurns'
  <2>1. UNCHANGED <<journal, pc, rid>> /\ pc \in {"idle", "guard"}
    BY <1>0, <1>6 DEF AgentWrite, engine, locals, CalmFiles, TypeOK
  <2>. QED
    BY <2>1 DEF NoPending
<1>7. CASE UNCHANGED vars \/ AgentStart \/ AgentStop
  BY <1>7 DEF vars, engine, locals, history, NoPending, AgentStart, AgentStop
<1>8. CASE OperationFails
  <2>1. /\ UNCHANGED <<journal, disturbed>>
        /\ \/ pc' = "idle"
           \/ pc' = "guard" /\ rid' = rid /\ pc \in {"check", "copy", "readback"}
    BY <1>8 DEF OperationFails, Return, Goto, locals, history
  <2>. QED
    BY <1>0, <2>1 DEF Working
<1>9. CASE Crash \/ ApplyDone \/ RollbackDone
  BY <1>9 DEF Crash, ApplyDone, RollbackDone, Return
<1>10. CASE ApplyVerify \/ ReadBack \/ RollbackGuard \/ RollbackInspect
  BY <1>0, <1>10 DEF ApplyVerify, ReadBack, RollbackGuard, RollbackInspect, Return, Goto,
     locals, history, NoPending, Working
<1>11. ASSUME NEW f \in Files, CheckTarget(f) PROVE CalmTurns'
  BY <1>0, <1>11 DEF CheckTarget, history, NoPending, Working
<1>12. ASSUME NEW p \in PreviewIds, NEW r \in RestoreIds, ApplyBegin(p, r) PROVE CalmTurns'
  BY <1>12 DEF ApplyBegin
<1>. QED
  BY <1>1, <1>2, <1>3, <1>4, <1>5, <1>6, <1>7, <1>8, <1>9, <1>10, <1>11, <1>12
     DEF Next, Apply, RollbackSteps, Rollback, Environment

-----------------------------------------------------------------------------
\* The inductive invariant of calm use with the plans and the turns.
CalmInv == IInv /\ CalmFiles /\ Recoverable /\ DoneIsComplete /\ CalmPlans /\ CalmTurns

LEMMA CalmInvInit == Init => CalmInv
<1> SUFFICES ASSUME Init PROVE CalmInv
  OBVIOUS
<1>1. OnlyAppends(NoPlan)
  BY DEF OnlyAppends, Mutated, NoPlan
<1>2. CalmPlans
  BY <1>1 DEF Init, CalmPlans
<1>3. CalmTurns
  BY DEF Init, CalmTurns
<1>. QED
  BY <1>2, <1>3, IInvInit, CalmInit DEF CalmInv

LEMMA CalmInvNext == CalmInv /\ [Next /\ CalmStep]_vars => CalmInv'
BY IInvNext, CalmFilesNext, RecoverableNext, DoneNext, CalmPlansNext, CalmTurnsNext DEF CalmInv

\* What the engine overwrites is a prefix of what it writes, or its own writing.
LEMMA NothingLostStep ==
  ASSUME CalmInv, [Next /\ CalmStep]_vars, NEW f \in Files, disk'[f] # disk[f]
  PROVE  /\ Copying => disk[f] = Absent \/ Extends(disk'[f], disk[f])
         /\ Restoring => disk[f] = journal[rid].plan[f].after
<1>0. TypeOK /\ Working
  BY DEF CalmInv, IInv
<1>1. CASE CopyTarget
  <2>1. /\ rid \in RestoreIds /\ cur \in todo /\ cur \in Mutated(journal[rid].plan)
        /\ pc = "copy"
    BY <1>0, <1>1 DEF CopyTarget, TypeOK, Working
  <2>2. f = cur /\ disk'[cur] = journal[rid].plan[cur].after
    BY <1>0, <1>1 DEF CopyTarget, TypeOK
  <2>3. disk[cur] = journal[rid].plan[cur].before
    BY <2>1 DEF CalmInv, CalmFiles
  <2>4. OnlyAppends(journal[rid].plan)
    BY <2>1 DEF CalmInv, CalmPlans
  <2>. QED
    BY <2>1, <2>2, <2>3, <2>4 DEF OnlyAppends, Restoring
<1>2. ASSUME NEW g \in Files, UndoFile(g)
      PROVE  /\ Copying => disk[f] = Absent \/ Extends(disk'[f], disk[f])
             /\ Restoring => disk[f] = journal[rid].plan[f].after
  <2>1. /\ rid \in RestoreIds /\ g \in todo /\ g \in Mutated(journal[rid].plan)
        /\ pc = "undo"
    BY <1>0, <1>2 DEF UndoFile, TypeOK, Working
  <2>2. f = g /\ disk'[g] = IF journal[rid].plan[g].before = Absent THEN Absent
                                                        ELSE journal[rid].backup[g]
    BY <1>0, <1>2 DEF UndoFile, TypeOK
  <2>3. disk'[g] = journal[rid].plan[g].before
    BY <1>0, <2>1, <2>2 DEF Working, BackedUp
  <2>4. disk[g] \in {journal[rid].plan[g].before, journal[rid].plan[g].after}
    BY <2>1 DEF CalmInv, CalmFiles
  <2>. QED
    BY <2>1, <2>2, <2>3, <2>4 DEF Copying
<1>3. ASSUME NEW g \in Files, NEW c \in Stored, AgentWrite(g, c) PROVE ~Copying /\ ~Restoring
  BY <1>3 DEF AgentWrite, engine, locals, Copying, Restoring
<1>4. UNCHANGED disk => disk'[f] = disk[f]
  OBVIOUS
<1>. QED
  BY <1>1, <1>2, <1>3, <1>4, LoudSteps DEF ApplyPrepare, ApplyDone, RollbackDone

\* Nothing the agent recorded is destroyed without a copy: Apply appends to what it
\* replaces and Rollback takes away only what the restore itself had written.
THEOREM NeverDestroys == CalmSpec => NothingLost
<1>1. CalmInv /\ [Next /\ CalmStep]_vars =>
        [\A f \in Files :
           disk'[f] # disk[f] =>
             /\ Copying => disk[f] = Absent \/ Extends(disk'[f], disk[f])
             /\ Restoring => disk[f] = journal[rid].plan[f].after]_vars
  BY NothingLostStep
<1>. QED
  BY <1>1, CalmInvInit, CalmInvNext, PTL DEF CalmSpec, NothingLost

-----------------------------------------------------------------------------
(* The refinement. *)

\* A file that an unfinished restore r has written, and one that the rollback of
\* the finished restore r is putting back.
Masks(r, f) ==
  /\ journal[r].status = "prepared" /\ f \in Mutated(journal[r].plan)
  /\ disk[f] = journal[r].plan[f].after

Keeps(r, f) ==
  /\ journal[r].status = "done" /\ Undoing(r) /\ ~disturbed[r]
  /\ f \in Mutated(journal[r].plan)

\* What View shows of each file.
ViewFacts ==
  /\ View = [f \in Files |-> View[f]]
  /\ OneUnfinished =>
    \A f \in Files :
      /\ \A r \in RestoreIds : Masks(r, f) => View[f] = journal[r].plan[f].before
      /\ \A r \in RestoreIds : (Keeps(r, f) /\ \A s \in RestoreIds : ~Masks(s, f)) =>
           View[f] = journal[r].plan[f].after
      /\ (\A r \in RestoreIds : ~Masks(r, f) /\ ~Keeps(r, f)) => View[f] = disk[f]

LEMMA ViewHolds == ViewFacts
<1> SUFFICES ASSUME OneUnfinished, NEW f \in Files
             PROVE  /\ \A r \in RestoreIds : Masks(r, f) => View[f] = journal[r].plan[f].before
                    /\ \A r \in RestoreIds : (Keeps(r, f) /\ \A s \in RestoreIds : ~Masks(s, f)) =>
                         View[f] = journal[r].plan[f].after
                    /\ (\A r \in RestoreIds : ~Masks(r, f) /\ ~Keeps(r, f)) => View[f] = disk[f]
  <2>1. View = [f \in Files |-> View[f]]
    BY DEF View
  <2>. QED
    BY <2>1 DEF ViewFacts
<1> DEFINE M == {r \in RestoreIds : Masks(r, f)}
           K == {r \in RestoreIds : Keeps(r, f)}
<1>1. View[f] = CASE M # {} -> journal[CHOOSE r \in M : TRUE].plan[f].before
                  [] M = {} /\ K # {} -> journal[CHOOSE r \in K : TRUE].plan[f].after
                  [] OTHER -> disk[f]
  <2>1. M = {r \in RestoreIds : /\ f \in Mutated(journal[r].plan)
                                /\ journal[r].status = "prepared"
                                /\ disk[f] = journal[r].plan[f].after}
    BY DEF Masks
  <2>2. K = {r \in RestoreIds : /\ f \in Mutated(journal[r].plan)
                                /\ journal[r].status = "done"
                                /\ Undoing(r) /\ ~disturbed[r]}
    BY DEF Keeps
  <2>. HIDE DEF M, K
  <2>. QED
    BY <2>1, <2>2 DEF View, Shown
<1>2. ASSUME NEW r \in M PROVE (CHOOSE s \in M : TRUE) = r
  BY <1>2 DEF OneUnfinished, Masks
<1>3. ASSUME NEW r \in K PROVE (CHOOSE s \in K : TRUE) = r
  BY <1>3 DEF Keeps, Undoing
<1>. HIDE DEF M, K
<1>4. ASSUME NEW r \in RestoreIds, Masks(r, f) PROVE View[f] = journal[r].plan[f].before
  <2>1. r \in M
    BY <1>4 DEF M
  <2>2. M # {} /\ (CHOOSE s \in M : TRUE) = r
    BY <1>2, <2>1
  <2>3. View[f] = journal[CHOOSE s \in M : TRUE].plan[f].before
    BY <1>1, <2>2
  <2>. QED
    BY <2>2, <2>3
<1>5. ASSUME NEW r \in RestoreIds, Keeps(r, f), \A s \in RestoreIds : ~Masks(s, f)
      PROVE  View[f] = journal[r].plan[f].after
  <2>1. r \in K /\ M = {}
    BY <1>5 DEF K, M
  <2>. QED
    BY <1>1, <1>3, <2>1
<1>6. ASSUME \A r \in RestoreIds : ~Masks(r, f) /\ ~Keeps(r, f) PROVE View[f] = disk[f]
  <2>1. M = {} /\ K = {}
    BY <1>6 DEF K, M
  <2>. QED
    BY <1>1, <2>1
<1>. QED
  BY <1>4, <1>5, <1>6

-----------------------------------------------------------------------------
\* While no restore is unfinished nothing is masked; outside "undo" nothing is kept.
LEMMA NothingHidden ==
  ASSUME TypeOK, NEW r \in RestoreIds, NEW f \in Files
  PROVE  /\ NoPending => ~Masks(r, f)
         /\ pc # "undo" => ~Keeps(r, f)
         /\ journal[r].status # "prepared" => ~Masks(r, f)
         /\ f \notin Mutated(journal[r].plan) => ~Masks(r, f) /\ ~Keeps(r, f)
         /\ rid # r => ~Keeps(r, f)
BY DEF NoPending, Masks, Keeps, Undoing

\* The phases of AtomicRestore are the statuses of the journals.
LEMMA Phases ==
  ASSUME TypeOK, NEW r \in RestoreIds
  PROVE  /\ Phase(r) = "none" <=> journal[r].status = "none"
         /\ Phase(r) = "open" <=> journal[r].status = "prepared"
         /\ Phase(r) = "applied" <=> journal[r].status = "done"
         /\ Phase(r) = "undone" <=> journal[r].status = "rolled_back"
<1>1. journal[r].status \in {"none", "prepared", "done", "rolled_back"}
  BY DEF TypeOK, Statuses
<1>. QED
  BY <1>1 DEF Phase

PhaseFacts ==
  TypeOK =>
    \A r \in RestoreIds :
      /\ Phase(r) = "none" <=> journal[r].status = "none"
      /\ Phase(r) = "open" <=> journal[r].status = "prepared"
      /\ Phase(r) = "applied" <=> journal[r].status = "done"
      /\ Phase(r) = "undone" <=> journal[r].status = "rolled_back"

LEMMA PhasesHold == PhaseFacts
BY Phases DEF PhaseFacts

\* What a step of the refinement may use of the states before and after it.
Around == /\ CalmInv /\ CalmInv' /\ [Next /\ CalmStep]_vars
          /\ ViewFacts /\ ViewFacts' /\ PhaseFacts /\ PhaseFacts'

\* A finished restore is put back to the end in calm use.
LEMMA UndoingStays ==
  ASSUME Around, UNCHANGED journal, NEW r \in RestoreIds, Undoing(r), journal[r].status = "done"
  PROVE  Undoing(r)'
<1>1. CASE UNCHANGED vars
  BY <1>1 DEF Undoing, vars, engine, locals
<1>2. CASE Next /\ CalmStep
  <2>1. pc = "undo" /\ rid = r
    BY DEF Undoing
  <2>2. pc' = "idle" \/ (pc' = pc /\ rid' = rid)
    BY <1>2, <2>1 DEF Next, Preview, Apply, RollbackSteps, Rollback, Environment,
       PreviewBegin, PlanStreaming, StagePlan, ApplyBegin, ApplyVerify, ApplyPrepare,
       CheckTarget, CopyTarget, ReadBack, ApplyDone, RollbackBegin, RollbackGuard,
       RollbackInspect, UndoFile, RollbackDone, OperationFails, Crash, Return, Goto,
       AgentStart, AgentStop, AgentWrite, engine, locals
  <2>3. pc' # "idle"
    BY <1>2, <2>1 DEF CalmStep, Undoing
  <2>. QED
    BY <2>1, <2>2, <2>3 DEF Undoing
<1>. QED
  BY <1>1, <1>2 DEF Around

\* Steps that change no file, journal or history are not seen, but for the agent's
\* start and stop.
LEMMA QuietStep ==
  ASSUME Around, UNCHANGED <<disk, journal, history>>
  PROVE  [Atomic!Next]_(Atomic!vars)
<1>0. /\ TypeOK /\ OneUnfinished /\ DoneIsComplete /\ TypeOK' /\ OneUnfinished'
      /\ UNCHANGED <<disk, journal, disturbed>>
  BY DEF Around, CalmInv, IInv, history
<1>1. ASSUME NEW f \in Files PROVE View'[f] = View[f]
  <2>1. \A r \in RestoreIds : Masks(r, f)' = Masks(r, f)
    BY <1>0 DEF Masks
  <2>2. CASE \E r \in RestoreIds : Masks(r, f)
    BY <1>0, <2>1, <2>2 DEF Around, ViewFacts
  <2>3. CASE \A r \in RestoreIds : ~Masks(r, f)
    <3>1. ASSUME NEW r \in RestoreIds, Keeps(r, f) PROVE View'[f] = View[f]
      <4>1. Keeps(r, f)'
        BY <1>0, <3>1, UndoingStays DEF Keeps, Mutated
      <4>. QED
        BY <1>0, <2>1, <2>3, <3>1, <4>1 DEF Around, ViewFacts
    <3>2. ASSUME NEW r \in RestoreIds, Keeps(r, f)', \A s \in RestoreIds : ~Keeps(s, f)
          PROVE  View'[f] = View[f]
      <4>1. /\ f \in Mutated(journal[r].plan) /\ journal[r].status = "done" /\ ~disturbed[r]
            /\ ~Undoing(r)
        BY <1>0, <3>2 DEF Keeps, Mutated
      <4>2. disk[f] = journal[r].plan[f].after
        BY <1>0, <4>1 DEF DoneIsComplete
      <4>3. View[f] = disk[f]
        BY <1>0, <2>3, <3>2 DEF Around, ViewFacts
      <4>4. View'[f] = journal[r].plan[f].after
        BY <1>0, <2>1, <2>3, <3>2 DEF Around, ViewFacts
      <4>. QED
        BY <4>2, <4>3, <4>4
    <3>3. CASE \A r \in RestoreIds : ~Keeps(r, f) /\ ~Keeps(r, f)'
      BY <1>0, <2>1, <2>3, <3>3 DEF Around, ViewFacts
    <3>. QED
      BY <3>1, <3>2, <3>3
  <2>. QED
    BY <2>2, <2>3
<1>2. View' = View
  BY <1>1 DEF Around, ViewFacts
<1>3. \A r \in RestoreIds : Phase(r)' = Phase(r)
  BY <1>0 DEF Phase
<1>4. CASE agent' = agent
  BY <1>0, <1>2, <1>3, <1>4 DEF Atomic!vars
<1>5. CASE agent' # agent
  <2>1. agent' = ~agent
    BY <1>0, <1>5 DEF TypeOK
  <2>. QED
    BY <1>0, <1>2, <1>3, <2>1 DEF Atomic!Next, Atomic!StartOrStop
<1>. QED
  BY <1>4, <1>5

-----------------------------------------------------------------------------
\* Preparing a journal opens the restore on the files as they are.
LEMMA PrepareOpens ==
  ASSUME Around, ApplyPrepare, NEW q \in RestoreIds, q = rid
  PROVE  Atomic!Next
<1> DEFINE p == preview[pid].plan
<1>0. /\ TypeOK /\ TypeOK' /\ OneUnfinished /\ OneUnfinished'
      /\ pid \in PreviewIds /\ p \in Plans
      /\ NoPending /\ pc = "prepare" /\ pc' = "check" /\ Unchanged(p)
      /\ journal[q].status = "none"
      /\ disk' = disk /\ agent' = agent /\ disturbed' = disturbed
  BY DEF Around, CalmInv, CalmFiles, IInv, TypeOK, Working, ApplyPrepare
<1>1. /\ journal'[q].status = "prepared" /\ journal'[q].plan = p
      /\ \A r \in RestoreIds : r # q => journal'[r] = journal[r]
  BY <1>0 DEF ApplyPrepare, TypeOK
<1>. HIDE DEF p
<1>2. \A f \in Files : View[f] = disk[f]
  BY <1>0, NothingHidden DEF Around, ViewFacts
<1>3. ASSUME NEW f \in Files PROVE View'[f] = disk[f]
  <2>1. \A r \in RestoreIds : ~Keeps(r, f)'
    BY <1>0 DEF Keeps, Undoing
  <2>2. CASE Masks(q, f)'
    <3>1. View'[f] = p[f].before /\ f \in Mutated(p)
      BY <1>0, <1>1, <2>2 DEF Around, ViewFacts, Masks, Mutated
    <3>. QED
      BY <1>0, <3>1, PlanFacts DEF Unchanged
  <2>3. CASE ~Masks(q, f)'
    <3>1. \A r \in RestoreIds : r # q => ~Masks(r, f)'
      BY <1>0, <1>1 DEF Masks, NoPending
    <3>2. View'[f] = disk'[f]
      BY <1>0, <2>1, <2>3, <3>1 DEF Around, ViewFacts
    <3>. QED
      BY <1>0, <3>2
  <2>. QED
    BY <2>2, <2>3
<1>4. View' = View
  BY <1>2, <1>3 DEF Around, ViewFacts
<1> DEFINE phase == [r \in RestoreIds |-> Phase(r)]
           plan == [r \in RestoreIds |-> journal[r].plan]
<1>5. phase[q] = "none" /\ \A s \in RestoreIds : phase[s] # "open"
  BY <1>0 DEF Around, PhaseFacts, NoPending
<1>6. phase' = [phase EXCEPT ![q] = "open"]
  <2>1. Phase(q)' = "open"
    BY <1>0, <1>1 DEF Phase
  <2>2. \A r \in RestoreIds : r # q => Phase(r)' = Phase(r)
    BY <1>1 DEF Phase
  <2>. QED
    BY <2>1, <2>2
<1>7. plan'[q] = p /\ plan' = [plan EXCEPT ![q] = plan'[q]]
  BY <1>0, <1>1
<1>8. \A f \in DOMAIN p : p[f].before = View[f]
  BY <1>0, <1>2, PlanFacts DEF Unchanged
<1>9. Atomic!Open(q)
  BY <1>0, <1>4, <1>5, <1>6, <1>7, <1>8 DEF Atomic!Open
<1>. QED
  BY <1>0, <1>9 DEF Atomic!Next

\* The files of AtomicRestore's disturbances are the engine's.
LEMMA SharedAlike ==
  ASSUME Around, NEW r \in RestoreIds, NEW f \in Files
  PROVE  Atomic!Sharing(r, f) = (journal[r].status # "none" /\ f \in Mutated(journal[r].plan))
BY DEF Around, CalmInv, IInv, PhaseFacts, Atomic!Sharing, Atomic!Written, Mutated, Mutates

\* Copying a file of an open restore is not seen.
LEMMA CopyTouches ==
  ASSUME Around, CopyTarget, NEW q \in RestoreIds, q = rid,
         NEW c \in Files, c = cur
  PROVE  Atomic!Next
<1>0. /\ TypeOK /\ TypeOK' /\ OneUnfinished /\ OneUnfinished'
      /\ c \in Mutated(journal[q].plan)
      /\ journal[q].status = "prepared" /\ pc = "copy" /\ pc' = "readback"
      /\ disk[c] = journal[q].plan[c].before
      /\ disk' = [disk EXCEPT ![c] = journal[q].plan[c].after]
      /\ journal' = journal /\ agent' = agent /\ disturbed' = Disturb(q, c)
  BY DEF Around, CalmInv, CalmFiles, IInv, TypeOK, Working, CopyTarget
<1>1. ASSUME NEW f \in Files PROVE View'[f] = View[f]
  <2>1. \A r \in RestoreIds : ~Keeps(r, f) /\ ~Keeps(r, f)'
    BY <1>0 DEF Keeps, Undoing
  <2>2. \A r \in RestoreIds : r # q => ~Masks(r, f) /\ ~Masks(r, f)'
    BY <1>0 DEF Masks, OneUnfinished
  <2>3. CASE f = c
    <3>1. View[f] = journal[q].plan[f].before
      BY <1>0, <2>1, <2>2, <2>3 DEF Around, ViewFacts
    <3>2. Masks(q, f)'
      BY <1>0, <2>3 DEF Masks, TypeOK, Mutated
    <3>3. View'[f] = journal'[q].plan[f].before
      BY <1>0, <3>2 DEF Around, ViewFacts
    <3>. QED
      BY <1>0, <3>1, <3>3
  <2>4. CASE f # c
    <3>1. disk'[f] = disk[f]
      BY <1>0, <2>4 DEF TypeOK
    <3>2. Masks(q, f)' = Masks(q, f)
      BY <1>0, <3>1 DEF Masks, Mutated
    <3>. QED
      BY <1>0, <2>1, <2>2, <3>1, <3>2 DEF Around, ViewFacts
  <2>. QED
    BY <2>3, <2>4
<1>2. View' = View
  BY <1>1 DEF Around, ViewFacts
<1>3. \A r \in RestoreIds : Phase(r)' = Phase(r)
  BY <1>0 DEF Phase
<1>4. disturbed' = [s \in RestoreIds |-> disturbed[s] \/ (s # q /\ Atomic!Sharing(s, c))]
  BY <1>0, SharedAlike DEF Disturb
<1>5. Phase(q) = "open" /\ c \in Atomic!Written(journal[q].plan)
  BY <1>0 DEF Around, PhaseFacts, Atomic!Written, Mutated, Mutates
<1>6. Atomic!Touch(q, c)
  BY <1>0, <1>2, <1>3, <1>4, <1>5 DEF Atomic!Touch
<1>. QED
  BY <1>0, <1>6 DEF Atomic!Next

-----------------------------------------------------------------------------
\* When the journal says done all the files of the restore are seen at once.
LEMMA DoneCommits ==
  ASSUME Around, ApplyDone, NEW q \in RestoreIds, q = rid
  PROVE  Atomic!Next
<1>0. /\ TypeOK /\ TypeOK' /\ OneUnfinished /\ OneUnfinished'
      /\ journal[q].status = "prepared" /\ ~disturbed[q]
      /\ pc = "check" /\ pc' = "idle" /\ todo = {}
      /\ journal' = [journal EXCEPT ![q].status = "done"]
      /\ disk' = disk /\ agent' = agent /\ disturbed' = disturbed
  BY DEF Around, CalmInv, CalmTurns, IInv, Working, ApplyDone, Return, history
<1>1. /\ \A r \in RestoreIds : journal'[r].plan = journal[r].plan
      /\ \A r \in RestoreIds : journal'[r].status = IF r = q THEN "done" ELSE journal[r].status
  BY <1>0, StatusFacts DEF Statuses
<1>2. ASSUME NEW f \in Files
      PROVE  View'[f] = IF f \in Mutated(journal[q].plan) THEN journal[q].plan[f].after ELSE View[f]
  <2>1. \A r \in RestoreIds : ~Keeps(r, f) /\ ~Keeps(r, f)'
    BY <1>0 DEF Keeps, Undoing
  <2>2. \A r \in RestoreIds : ~Masks(r, f)'
    BY <1>0, <1>1 DEF Masks, OneUnfinished
  <2>3. View'[f] = disk[f]
    BY <1>0, <2>1, <2>2 DEF Around, ViewFacts
  <2>4. CASE f \in Mutated(journal[q].plan)
    <3>1. disk[f] = journal[q].plan[f].after
      BY <1>0, <2>4 DEF Around, CalmInv, CalmFiles
    <3>. QED
      BY <2>3, <2>4, <3>1
  <2>5. CASE f \notin Mutated(journal[q].plan)
    <3>1. \A r \in RestoreIds : ~Masks(r, f)
      BY <1>0, <2>5 DEF Masks, OneUnfinished
    <3>2. View[f] = disk[f]
      BY <1>0, <2>1, <3>1 DEF Around, ViewFacts
    <3>. QED
      BY <2>3, <2>5, <3>2
  <2>. QED
    BY <2>4, <2>5
<1>3. View' = [f \in Files |-> IF f \in Atomic!Written(journal[q].plan)
                                 THEN journal[q].plan[f].after ELSE View[f]]
  BY <1>2 DEF Around, ViewFacts, Atomic!Written, Mutated, Mutates
<1>4. \A r \in RestoreIds : Phase(r)' = IF r = q THEN "applied" ELSE Phase(r)
  <2>1. Phase(q)' = "applied"
    BY <1>0, <1>1 DEF Around, PhaseFacts
  <2>2. \A r \in RestoreIds : r # q => Phase(r)' = Phase(r)
    BY <1>1 DEF Phase
  <2>. QED
    BY <2>1, <2>2
<1>5. Phase(q) = "open"
  BY <1>0 DEF Around, PhaseFacts
<1>6. Atomic!Commit(q)
  BY <1>0, <1>1, <1>3, <1>4, <1>5 DEF Atomic!Commit
<1>. QED
  BY <1>6 DEF Atomic!Next

\* Putting a file back is not seen, unless somebody has written files of the
\* restore: then each file is put back by itself.
LEMMA UndoTouches ==
  ASSUME Around, NEW g \in Files, UndoFile(g), NEW q \in RestoreIds, q = rid
  PROVE  Atomic!Next
<1> DEFINE old == journal[q].plan[g].before
<1>0. /\ TypeOK /\ TypeOK' /\ OneUnfinished /\ OneUnfinished'
      /\ g \in Mutated(journal[q].plan) /\ journal[q].status \in {"prepared", "done"}
      /\ pc = "undo" /\ pc' = "undo" /\ rid' = q
      /\ disk[g] \in {old, journal[q].plan[g].after}
      /\ journal' = journal /\ agent' = agent /\ disturbed' = Disturb(q, g)
  BY DEF Around, CalmInv, CalmFiles, IInv, TypeOK, Working, UndoFile
<1>1. disk' = [disk EXCEPT ![g] = old]
  BY <1>0 DEF Around, CalmInv, IInv, Working, BackedUp, UndoFile
<1>. HIDE DEF old
<1>2. disturbed'[q] = disturbed[q]
  BY <1>0 DEF Disturb, TypeOK
<1>3. \A f \in Files : disk'[f] = IF f = g THEN old ELSE disk[f]
  BY <1>0, <1>1 DEF TypeOK
<1>4. \A r \in RestoreIds : Phase(r)' = Phase(r)
  BY <1>0 DEF Phase
<1>5. disturbed' = [s \in RestoreIds |-> disturbed[s] \/ (s # q /\ Atomic!Sharing(s, g))]
  BY <1>0, SharedAlike DEF Disturb
<1>6. Phase(q) \in {"open", "applied"} /\ g \in Atomic!Written(journal[q].plan)
  BY <1>0 DEF Around, PhaseFacts, Atomic!Written, Mutated, Mutates
<1>7. \A r \in RestoreIds, f \in Files : Keeps(r, f) <=>
        /\ r = q /\ journal[q].status = "done" /\ ~disturbed[q]
        /\ f \in Mutated(journal[q].plan)
  BY <1>0 DEF Keeps, Undoing
<1>8. \A r \in RestoreIds, f \in Files : Keeps(r, f)' <=> Keeps(r, f)
  BY <1>0, <1>2 DEF Keeps, Undoing, Mutated
<1>9. ASSUME View' = View PROVE Atomic!Next
  <2>1. Atomic!Touch(q, g)
    BY <1>0, <1>4, <1>5, <1>6, <1>9 DEF Atomic!Touch
  <2>. QED
    BY <2>1 DEF Atomic!Next
<1>10. CASE journal[q].status = "prepared"
  <2>1. ASSUME NEW f \in Files PROVE View'[f] = View[f]
    <3>1. \A r \in RestoreIds : ~Keeps(r, f) /\ ~Keeps(r, f)'
      BY <1>7, <1>8, <1>10
    <3>2. \A r \in RestoreIds : r # q => ~Masks(r, f) /\ ~Masks(r, f)'
      BY <1>0, <1>10 DEF Masks, OneUnfinished
    <3>3. CASE f = g
      <4>1. View[f] = old
        <5>1. CASE Masks(q, f)
          BY <1>0, <3>3, <5>1 DEF Around, ViewFacts, old
        <5>2. CASE ~Masks(q, f)
          <6>1. View[f] = disk[f]
            BY <1>0, <3>1, <3>2, <5>2 DEF Around, ViewFacts
          <6>2. disk[f] = old
            BY <1>0, <1>10, <3>3, <5>2 DEF Masks
          <6>. QED
            BY <6>1, <6>2
        <5>. QED
          BY <5>1, <5>2
      <4>2. View'[f] = old
        BY <1>0, <1>3, <3>1, <3>2, <3>3 DEF Around, ViewFacts, old
      <4>. QED
        BY <4>1, <4>2
    <3>4. CASE f # g
      <4>1. Masks(q, f)' = Masks(q, f)
        BY <1>0, <1>3, <3>4 DEF Masks, Mutated
      <4>. QED
        BY <1>0, <1>3, <3>1, <3>2, <3>4, <4>1 DEF Around, ViewFacts
    <3>. QED
      BY <3>3, <3>4
  <2>. QED
    BY <1>9, <2>1 DEF Around, ViewFacts
<1>11. CASE journal[q].status = "done"
  <2>1. NoPending /\ \A r \in RestoreIds, f \in Files : ~Masks(r, f) /\ ~Masks(r, f)'
    BY <1>0, <1>11 DEF Around, CalmInv, CalmTurns, NoPending, Masks
  <2>2. CASE ~disturbed[q]
    <3>1. ASSUME NEW f \in Files PROVE View'[f] = View[f]
      <4>1. CASE f \in Mutated(journal[q].plan)
        <5>1. Keeps(q, f) /\ Keeps(q, f)'
          BY <1>7, <1>8, <1>11, <2>2, <4>1
        <5>. QED
          BY <1>0, <2>1, <5>1 DEF Around, ViewFacts
      <4>2. CASE f \notin Mutated(journal[q].plan)
        <5>1. \A r \in RestoreIds : ~Keeps(r, f) /\ ~Keeps(r, f)'
          BY <1>7, <1>8, <4>2
        <5>. QED
          BY <1>0, <1>3, <2>1, <4>2, <5>1 DEF Around, ViewFacts
      <4>. QED
        BY <4>1, <4>2
    <3>. QED
      BY <1>9, <3>1 DEF Around, ViewFacts
  <2>3. CASE disturbed[q]
    <3>1. \A r \in RestoreIds, f \in Files : ~Keeps(r, f) /\ ~Keeps(r, f)'
      BY <1>7, <1>8, <2>3
    <3>2. \A f \in Files : View[f] = disk[f] /\ View'[f] = disk'[f]
      BY <1>0, <2>1, <3>1 DEF Around, ViewFacts
    <3>3. View' = [View EXCEPT ![g] = old]
      BY <1>3, <3>2 DEF Around, ViewFacts
    <3>4. Phase(q) = "applied"
      BY <1>0, <1>11 DEF Around, PhaseFacts
    <3>5. Atomic!UndoOne(q, g)
      BY <1>0, <1>4, <1>5, <1>6, <2>3, <3>3, <3>4 DEF Atomic!UndoOne, old
    <3>. QED
      BY <3>5 DEF Atomic!Next
  <2>. QED
    BY <2>2, <2>3
<1>. QED
  BY <1>0, <1>10, <1>11

-----------------------------------------------------------------------------
\* When the journal says rolled back all the files are as the restore found them.
LEMMA RolledBackUndoes ==
  ASSUME Around, RollbackDone, NEW q \in RestoreIds, q = rid
  PROVE  Atomic!Next
<1>0. /\ TypeOK /\ TypeOK' /\ OneUnfinished /\ OneUnfinished'
      /\ journal[q].status \in {"prepared", "done"}
      /\ pc = "undo" /\ pc' = "idle" /\ todo = {}
      /\ journal' = [journal EXCEPT ![q].status = "rolled_back"]
      /\ disk' = disk /\ agent' = agent /\ disturbed' = disturbed
  BY DEF Around, CalmInv, IInv, Working, RollbackDone, Return, history
<1>1. /\ \A r \in RestoreIds : journal'[r].plan = journal[r].plan
      /\ \A r \in RestoreIds :
           journal'[r].status = IF r = q THEN "rolled_back" ELSE journal[r].status
  BY <1>0, StatusFacts DEF Statuses
<1>2. \A f \in Mutated(journal[q].plan) : disk[f] = journal[q].plan[f].before
  BY <1>0 DEF Around, CalmInv, CalmFiles
<1>3. /\ \A r \in RestoreIds, f \in Files : ~Masks(r, f)' /\ ~Keeps(r, f)'
      /\ \A r \in RestoreIds, f \in Files : r # q => ~Masks(r, f) /\ ~Keeps(r, f)
  <2>1. \A r \in RestoreIds : r # q => journal[r].status # "prepared"
    BY <1>0 DEF OneUnfinished, Around, CalmInv, CalmTurns, NoPending
  <2>. QED
    BY <1>0, <1>1, <2>1 DEF Masks, Keeps, Undoing
<1>4. \A f \in Files : View'[f] = disk[f]
  BY <1>0, <1>3 DEF Around, ViewFacts
<1>5. \A f \in Files : f \notin Mutated(journal[q].plan) => View[f] = disk[f]
  BY <1>0, <1>3 DEF Around, ViewFacts, Masks, Keeps
<1>6. \A r \in RestoreIds : Phase(r)' = IF r = q THEN "undone" ELSE Phase(r)
  <2>1. Phase(q)' = "undone"
    BY <1>0, <1>1 DEF Around, PhaseFacts
  <2>2. \A r \in RestoreIds : r # q => Phase(r)' = Phase(r)
    BY <1>1 DEF Phase
  <2>. QED
    BY <2>1, <2>2
<1>7. CASE journal[q].status = "prepared"
  <2>1. ASSUME NEW f \in Mutated(journal[q].plan), f \in Files PROVE View[f] = disk[f]
    <3>1. ~Keeps(q, f)
      BY <1>7 DEF Keeps
    <3>2. Masks(q, f) => View[f] = disk[f]
      BY <1>0, <1>2, <2>1 DEF Around, ViewFacts
    <3>. QED
      BY <1>0, <1>3, <2>1, <3>1, <3>2 DEF Around, ViewFacts
  <2>2. View' = View
    BY <1>4, <1>5, <2>1 DEF Around, ViewFacts
  <2>3. Phase(q) = "open"
    BY <1>0, <1>7 DEF Around, PhaseFacts
  <2>4. Atomic!Abort(q)
    BY <1>0, <1>1, <1>6, <2>2, <2>3 DEF Atomic!Abort
  <2>. QED
    BY <2>4 DEF Atomic!Next
<1>8. CASE journal[q].status = "done"
  <2>1. View' = [f \in Files |-> IF f \in Atomic!Written(journal[q].plan)
                                   THEN journal[q].plan[f].before ELSE View[f]]
    BY <1>2, <1>4, <1>5 DEF Around, ViewFacts, Atomic!Written, Mutated, Mutates
  <2>2. Phase(q) = "applied"
    BY <1>0, <1>8 DEF Around, PhaseFacts
  <2>3. Atomic!Undo(q)
    BY <1>0, <1>1, <1>6, <2>1, <2>2 DEF Atomic!Undo
  <2>. QED
    BY <2>3 DEF Atomic!Next
<1>. QED
  BY <1>0, <1>7, <1>8

\* What is seen of a file is a content or its absence.
LEMMA ViewStored ==
  ASSUME TypeOK, OneUnfinished, ViewFacts, NEW f \in Files
  PROVE  View[f] \in Stored
<1>1. ASSUME NEW r \in RestoreIds, f \in Mutated(journal[r].plan)
      PROVE  journal[r].plan[f].before \in Stored /\ journal[r].plan[f].after \in Stored
  <2>1. journal[r].plan \in Plans
    BY DEF TypeOK
  <2>2. journal[r].plan[f] \in Change
    BY <1>1, <2>1, PlanFacts
  <2>. QED
    BY <2>2 DEF Change
<1>2. disk[f] \in Stored
  BY DEF TypeOK
<1>3. CASE \E r \in RestoreIds : Masks(r, f)
  BY <1>1, <1>3 DEF ViewFacts, Masks
<1>4. CASE (\A r \in RestoreIds : ~Masks(r, f)) /\ \E r \in RestoreIds : Keeps(r, f)
  BY <1>1, <1>4 DEF ViewFacts, Keeps
<1>5. CASE \A r \in RestoreIds : ~Masks(r, f) /\ ~Keeps(r, f)
  BY <1>2, <1>5 DEF ViewFacts
<1>. QED
  BY <1>3, <1>4, <1>5

ViewTyped == TypeOK /\ OneUnfinished /\ ViewFacts => \A f \in Files : View[f] \in Stored

LEMMA ViewIsTyped == ViewTyped
BY ViewStored DEF ViewTyped

\* A write of the agent is one of an outsider.
LEMMA AgentIsExternal ==
  ASSUME Around, ViewTyped', NEW g \in Files, NEW c \in Stored, AgentWrite(g, c)
  PROVE  Atomic!Next
<1>0. /\ TypeOK /\ TypeOK' /\ OneUnfinished /\ OneUnfinished'
      /\ agent /\ agent' = agent /\ journal' = journal /\ pc' = pc /\ pc # "undo"
      /\ disk' = [disk EXCEPT ![g] = c]
  BY DEF Around, CalmInv, CalmFiles, IInv, AgentWrite, engine, locals
<1>1. ASSUME NEW f \in Files, f # g PROVE View'[f] = View[f]
  <2>1. disk'[f] = disk[f]
    BY <1>0, <1>1 DEF TypeOK
  <2>2. \A r \in RestoreIds : Masks(r, f)' = Masks(r, f)
    BY <1>0, <2>1 DEF Masks, Mutated
  <2>3. \A r \in RestoreIds : ~Keeps(r, f) /\ ~Keeps(r, f)'
    BY <1>0 DEF Keeps, Undoing
  <2>. QED
    BY <1>0, <2>1, <2>2, <2>3 DEF Around, ViewFacts
<1>2. View'[g] \in Stored
  BY <1>0 DEF Around, ViewTyped
<1>3. View' = [View EXCEPT ![g] = View'[g]]
  BY <1>1 DEF Around, ViewFacts
<1>4. disturbed' = [s \in RestoreIds |-> disturbed[s] \/ Atomic!Sharing(s, g)]
  BY <1>0, SharedAlike DEF AgentWrite
<1>5. \A r \in RestoreIds : Phase(r)' = Phase(r)
  BY <1>0 DEF Phase
<1>6. Atomic!External(g)
  BY <1>0, <1>2, <1>3, <1>4, <1>5 DEF Atomic!External
<1>. QED
  BY <1>6 DEF Atomic!Next

\* The engine starts where AtomicRestore starts.
LEMMA AtomicInit == Init => Atomic!Init
<1> SUFFICES ASSUME Init PROVE Atomic!Init
  OBVIOUS
<1>1. TypeOK /\ OneUnfinished
  BY IInvInit DEF IInv
<1>2. ViewFacts
  BY ViewHolds
<1>3. View \in [Files -> Stored]
  BY <1>1, <1>2, ViewStored DEF ViewFacts
<1>4. [r \in RestoreIds |-> Phase(r)] = [r \in RestoreIds |-> "none"]
  BY DEF Init, Phase
<1>5. [r \in RestoreIds |-> journal[r].plan] \in [RestoreIds -> Plans]
  BY <1>1 DEF TypeOK
<1>. QED
  BY <1>3, <1>4, <1>5 DEF Init, Atomic!Init

\* Every step of the engine in calm use is one of AtomicRestore, or is not seen.
LEMMA AtomicStep ==
  Around /\ ViewTyped' => [Atomic!Next]_(Atomic!vars)
<1> SUFFICES ASSUME Around, ViewTyped' PROVE [Atomic!Next]_(Atomic!vars)
  OBVIOUS
<1>0. [Next]_vars /\ TypeOK /\ Working
  BY DEF Around, CalmInv, IInv
<1>1. CASE UNCHANGED <<disk, journal, history>>
  BY <1>1, QuietStep
<1>2. CASE ApplyPrepare
  BY <1>0, <1>2, PrepareOpens DEF TypeOK, ApplyPrepare
<1>3. CASE CopyTarget
  BY <1>0, <1>3, CopyTouches DEF TypeOK, CopyTarget
<1>4. CASE ApplyDone
  BY <1>0, <1>4, DoneCommits DEF TypeOK, ApplyDone
<1>5. ASSUME NEW f \in Files, UndoFile(f) PROVE [Atomic!Next]_(Atomic!vars)
  BY <1>0, <1>5, UndoTouches DEF TypeOK, UndoFile
<1>6. CASE RollbackDone
  BY <1>0, <1>6, RolledBackUndoes DEF TypeOK, RollbackDone
<1>7. ASSUME NEW f \in Files, NEW c \in Stored, AgentWrite(f, c)
      PROVE  [Atomic!Next]_(Atomic!vars)
  BY <1>7, AgentIsExternal
<1>. QED
  BY <1>0, <1>1, <1>2, <1>3, <1>4, <1>5, <1>6, <1>7, LoudSteps

\* In calm use a restore is all or nothing: whatever fails or is interrupted, Apply
\* and Rollback (engine.go:381, engine.go:514) implement AtomicRestore.
THEOREM RestoresAreAtomic == CalmSpec => AllOrNothing
<1>1. CalmInv /\ CalmInv' /\ [Next /\ CalmStep]_vars /\ ViewFacts /\ ViewFacts'
        /\ PhaseFacts /\ PhaseFacts' /\ ViewTyped' => [Atomic!Next]_(Atomic!vars)
  BY AtomicStep DEF Around
<1>. QED
  BY <1>1, AtomicInit, CalmInvInit, CalmInvNext, ViewHolds, PhasesHold, ViewIsTyped, PTL
     DEF CalmSpec, AllOrNothing, Atomic!Spec
=============================================================================
