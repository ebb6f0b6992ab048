---------------------------- MODULE AtomicRestore ----------------------------
(***************************************************************************)
(* What a restore promises: all the files of its plan change together when *)
(* it completes, none when it does not, and together again when it is      *)
(* rolled back; at most one restore is open; nobody but the agent changes  *)
(* files otherwise.                                                        *)
(***************************************************************************)
EXTENDS Naturals

CONSTANTS Files, Stored, RestoreIds, Plans

VARIABLES
  content,    \* the session files, restores counting only as a whole
  agent,      \* the agent is running
  phase,      \* of each restore
  plan,       \* what each restore changes
  disturbed   \* restores whose files somebody else has written

vars == <<content, agent, phase, plan, disturbed>>

Written(p) == {f \in DOMAIN p : p[f].action \in {"import", "update"}}
Sharing(r, f) == phase[r] # "none" /\ f \in Written(plan[r])

Init ==
  /\ content \in [Files -> Stored]
  /\ agent = FALSE
  /\ phase = [r \in RestoreIds |-> "none"]
  /\ plan \in [RestoreIds -> Plans]
  /\ disturbed = [r \in RestoreIds |-> FALSE]

Open(r) ==
  /\ phase[r] = "none" /\ \A s \in RestoreIds : phase[s] # "open"
  /\ phase' = [phase EXCEPT ![r] = "open"]
  /\ plan'[r] \in Plans /\ plan' = [plan EXCEPT ![r] = plan'[r]]
  /\ \A f \in DOMAIN plan'[r] : plan'[r][f].before = content[f]
  /\ UNCHANGED <<content, agent, disturbed>>

Commit(r) ==
  /\ phase[r] = "open" /\ ~disturbed[r]
  /\ phase' = [phase EXCEPT ![r] = "applied"]
  /\ content' = [f \in Files |-> IF f \in Written(plan[r]) THEN plan[r][f].after ELSE content[f]]
  /\ UNCHANGED <<agent, plan, disturbed>>

Abort(r) ==
  /\ phase[r] = "open"
  /\ phase' = [phase EXCEPT ![r] = "undone"]
  /\ UNCHANGED <<content, agent, plan, disturbed>>

Undo(r) ==
  /\ phase[r] = "applied"
  /\ phase' = [phase EXCEPT ![r] = "undone"]
  /\ content' = [f \in Files |-> IF f \in Written(plan[r]) THEN plan[r][f].before ELSE content[f]]
  /\ UNCHANGED <<agent, plan, disturbed>>

\* Undoing a disturbed restore is not atomic: each file is put back by itself.
UndoOne(r, f) ==
  /\ phase[r] = "applied" /\ disturbed[r] /\ f \in Written(plan[r])
  /\ content' = [content EXCEPT ![f] = plan[r][f].before]
  /\ disturbed' \in {disturbed, [s \in RestoreIds |-> disturbed[s] \/ (s # r /\ Sharing(s, f))]}
  /\ UNCHANGED <<agent, phase, plan>>

\* Restore r has begun to write, or to put back, a file others had written.
Touch(r, f) ==
  /\ phase[r] \in {"open", "applied"} /\ f \in Written(plan[r])
  /\ disturbed' = [s \in RestoreIds |-> disturbed[s] \/ (s # r /\ Sharing(s, f))]
  /\ UNCHANGED <<content, agent, phase, plan>>

\* The agent writes a file.  One left over by an open restore may look as before.
External(f) ==
  /\ agent
  /\ \E c \in Stored : content' = [content EXCEPT ![f] = c]
  /\ disturbed' = [s \in RestoreIds |-> disturbed[s] \/ Sharing(s, f)]
  /\ UNCHANGED <<agent, phase, plan>>

StartOrStop == agent' = ~agent /\ UNCHANGED <<content, phase, plan, disturbed>>

Next ==
  \/ \E r \in RestoreIds : Open(r) \/ Commit(r) \/ Abort(r) \/ Undo(r)
  \/ \E r \in RestoreIds, f \in Files : UndoOne(r, f) \/ Touch(r, f)
  \/ \E f \in Files : External(f)
  \/ StartOrStop

Spec == Init /\ [][Next]_vars
=============================================================================
