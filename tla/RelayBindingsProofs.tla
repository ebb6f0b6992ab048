------------------------- MODULE RelayBindingsProofs -------------------------
(***************************************************************************)
(* Proofs about RelayBindings for any devices, projects, paths and bound.  *)
(* The tables of bindings in memory and on disk are equal at every step,   *)
(* so one invariant over the table in memory survives restarts; that the   *)
(* answer of bindLocked is determined follows from it without a further    *)
(* induction.  The job table of the same server keeps its own properties,  *)
(* since every step of this module is one of RelayJobs for it.             *)
(***************************************************************************)
EXTENDS RelayBindings, RelayJobsProofs, FiniteSetTheorems

BindingsIInv ==
  /\ IsFiniteSet(bindings)
  /\ BindingsTypeOK
  /\ OneCounterpart
  /\ BindingsAreDurable

\* A request whose answer is "new" finds no binding that decides, and room.
LEMMA NewAnswer ==
  ASSUME NEW a, NEW b, "new" \in Answers(a, b)
  PROVE  Deciding(a, b) = {} /\ ~(Cardinality(bindings) >= MaxBindings)
<1>1. \A old : Verdict(old, a, b) # "new"
  BY DEF Verdict
<1>2. Deciding(a, b) = {}
  BY <1>1 DEF Answers
<1>. QED
  BY <1>2 DEF Answers

\* A binding that does not decide joins neither project to the other's device.
LEMMA UndecidedIsFree ==
  ASSUME NEW a, NEW b, Deciding(a, b) = {}, NEW old \in bindings
  PROVE  ~Taken(old, a, b) /\ ~SamePair(old, a, b)
BY DEF Deciding, Verdict

\* Whether a binding takes one of two projects does not depend on their order.
LEMMA TakenIsSymmetric ==
  ASSUME NEW old, NEW a, NEW b
  PROVE  Taken(old, a, b) <=> Taken(old, b, a)
BY DEF Taken

\* Nor does what the loop of bindLocked says of a binding.
LEMMA VerdictIsSymmetric ==
  ASSUME NEW old, NEW a, NEW b
  PROVE  Verdict(old, a, b) = Verdict(old, b, a)
<1>1. SamePair(old, a, b) <=> SamePair(old, b, a)
  BY DEF SamePair
<1>2. SamePaths(old, a, b) <=> SamePaths(old, b, a)
  BY DEF SamePaths
<1>. QED
  BY <1>1, <1>2, TakenIsSymmetric DEF Verdict

\* The empty table satisfies the invariant.
LEMMA BindingsIInvInit == BindingsInit => BindingsIInv
<1>1. BindingsInit => /\ bindings = {} /\ savedBindings = {}
                      /\ IsFiniteSet(bindings) /\ Cardinality(bindings) = 0
  BY FS_EmptySet DEF BindingsInit
<1>. QED
  BY <1>1, BindingsAssumption
     DEF BindingsIInv, BindingsTypeOK, OneCounterpart, BindingsAreDurable

\* A request to bind adds a binding of two free projects, to both tables or to
\* neither.
LEMMA BindKeeps ==
  ASSUME BindingsIInv, NEW i \in BindingIds, NEW a \in Endpoint, NEW b \in Endpoint,
         Bind(i, a, b)
  PROVE  BindingsIInv'
<1> DEFINE new == [id |-> i, a |-> a, b |-> b]
<1>0. /\ IsFiniteSet(bindings) /\ bindings \subseteq Binding
      /\ bindings = savedBindings /\ Cardinality(bindings) <= MaxBindings
      /\ Cardinality(bindings) \in Nat
  BY FS_CardinalityType DEF BindingsIInv, BindingsTypeOK, BindingsAreDurable
<1>1. CASE faults' = faults
  <2>1. bindings' = bindings \cup {new} /\ savedBindings' = bindings'
    BY <1>1 DEF Bind, SaveBindings
  <2>2. /\ new \in Binding /\ new.id = i /\ new.a = a /\ new.b = b
        /\ a.device # b.device
    BY DEF Binding, Bind
  <2>3. \A old \in bindings : ~Taken(old, a, b) /\ old.id # i
    BY NewAnswer, UndecidedIsFree DEF Bind
  <2>4. new \notin bindings
    BY <2>2, <2>3
  <2>5. IsFiniteSet(bindings') /\ Cardinality(bindings') = Cardinality(bindings) + 1
    BY <1>0, <2>1, <2>4, FS_AddElement
  <2>6. Cardinality(bindings') <= MaxBindings
    BY <1>0, <2>5, NewAnswer, BindingsAssumption DEF Bind
  <2>7. BindingsTypeOK'
    <3>1. bindings' \subseteq Binding
      BY <1>0, <2>1, <2>2
    <3>2. \A x \in bindings' : x.a.device # x.b.device
      BY <2>1, <2>2 DEF BindingsIInv, BindingsTypeOK
    <3>3. \A x, y \in bindings' : x.id = y.id => x = y
      BY <2>1, <2>2, <2>3 DEF BindingsIInv, BindingsTypeOK
    <3>. QED
      BY <2>6, <3>1, <3>2, <3>3 DEF BindingsTypeOK
  <2>8. OneCounterpart'
    <3>1. \A old \in bindings : \A e \in Ends(old), g \in Ends(new) :
            ~(SameEndpoint(e[1], g[1]) /\ e[2].device = g[2].device)
      BY <2>2, <2>3 DEF Taken, Ends
    <3>2. \A x, y \in bindings' : \A e \in Ends(x), g \in Ends(y) :
            SameEndpoint(e[1], g[1]) /\ e[2].device = g[2].device => x = y
      <4> SUFFICES ASSUME NEW x \in bindings', NEW y \in bindings',
                          NEW e \in Ends(x), NEW g \in Ends(y),
                          SameEndpoint(e[1], g[1]), e[2].device = g[2].device
                   PROVE  x = y
        OBVIOUS
      <4>1. CASE x \in bindings /\ y \in bindings
        BY <4>1 DEF BindingsIInv, OneCounterpart
      <4>2. CASE x \in bindings /\ y = new
        BY <3>1, <4>2
      <4>3. CASE x = new /\ y \in bindings
        <5>1. SameEndpoint(g[1], e[1])
          BY DEF SameEndpoint
        <5>. QED
          BY <3>1, <4>3, <5>1
      <4>. QED
        BY <2>1, <4>1, <4>2, <4>3
    <3>. QED
      BY <3>2 DEF OneCounterpart, SameEndpoint, Ends
  <2>. QED
    BY <2>1, <2>5, <2>7, <2>8 DEF BindingsIInv, BindingsAreDurable
<1>2. CASE faults' # faults
  <2>1. bindings' = bindings /\ savedBindings' = savedBindings
    BY <1>2 DEF Bind, SaveBindings
  <2>. QED
    BY <2>1 DEF BindingsIInv, BindingsTypeOK, OneCounterpart, SameEndpoint, Ends,
                BindingsAreDurable
<1>. QED
  BY <1>1, <1>2

\* A smaller table, in memory and on disk, satisfies the invariant.
LEMMA FewerKeeps ==
  ASSUME BindingsIInv, NEW old,
         bindings' = bindings \/ bindings' = bindings \ {old},
         savedBindings' = bindings'
  PROVE  BindingsIInv'
<1>1. /\ IsFiniteSet(bindings) /\ Cardinality(bindings) <= MaxBindings
      /\ Cardinality(bindings) \in Nat
  BY FS_CardinalityType DEF BindingsIInv, BindingsTypeOK
<1>2. IsFiniteSet(bindings') /\ Cardinality(bindings') <= MaxBindings
  <2>1. CASE bindings' = bindings
    BY <1>1, <2>1
  <2>2. CASE bindings' = bindings \ {old}
    BY <1>1, <2>2, FS_RemoveElement, BindingsAssumption
  <2>. QED
    BY <2>1, <2>2
<1>3. bindings' \subseteq bindings
  OBVIOUS
<1>4. BindingsTypeOK'
  BY <1>2, <1>3 DEF BindingsIInv, BindingsTypeOK
<1>5. OneCounterpart'
  BY <1>3 DEF BindingsIInv, OneCounterpart, SameEndpoint, Ends
<1>. QED
  BY <1>2, <1>4, <1>5 DEF BindingsIInv, BindingsAreDurable

\* Every step keeps the invariant.
LEMMA BindingsIInvNext == BindingsIInv /\ [BindingsNext]_vars => BindingsIInv'
<1> SUFFICES ASSUME BindingsIInv, [BindingsNext]_vars PROVE BindingsIInv'
  OBVIOUS
<1>0. bindings = savedBindings
  BY DEF BindingsIInv, BindingsAreDurable
<1>1. ASSUME NEW i \in BindingIds, NEW a \in Endpoint, NEW b \in Endpoint,
             BindProjects(i, a, b)
      PROVE  BindingsIInv'
  BY <1>1, BindKeeps DEF BindProjects
<1>2. ASSUME NEW i \in BindingIds, NEW a \in Endpoint, NEW b \in Endpoint, NEW j \in Jobs,
             BindPreview(i, j, a, b)
      PROVE  BindingsIInv'
  BY <1>2, BindKeeps DEF BindPreview
<1>3. ASSUME NEW old \in bindings, Unbind(old)
      PROVE  BindingsIInv'
  <2>1. bindings' = bindings \/ bindings' = bindings \ {old}
    BY <1>3 DEF Unbind
  <2>2. savedBindings' = bindings'
    BY <1>0, <1>3 DEF Unbind, SaveBindings
  <2>. QED
    BY <2>1, <2>2, FewerKeeps
<1>4. ASSUME bindings' = bindings, savedBindings' = bindings' PROVE BindingsIInv'
  BY <1>4, FewerKeeps
<1>5. CASE JobStep
  BY <1>0, <1>4, <1>5 DEF JobStep, SaveBindings
<1>6. CASE BindingsRestart
  BY <1>0, <1>4, <1>6 DEF BindingsRestart
<1>7. CASE UNCHANGED vars
  BY <1>0, <1>4, <1>7 DEF vars
<1>. QED
  BY <1>1, <1>2, <1>3, <1>5, <1>6, <1>7 DEF BindingsNext

\* The invariant of the bindings, from which the theorems below follow.
THEOREM BindingsInvariance == BindingsSpec => []BindingsIInv
BY BindingsIInvInit, BindingsIInvNext, PTL DEF BindingsSpec

\* Bindings always join two devices, have ids of their own and fit the bound.
THEOREM BindingsTypeCorrect == BindingsSpec => []BindingsTypeOK
BY BindingsInvariance, PTL DEF BindingsIInv

\* A project never has two counterparts on one device.
THEOREM AlwaysOneCounterpart == BindingsSpec => []OneCounterpart
BY BindingsInvariance, PTL DEF BindingsIInv

\* A binding is in memory exactly when a restart will find it.
THEOREM AlwaysDurable == BindingsSpec => []BindingsAreDurable
BY BindingsInvariance, PTL DEF BindingsIInv

\* Two bindings that decide a request are the same one when each project has
\* one counterpart, unless they take its two ends apart: the verdict is then
\* "taken" for both.
LEMMA OneVerdict ==
  ASSUME OneCounterpart, bindings \subseteq Binding,
         NEW a \in Endpoint, NEW b \in Endpoint, a.device # b.device,
         NEW x \in Deciding(a, b), NEW y \in Deciding(a, b)
  PROVE  Verdict(x, a, b) = Verdict(y, a, b)
<1>1. \A u \in bindings : SamePair(u, a, b) => Taken(u, a, b)
  BY DEF SamePair, Taken, Ends, SameEndpoint
<1>2. x \in bindings /\ y \in bindings /\ Taken(x, a, b) /\ Taken(y, a, b)
  BY <1>1 DEF Deciding, Verdict
<1>3. ASSUME NEW u \in bindings, NEW v \in bindings, SamePair(u, a, b), Taken(v, a, b)
      PROVE  u = v
  <2>1. PICK e \in Ends(v) : \/ SameEndpoint(e[1], a) /\ e[2].device = b.device
                             \/ SameEndpoint(e[1], b) /\ e[2].device = a.device
    BY <1>3 DEF Taken
  <2>2. PICK g \in Ends(u) : SameEndpoint(g[1], a) /\ SameEndpoint(g[2], b)
    BY <1>3 DEF SamePair, Ends
  <2>3. <<g[2], g[1]>> \in Ends(u)
    BY <2>2 DEF Ends
  <2>4. CASE SameEndpoint(e[1], a) /\ e[2].device = b.device
    <3>1. SameEndpoint(g[1], e[1]) /\ g[2].device = e[2].device
      BY <2>2, <2>4 DEF SameEndpoint
    <3>. QED
      BY <2>1, <2>2, <3>1 DEF OneCounterpart
  <2>5. CASE SameEndpoint(e[1], b) /\ e[2].device = a.device
    <3>1. SameEndpoint(g[2], e[1]) /\ g[1].device = e[2].device
      BY <2>2, <2>5 DEF SameEndpoint
    <3> DEFINE h == <<g[2], g[1]>>
    <3>2. h \in Ends(u) /\ SameEndpoint(h[1], e[1]) /\ h[2].device = e[2].device
      BY <2>3, <3>1
    <3>. QED
      BY <2>1, <3>2 DEF OneCounterpart
  <2>. QED
    BY <2>1, <2>4, <2>5
<1>4. CASE SamePair(x, a, b) \/ SamePair(y, a, b)
  BY <1>2, <1>3, <1>4
<1>5. CASE ~SamePair(x, a, b) /\ ~SamePair(y, a, b)
  BY <1>2, <1>5 DEF Verdict
<1>. QED
  BY <1>4, <1>5

\* The answer to a request to bind depends neither on the order of the table
\* nor on the order of the two projects.
THEOREM AlwaysDetermined == BindingsSpec => []AnswerIsDetermined
<1>1. BindingsIInv => AnswerIsDetermined
  <2> SUFFICES ASSUME BindingsIInv, NEW a \in Endpoint, NEW b \in Endpoint,
                      a.device # b.device
               PROVE  /\ Answers(a, b) = Answers(b, a)
                      /\ \A v, w \in Answers(a, b) : v = w
    BY DEF AnswerIsDetermined
  <2>1. Deciding(a, b) = Deciding(b, a)
    BY VerdictIsSymmetric DEF Deciding
  <2>2. {Verdict(old, a, b) : old \in Deciding(a, b)}
          = {Verdict(old, b, a) : old \in Deciding(b, a)}
    BY <2>1, VerdictIsSymmetric
  <2>3. Answers(a, b) = Answers(b, a)
    BY <2>1, <2>2 DEF Answers
  <2>4. \A x, y \in Deciding(a, b) : Verdict(x, a, b) = Verdict(y, a, b)
    BY OneVerdict DEF BindingsIInv, BindingsTypeOK
  <2>5. \A v, w \in Answers(a, b) : v = w
    BY <2>4 DEF Answers
  <2>. QED
    BY <2>3, <2>5
<1>. QED
  BY <1>1, BindingsInvariance, PTL

\* To the job table, binding and unbinding are heartbeats: it keeps what is
\* proved of it alone.
THEOREM ImplementsJobs == BindingsSpec => JobsSpec
<1>1. BindingsInit => JobsInit
  BY DEF BindingsInit
<1>2. [BindingsNext]_vars => [JobsNext]_jobVars
  <2>1. \A i, a, b : Bind(i, a, b) => JobsNext
    BY DEF Bind, JobsNext, DeviceStep, Heartbeat
  <2>2. \A old : Unbind(old) => JobsNext
    BY DEF Unbind, JobsNext, DeviceStep, Heartbeat
  <2>. QED
    BY <2>1, <2>2 DEF BindingsNext, BindProjects, BindPreview, JobStep, BindingsRestart,
                      JobsNext, vars
<1>. QED
  BY <1>1, <1>2, PTL DEF BindingsSpec, JobsSpec
=============================================================================
