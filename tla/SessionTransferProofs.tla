------------------------ MODULE SessionTransferProofs ------------------------
(***************************************************************************)
(* Theorems about the way of a session from one device to another: the     *)
(* merge of any two sessions, record by record; what an import keeps of    *)
(* the files that are here; the export, whose archive is a moment of a     *)
(* home that goes on changing; and the transfer as a whole.                *)
(***************************************************************************)
EXTENDS SessionTransfer, WellFoundedInduction, TLAPS

-----------------------------------------------------------------------------
(* The merge of two sessions (StreamMerge). *)

\* A session as it can be read: records, the last of which may be cut off.
Readable == {file \in Seq(Record) : WellFormed(file)}

\* Merges one after the other, each of any two files.
MergeSpec ==
  MergeIdle /\ [][MergeNext \/ \E x, y \in Readable : MergeStarts(x, y)]_mergeVars

\* Where the merge is: so many records shared, so many appended after them.
MergeTypes ==
  /\ incoming \in Readable /\ local \in Readable
  /\ pos \in Nat /\ pos <= Len(local)
  /\ added \in Nat /\ pos + added <= Len(incoming)
  /\ out \in Seq(Record) /\ Len(out) = pos + added

SharedAgree == \A i \in 1..pos : SameRecord(incoming[i], local[i])

\* What has been written is what has been read, and its last record was terminated
\* before another one was appended.
Written ==
  /\ added = 0 => \A i \in 1..pos : out[i] = local[i]
  /\ added > 0 =>
       /\ pos = Len(local)
       /\ \A i \in 1..pos : out[i] = Terminated(local[i])
       /\ \A i \in (pos + 1)..(pos + added) : out[i] = incoming[i]

\* What each answer has seen.
Answered ==
  /\ answer \in {"none", "error", "conflict", "skip-identical", "skip-ahead", "update"}
  /\ answer = "skip-identical" => pos = Len(incoming) /\ pos = Len(local)
  /\ answer = "skip-ahead" => pos = Len(incoming) /\ pos < Len(local)
  /\ answer = "update" => added > 0 /\ pos + added = Len(incoming)
  /\ answer = "conflict" =>
       /\ pos < Len(incoming) /\ pos < Len(local)
       /\ ~SameRecord(incoming[pos + 1], local[pos + 1])

MergeInv == MergeTypes /\ SharedAgree /\ Written /\ Answered

-----------------------------------------------------------------------------
(* Terminators. *)

LEMMA TerminatedRecord ==
  ASSUME NEW r \in Record
  PROVE  Terminated(r) \in Record /\ Terminated(r).nl /\ (r.nl => Terminated(r) = r)
BY DEF Record, Terminated

LEMMA TerminateKeeps ==
  ASSUME NEW file \in Seq(Record)
  PROVE  /\ Terminate(file) \in Seq(Record) /\ Len(Terminate(file)) = Len(file)
         /\ \A i \in 1..Len(file) :
              Terminate(file)[i] = IF i = Len(file) THEN Terminated(file[i]) ELSE file[i]
<1>1. CASE file = <<>>
  BY <1>1 DEF Terminate
<1>2. CASE file # <<>>
  <2>1. Len(file) \in 1..Len(file) /\ file[Len(file)] \in Record
    BY <1>2
  <2>2. Terminated(file[Len(file)]) \in Record
    BY <2>1, TerminatedRecord
  <2> QED
    BY <1>2, <2>1, <2>2 DEF Terminate
<1> QED
  BY <1>1, <1>2

-----------------------------------------------------------------------------
(* Each step keeps the invariant. *)

LEMMA IdleInv == MergeIdle => MergeInv
<1> SUFFICES ASSUME MergeIdle PROVE MergeInv
  OBVIOUS
<1>1. <<>> \in Readable
  BY DEF Readable, WellFormed
<1> QED
  BY <1>1 DEF MergeIdle, MergeInv, MergeTypes, SharedAgree, Written, Answered

LEMMA StartsInv ==
  ASSUME NEW x \in Readable, NEW y \in Readable, MergeStarts(x, y)
  PROVE  MergeInv'
<1>1. x \in Seq(Record) /\ y \in Seq(Record)
  BY DEF Readable
<1> QED
  BY <1>1 DEF MergeStarts, MergeInv, MergeTypes, SharedAgree, Written, Answered

LEMMA SharedInv == MergeInv /\ Shared => MergeInv'
<1> SUFFICES ASSUME MergeInv, Shared PROVE MergeInv'
  OBVIOUS
<1> USE DEF MergeInv
<1>1. /\ incoming \in Seq(Record) /\ local \in Seq(Record) /\ added = 0
      /\ pos + 1 \in 1..Len(local) /\ local[pos + 1] \in Record
  BY DEF MergeTypes, Written, Readable, Shared
<1>2. MergeTypes'
  BY <1>1 DEF MergeTypes, Shared
<1>3. SharedAgree'
  BY <1>1 DEF MergeTypes, Shared, SharedAgree
<1>4. Written'
  BY <1>1 DEF MergeTypes, Shared, Written
<1>5. Answered'
  BY DEF Shared, Answered
<1> QED
  BY <1>2, <1>3, <1>4, <1>5

LEMMA AnswerInv ==
  MergeInv /\ (Diverges \/ IncomingEnds \/ TooLarge) => MergeInv'
<1> SUFFICES ASSUME MergeInv, Diverges \/ IncomingEnds \/ TooLarge PROVE MergeInv'
  OBVIOUS
<1> USE DEF MergeInv
<1>1. MergeTypes' /\ SharedAgree' /\ Written'
  BY DEF MergeTypes, SharedAgree, Written, Decide, Diverges, IncomingEnds, TooLarge
<1>2. Answered'
  <2>1. CASE Diverges
    BY <2>1 DEF Diverges, Decide, Answered
  <2>2. CASE IncomingEnds
    BY <2>2 DEF IncomingEnds, Decide, Answered, MergeTypes, Readable
  <2>3. CASE TooLarge
    BY <2>3 DEF TooLarge, Decide, Answered
  <2> QED
    BY <2>1, <2>2, <2>3
<1> QED
  BY <1>1, <1>2

LEMMA LocalEndsInv == MergeInv /\ LocalEnds => MergeInv'
<1> SUFFICES ASSUME MergeInv, LocalEnds PROVE MergeInv'
  OBVIOUS
<1> USE DEF MergeInv
<1> DEFINE k == pos + added
<1>1. /\ incoming \in Seq(Record) /\ local \in Seq(Record) /\ out \in Seq(Record)
      /\ pos \in Nat /\ added \in Nat /\ pos = Len(local) /\ Len(out) = k
      /\ k + 1 \in 1..Len(incoming) /\ incoming[k + 1] \in Record
  BY DEF MergeTypes, Readable, LocalEnds
<1>2. /\ \A i \in 1..Len(local) : i < Len(local) => local[i].nl
      /\ \A i \in 1..Len(incoming) : i < Len(incoming) => incoming[i].nl
  BY DEF MergeTypes, Readable, WellFormed
<1>3. /\ out' = Append(Terminate(out), incoming[k + 1]) /\ added' = added + 1
      /\ UNCHANGED <<incoming, local, pos>>
  BY DEF LocalEnds
<1>4. /\ Terminate(out) \in Seq(Record) /\ Len(Terminate(out)) = k
      /\ \A i \in 1..k : Terminate(out)[i] = IF i = k THEN Terminated(out[i]) ELSE out[i]
  BY <1>1, TerminateKeeps
<1>5. /\ \A i \in 1..k : out'[i] = Terminate(out)[i]
      /\ out'[k + 1] = incoming[k + 1] /\ out' \in Seq(Record) /\ Len(out') = k + 1
  BY <1>1, <1>3, <1>4
<1>6. MergeTypes'
  BY <1>1, <1>3, <1>5 DEF MergeTypes
<1>7. SharedAgree'
  BY <1>3 DEF SharedAgree
<1>8. \A i \in 1..pos : out'[i] = Terminated(local[i])
  <2> SUFFICES ASSUME NEW i \in 1..pos PROVE out'[i] = Terminated(local[i])
    OBVIOUS
  <2>1. local[i] \in Record /\ (i < pos => Terminated(local[i]) = local[i])
    BY <1>1, <1>2, TerminatedRecord
  <2>2. Terminated(local[i]) \in Record /\ Terminated(Terminated(local[i])) = Terminated(local[i])
    BY <2>1, TerminatedRecord
  <2>3. CASE added = 0
    BY <1>1, <1>4, <1>5, <2>1, <2>3 DEF Written
  <2>4. CASE added > 0
    BY <1>1, <1>4, <1>5, <2>2, <2>4 DEF Written
  <2> QED
    BY <1>1, <2>3, <2>4
<1>9. \A i \in (pos + 1)..(k + 1) : out'[i] = incoming[i]
  <2> SUFFICES ASSUME NEW i \in (pos + 1)..(k + 1) PROVE out'[i] = incoming[i]
    OBVIOUS
  <2>1. CASE i = k + 1
    BY <1>5, <2>1
  <2>2. CASE i # k + 1
    <3>1. i \in (pos + 1)..k /\ i \in 1..k
      BY <1>1, <2>2
    <3>2. out[i] = incoming[i] /\ i \in 1..Len(incoming) /\ i < Len(incoming)
      BY <1>1, <3>1 DEF Written
    <3>3. incoming[i] \in Record /\ Terminated(incoming[i]) = incoming[i]
      BY <1>1, <1>2, <3>2, TerminatedRecord
    <3> QED
      BY <1>4, <1>5, <3>1, <3>2, <3>3
  <2> QED
    BY <2>1, <2>2
<1>10. Written'
  <2>1. pos' = pos /\ local' = local /\ incoming' = incoming /\ pos' + added' = k + 1 /\ added' # 0
    BY <1>1, <1>3
  <2>2. \A i \in 1..pos' : out'[i] = Terminated(local'[i])
    BY <1>8, <2>1
  <2>3. \A i \in (pos' + 1)..(pos' + added') : out'[i] = incoming'[i]
    BY <1>9, <2>1
  <2> QED
    BY <1>1, <2>1, <2>2, <2>3 DEF Written
<1>11. Answered'
  BY <1>1, <1>3 DEF LocalEnds, Answered
<1> QED
  BY <1>6, <1>7, <1>10, <1>11

LEMMA MergeStep ==
  MergeInv /\ [MergeNext \/ \E x, y \in Readable : MergeStarts(x, y)]_mergeVars => MergeInv'
<1> SUFFICES ASSUME MergeInv, [MergeNext \/ \E x, y \in Readable : MergeStarts(x, y)]_mergeVars
             PROVE  MergeInv'
  OBVIOUS
<1>1. CASE MergeNext
  BY <1>1, SharedInv, AnswerInv, LocalEndsInv DEF MergeNext
<1>2. CASE \E x, y \in Readable : MergeStarts(x, y)
  BY <1>2, StartsInv
<1>3. CASE UNCHANGED mergeVars
  BY <1>3 DEF mergeVars, MergeInv, MergeTypes, SharedAgree, Written, Answered
<1> QED
  BY <1>1, <1>2, <1>3

LEMMA MergeInvariant == MergeSpec => []MergeInv
BY IdleInv, MergeStep, PTL DEF MergeSpec

-----------------------------------------------------------------------------
(* What follows. *)

\* An update keeps the local bytes of every record both files have and appends the
\* rest of the incoming one: mergeStreams.
THEOREM LocalBytesAreKept == MergeSpec => []LocalBytesKept
<1>1. MergeInv => LocalBytesKept
  BY DEF MergeInv, MergeTypes, Written, Answered, LocalBytesKept
<1> QED
  BY <1>1, MergeInvariant, PTL

LEMMA CanonFacts ==
  ASSUME NEW x \in Seq(Record)
  PROVE  /\ Canon(x) \in Seq({CanonOf[t] : t \in Texts}) /\ Len(Canon(x)) = Len(x)
         /\ \A i \in 1..Len(x) : Canon(x)[i] = CanonOf[x[i].text]
<1>1. \A i \in 1..Len(x) : x[i].text \in Texts
  <2> SUFFICES ASSUME NEW i \in 1..Len(x) PROVE x[i].text \in Texts
    OBVIOUS
  <2>1. x[i] \in Record
    OBVIOUS
  <2> QED
    BY <2>1 DEF Record
<1> QED
  BY <1>1 DEF Canon

\* The answer is the one the two sequences of records give.
LEMMA MergeDecides == MergeInv => DecidesByRecords
<1> SUFFICES ASSUME MergeInv, answer \notin {"none", "error"}
             PROVE  answer = Reference(incoming, local)
  BY DEF DecidesByRecords
<1> DEFINE c == Canon(incoming)
           d == Canon(local)
<1>1. incoming \in Seq(Record) /\ local \in Seq(Record) /\ pos \in Nat /\ added \in Nat
      /\ pos <= Len(local) /\ pos + added <= Len(incoming)
  BY DEF MergeInv, MergeTypes, Readable
<1>2. /\ Len(c) = Len(incoming) /\ \A i \in 1..Len(incoming) : c[i] = CanonOf[incoming[i].text]
      /\ Len(d) = Len(local) /\ \A i \in 1..Len(local) : d[i] = CanonOf[local[i].text]
  BY <1>1, CanonFacts
<1>3. \A i \in 1..pos : c[i] = d[i]
  BY <1>1, <1>2 DEF MergeInv, SharedAgree, SameRecord
<1>4. CASE answer = "skip-identical"
  <2>1. Len(incoming) = Len(local) /\ \A i \in 1..Len(local) : c[i] = d[i]
    BY <1>3, <1>4 DEF MergeInv, Answered
  <2>2. c = d
    BY <1>1, <2>1, <1>2 DEF Canon
  <2> QED
    BY <1>4, <2>2 DEF Reference
<1>5. CASE answer = "skip-ahead"
  <2>1. pos = Len(incoming) /\ pos < Len(local)
    BY <1>5 DEF MergeInv, Answered
  <2>2. c # d /\ IsPrefixOf(c, d) /\ ~IsPrefixOf(d, c)
    BY <1>1, <1>2, <1>3, <2>1 DEF IsPrefixOf
  <2> QED
    BY <1>5, <2>2 DEF Reference
<1>6. CASE answer = "update"
  <2>1. pos = Len(local) /\ pos < Len(incoming)
    BY <1>1, <1>6 DEF MergeInv, Answered, Written
  <2>2. c # d /\ ~IsPrefixOf(c, d) /\ IsPrefixOf(d, c)
    BY <1>1, <1>2, <1>3, <2>1 DEF IsPrefixOf
  <2> QED
    BY <1>6, <2>2 DEF Reference
<1>7. CASE answer = "conflict"
  <2>1. pos < Len(incoming) /\ pos < Len(local)
        /\ CanonOf[incoming[pos + 1].text] # CanonOf[local[pos + 1].text]
    BY <1>7 DEF MergeInv, Answered, SameRecord
  <2>2. /\ pos + 1 \in 1..Len(incoming) /\ pos + 1 \in 1..Len(local)
        /\ c[pos + 1] # d[pos + 1]
    BY <1>1, <1>2, <2>1
  <2>3. c # d /\ ~IsPrefixOf(c, d) /\ ~IsPrefixOf(d, c)
    BY <1>2, <2>2 DEF IsPrefixOf
  <2> QED
    BY <1>7, <2>3 DEF Reference
<1> QED
  BY <1>4, <1>5, <1>6, <1>7 DEF MergeInv, Answered

\* The decision of mergeStreams, which has one record of each file in memory, is
\* the one a comparison of the two sequences of records gives.
THEOREM DecisionIsThatOfTheFiles == MergeSpec => []DecidesByRecords
BY MergeDecides, MergeInvariant, PTL

\* A file that begins another byte by byte, and does not break off within a record
\* of it, begins it record by record.
LEMMA BytesThenRecords ==
  ASSUME NEW x \in Seq(Record), NEW y \in Seq(Record), BytePrefix(x, y), ~Torn(x, y)
  PROVE  IsPrefixOf(Canon(x), Canon(y))
<1>1. /\ Len(Canon(x)) = Len(x) /\ \A i \in 1..Len(x) : Canon(x)[i] = CanonOf[x[i].text]
      /\ Len(Canon(y)) = Len(y) /\ \A i \in 1..Len(y) : Canon(y)[i] = CanonOf[y[i].text]
  BY CanonFacts
<1>2. CASE x = <<>>
  BY <1>1, <1>2 DEF IsPrefixOf
<1>3. CASE x # <<>>
  <2>1. /\ Len(x) \in Nat /\ Len(y) \in Nat /\ Len(x) <= Len(y)
        /\ \A i \in 1..(Len(x) - 1) : x[i] = y[i]
    BY <1>3 DEF BytePrefix
  <2>2. SameRecord(x[Len(x)], y[Len(x)])
    BY <1>3, <2>1 DEF Torn
  <2>3. \A i \in 1..Len(x) : CanonOf[x[i].text] = CanonOf[y[i].text]
    BY <2>1, <2>2 DEF SameRecord
  <2>. QED
    BY <1>1, <2>1, <2>3 DEF IsPrefixOf
<1>. QED
  BY <1>2, <1>3

\* Two files that begin each other record by record have the same records.
LEMMA PrefixBothWays ==
  ASSUME NEW x \in Seq(Record), NEW y \in Seq(Record),
         IsPrefixOf(Canon(x), Canon(y)), IsPrefixOf(Canon(y), Canon(x))
  PROVE  Canon(x) = Canon(y)
<1>1. Len(Canon(x)) = Len(x) /\ Len(Canon(y)) = Len(y) /\ Len(x) \in Nat /\ Len(y) \in Nat
  <2>1. Len(Canon(x)) = Len(x)
    BY CanonFacts
  <2>2. Len(Canon(y)) = Len(y)
    BY CanonFacts
  <2>. QED
    BY <2>1, <2>2
<1>2. Len(x) = Len(y)
  BY <1>1 DEF IsPrefixOf
<1>3. \A i \in 1..Len(x) : Canon(x)[i] = Canon(y)[i]
  BY <1>1 DEF IsPrefixOf
<1>4. /\ Canon(x) = [i \in 1..Len(x) |-> Canon(x)[i]]
      /\ Canon(y) = [i \in 1..Len(y) |-> Canon(y)[i]]
  BY DEF Canon
<1>5. [i \in 1..Len(x) |-> Canon(x)[i]] = [i \in 1..Len(y) |-> Canon(y)[i]]
  BY <1>2, <1>3
<1>. QED
  BY <1>4, <1>5

LEMMA CanonEqualPrefix ==
  ASSUME NEW x \in Seq(Record), NEW y \in Seq(Record), Canon(x) = Canon(y)
  PROVE  IsPrefixOf(Canon(x), Canon(y))
BY DEF IsPrefixOf, Canon

\* The two planners agree on any two files: the answer is that of mergeStreams.
LEMMA PlannersAgree ==
  ASSUME NEW x \in Seq(Record), NEW y \in Seq(Record), NEW a, a = Reference(x, y)
  PROVE  PlanMerge(x, y) =
           IF Torn(y, x) \/ (y # x /\ BytePrefix(y, x) /\ a = "skip-identical") THEN "update"
           ELSE IF Torn(x, y) \/ a = "skip-identical" THEN "skip-ahead" ELSE a
<1> DEFINE c == Canon(x)
           d == Canon(y)
<1>1. /\ c = d => IsPrefixOf(c, d) /\ IsPrefixOf(d, c)
      /\ IsPrefixOf(c, d) /\ IsPrefixOf(d, c) => c = d
  BY PrefixBothWays, CanonEqualPrefix
<1>2. a = IF c = d THEN "skip-identical"
          ELSE IF IsPrefixOf(c, d) THEN "skip-ahead"
          ELSE IF IsPrefixOf(d, c) THEN "update" ELSE "conflict"
  <2>. HIDE DEF c, d
  <2>1. a = CASE c = d -> "skip-identical"
              [] c # d /\ IsPrefixOf(c, d) -> "skip-ahead"
              [] c # d /\ IsPrefixOf(d, c) -> "update"
              [] OTHER -> "conflict"
    BY DEF Reference, c, d
  <2>. QED
    BY <1>1, <2>1
<1>3. PlanMerge(x, y) = IF x = y THEN "skip-ahead"
                        ELSE IF BytePrefix(y, x) THEN "update"
                        ELSE IF BytePrefix(x, y) THEN "skip-ahead"
                        ELSE IF IsPrefixOf(c, d) THEN "skip-ahead"
                        ELSE IF IsPrefixOf(d, c) THEN "update" ELSE "conflict"
  BY DEF PlanMerge
<1>4. /\ BytePrefix(x, y) /\ ~Torn(x, y) => IsPrefixOf(c, d)
      /\ BytePrefix(y, x) /\ ~Torn(y, x) => IsPrefixOf(d, c)
  BY BytesThenRecords
<1>5. /\ Torn(x, y) => BytePrefix(x, y) /\ x # y /\ (BytePrefix(y, x) => Torn(y, x))
      /\ Torn(y, x) => BytePrefix(y, x) /\ x # y
  <2>1. ASSUME Torn(x, y), BytePrefix(y, x) PROVE Torn(y, x)
    <3>1. x # <<>> /\ Len(x) <= Len(y) /\ ~SameRecord(x[Len(x)], y[Len(x)])
      BY <2>1 DEF Torn
    <3>2. y # <<>> /\ Len(y) <= Len(x)
      BY <2>1, <3>1 DEF BytePrefix
    <3>3. Len(x) = Len(y)
      BY <3>1, <3>2
    <3>. QED
      BY <2>1, <3>1, <3>2, <3>3 DEF Torn, SameRecord
  <2>2. Torn(x, y) => x # y
    BY DEF Torn, SameRecord
  <2>3. Torn(y, x) => x # y
    BY DEF Torn, SameRecord
  <2>. QED
    BY <2>1, <2>2, <2>3 DEF Torn
<1>. HIDE DEF c, d
<1>6. x = y => c = d
  BY DEF c, d
<1>. QED
  BY <1>1, <1>2, <1>3, <1>4, <1>5, <1>6

LEMMA MergeAgrees == MergeInv => AgreesWithPlanMerge
<1> SUFFICES ASSUME MergeInv, answer \notin {"none", "error"}
             PROVE  PlanMerge(incoming, local) =
                      IF Torn(local, incoming) \/ Completes THEN "update"
                      ELSE IF Torn(incoming, local) \/ answer = "skip-identical"
                      THEN "skip-ahead" ELSE answer
  BY DEF AgreesWithPlanMerge
<1>1. incoming \in Seq(Record) /\ local \in Seq(Record)
  BY DEF MergeInv, MergeTypes, Readable
<1>2. answer = Reference(incoming, local)
  BY MergeDecides DEF DecidesByRecords
<1>. QED
  BY <1>1, <1>2, PlannersAgree DEF Completes

\* The streaming planner (stream.go:127) and the one on whole files (mergesync.go:65)
\* take the same decision on any two files, but for files that break off within a line.
THEOREM PlannersAlike == MergeSpec => []AgreesWithPlanMerge
BY MergeAgrees, MergeInvariant, PTL

-----------------------------------------------------------------------------
(* The import of a bundle (BundleImport): it never loses what it has read of a
   local file, for any bundle, any home, any options and any number of records
   added meanwhile. *)

File == Seq(Record)

\* Any bundle and home an import may begin with.
ImportStart ==
  /\ ImportInit /\ verdict = "none" /\ items = NoFiles /\ options \in Options
  /\ \A n \in DOMAIN bundle.sessions :
       bundle.sessions[n].at \in {"sessions", "archived"} /\ bundle.sessions[n].data \in File
  /\ \A n \in DOMAIN bundle.notes : bundle.notes[n].data \in File
  /\ \A p \in DOMAIN home : home[p] \in File

importAllVars == <<bundleVars, importVars>>

ImportSpec == ImportStart /\ [][ImportNext]_importAllVars

Kept(n) ==
  Alone(n) =>
  \/ Begins(looked[n], home[Dest(n)])
  \/ \E b \in backups : b.entry = n /\ Begins(looked[n], b.data)

\* What stays as it is, and what every file is made of.
ImportTypes ==
  /\ \A n \in DOMAIN bundle.sessions :
       bundle.sessions[n].at \in {"sessions", "archived"} /\ bundle.sessions[n].data \in File
  /\ \A n \in DOMAIN bundle.notes : bundle.notes[n].data \in File
  /\ \A p \in DOMAIN home : home[p] \in File
  /\ \A n \in DOMAIN items : items[n].after \in File
  /\ options \in Options /\ chosen \subseteq DOMAIN bundle.sessions
  /\ \A b \in backups : b.entry \in DOMAIN items

\* An entry that was looked at has a file here and is decided, not as a new one.
\* Until it is set aside, what an update will write begins with what was read, and
\* then the backup does.
LookedInv ==
  \A n \in DOMAIN looked :
    /\ looked[n] \in File /\ Dest(n) \in DOMAIN home
    /\ n \in DOMAIN items /\ items[n].action # "import"
    /\ items[n].action = "update" /\ ~HasBackup(n) => Begins(looked[n], items[n].after)
    /\ HasBackup(n) => \E b \in backups : b.entry = n /\ Begins(looked[n], b.data)
    /\ Kept(n)

\* What is extended or replaced was looked at.
DecidedInv ==
  \A n \in DOMAIN items : items[n].action \in {"update", "replace"} => n \in DOMAIN looked

ImportInv == ImportTypes /\ LookedInv /\ DecidedInv

-----------------------------------------------------------------------------
(* Files. *)

LEMMA MappedIsFile ==
  ASSUME NEW file \in File, NEW agent
  PROVE  Mapped(agent, file, "source", "target") \in File
<1>1. \A r \in Record : Renamed(r, "target") \in Record
  BY FilesAssumption DEF Record, Renamed, Cwds
<1>2. \A i \in 1..Len(file) : file[i] \in Record /\ Renamed(file[i], "target") \in Record
  BY <1>1 DEF File
<1>3. MappedRollout(file, "source", "target") \in File
  BY <1>2 DEF MappedRollout, File
<1>4. MappedTranscript(file, "source", "target") \in File
  BY <1>2 DEF MappedTranscript, File
<1> QED
  BY <1>3, <1>4 DEF Mapped

LEMMA TerminateFile ==
  ASSUME NEW file \in File
  PROVE  /\ Terminate(file) \in File /\ Len(Terminate(file)) = Len(file)
         /\ \A i \in 1..Len(file) :
              /\ Terminate(file)[i].text = file[i].text
              /\ i < Len(file) => Terminate(file)[i] = file[i]
<1>1. CASE file = <<>>
  BY <1>1 DEF Terminate, File
<1>2. CASE file # <<>>
  <2>1. Len(file) \in 1..Len(file) /\ file[Len(file)] \in Record
    BY <1>2 DEF File
  <2>2. /\ Terminated(file[Len(file)]) \in Record
        /\ Terminated(file[Len(file)]).text = file[Len(file)].text
    BY <2>1 DEF Record, Terminated
  <2> QED
    BY <1>2, <2>1, <2>2 DEF Terminate, File
<1> QED
  BY <1>1, <1>2

LEMMA CanonLength ==
  ASSUME NEW x \in File
  PROVE  /\ Len(Canon(x)) = Len(x)
         /\ \A i \in 1..Len(x) : Canon(x)[i] = CanonOf[x[i].text]
<1>1. \A i \in 1..Len(x) : CanonOf[x[i].text] \in {CanonOf[t] : t \in Texts}
  <2> SUFFICES ASSUME NEW i \in 1..Len(x) PROVE x[i].text \in Texts
    OBVIOUS
  <2>1. x[i] \in Record
    BY DEF File
  <2> QED
    BY <2>1 DEF Record
<1>2. Canon(x) \in Seq({CanonOf[t] : t \in Texts})
  BY <1>1 DEF Canon, File
<1> QED
  BY <1>2 DEF Canon, File

\* The records of a file begin another's as they do one by one.
LEMMA PrefixByRecords ==
  ASSUME NEW x \in File, NEW y \in File
  PROVE  IsPrefixOf(Canon(x), Canon(y)) <=>
           /\ Len(x) <= Len(y)
           /\ \A i \in 1..Len(x) : CanonOf[x[i].text] = CanonOf[y[i].text]
<1>1. /\ Len(Canon(x)) = Len(x) /\ \A i \in 1..Len(x) : Canon(x)[i] = CanonOf[x[i].text]
      /\ Len(Canon(y)) = Len(y) /\ \A i \in 1..Len(y) : Canon(y)[i] = CanonOf[y[i].text]
  BY CanonLength
<1>2. Len(x) \in Nat /\ Len(y) \in Nat
  BY DEF File
<1> QED
  BY <1>1, <1>2 DEF IsPrefixOf

LEMMA BeginsItself == ASSUME NEW x \in File PROVE Begins(x, x)
BY DEF Begins, BytePrefix, File

\* A file whose records are kept, but for a terminator the last of them gets.
LEMMA BeginsLonger ==
  ASSUME NEW x \in File, NEW y \in File, NEW z \in File, Begins(x, y), Len(y) <= Len(z),
         \A i \in 1..Len(y) : z[i].text = y[i].text /\ (i < Len(y) => z[i] = y[i])
  PROVE  Begins(x, z)
<1>1. Len(x) \in Nat /\ Len(y) \in Nat /\ Len(z) \in Nat
  BY DEF File
<1>2. CASE IsPrefixOf(Canon(x), Canon(y))
  <2>1. Len(x) <= Len(y) /\ \A i \in 1..Len(x) : CanonOf[x[i].text] = CanonOf[y[i].text]
    BY <1>2, PrefixByRecords
  <2>2. IsPrefixOf(Canon(x), Canon(z))
    BY <1>1, <2>1, PrefixByRecords
  <2> QED
    BY <2>2 DEF Begins
<1>3. CASE BytePrefix(x, y)
  <2>1. CASE x = <<>>
    BY <2>1 DEF Begins, BytePrefix
  <2>2. CASE x # <<>>
    <3>1. /\ Len(x) \in 1..Len(y) /\ \A i \in 1..(Len(x) - 1) : x[i] = y[i]
      BY <1>3, <2>2 DEF BytePrefix, File
    <3>2. \/ x[Len(x)] = y[Len(x)]
          \/ ~x[Len(x)].nl /\ (x[Len(x)].text = y[Len(x)].text
                                 \/ <<x[Len(x)].text, y[Len(x)].text>> \in Cut)
      BY <1>3, <2>2 DEF BytePrefix
    <3>3. CASE ~x[Len(x)].nl /\ x[Len(x)] # y[Len(x)]
      <4>1. Len(x) <= Len(z) /\ \A i \in 1..(Len(x) - 1) : x[i] = z[i]
        BY <1>1, <3>1
      <4>2. z[Len(x)].text = y[Len(x)].text
        BY <3>1
      <4>3. x[Len(x)].text = z[Len(x)].text \/ <<x[Len(x)].text, z[Len(x)].text>> \in Cut
        BY <3>2, <3>3, <4>2
      <4>4. BytePrefix(x, z)
        BY <3>3, <4>1, <4>3 DEF BytePrefix
      <4> QED
        BY <4>4 DEF Begins
    <3>4. CASE x[Len(x)] = y[Len(x)]
      <4>1. \A i \in 1..Len(x) : x[i] = y[i]
        BY <1>1, <3>1, <3>4
      <4>2. Len(x) <= Len(z) /\ \A i \in 1..Len(x) : CanonOf[x[i].text] = CanonOf[z[i].text]
        BY <1>1, <3>1, <4>1
      <4>3. IsPrefixOf(Canon(x), Canon(z))
        BY <4>2, PrefixByRecords
      <4> QED
        BY <4>3 DEF Begins
    <3> QED
      BY <3>2, <3>3, <3>4
  <2> QED
    BY <2>1, <2>2
<1> QED
  BY <1>2, <1>3 DEF Begins

\* A record added on a line of its own takes nothing away.
LEMMA GrowsOn ==
  ASSUME NEW x \in File, NEW y \in File, NEW r \in Record, Begins(x, y)
  PROVE  Begins(x, Append(Terminate(y), r))
<1>1. /\ Terminate(y) \in File /\ Len(Terminate(y)) = Len(y)
      /\ \A i \in 1..Len(y) : /\ Terminate(y)[i].text = y[i].text
                              /\ i < Len(y) => Terminate(y)[i] = y[i]
  BY TerminateFile
<1>2. /\ Append(Terminate(y), r) \in File /\ Len(Append(Terminate(y), r)) = Len(y) + 1
      /\ \A i \in 1..Len(y) : Append(Terminate(y), r)[i] = Terminate(y)[i]
      /\ Len(y) \in Nat
  BY <1>1 DEF File
<1>3. PICK z \in File : z = Append(Terminate(y), r)
  BY <1>2
<1>4. Len(y) <= Len(z) /\ \A i \in 1..Len(y) : z[i].text = y[i].text /\ (i < Len(y) => z[i] = y[i])
  BY <1>1, <1>2, <1>3
<1>5. Begins(x, z)
  BY <1>4, BeginsLonger
<1> QED
  BY <1>3, <1>5

\* An update begins with the local file it extends.
LEMMA ExtendedBegins ==
  ASSUME NEW x \in File, NEW y \in File
  PROVE  Extended(x, y) \in File /\ Begins(y, Extended(x, y))
<1>1. CASE BytePrefix(y, x)
  BY <1>1 DEF Extended, Begins
<1>2. CASE ~BytePrefix(y, x)
  <2> DEFINE s == SubSeq(x, Len(y) + 1, Len(x))
             z == Terminate(y) \o s
  <2>1. /\ Terminate(y) \in File /\ Len(Terminate(y)) = Len(y)
        /\ \A i \in 1..Len(y) : Terminate(y)[i].text = y[i].text
    BY TerminateFile
  <2>2. s \in File /\ Len(s) \in Nat
    BY DEF File
  <2>3. /\ z \in File /\ Len(y) <= Len(z)
        /\ \A i \in 1..Len(y) : z[i].text = y[i].text
    BY <2>1, <2>2 DEF File
  <2>4. Extended(x, y) = z
    BY <1>2 DEF Extended, CanonicalMerge
  <2> HIDE DEF z
  <2>5. IsPrefixOf(Canon(y), Canon(z))
    BY <2>3, PrefixByRecords
  <2> QED
    BY <2>3, <2>4, <2>5 DEF Begins
<1> QED
  BY <1>1, <1>2

-----------------------------------------------------------------------------
(* What an import has of its inputs. *)

LEMMA ContentIsFile ==
  ASSUME ImportTypes, NEW n \in DOMAIN bundle.sessions
  PROVE  Content(n) \in File
<1>1. bundle.sessions[n].data \in File
  BY DEF ImportTypes
<1>2. Incoming(n) \in File
  BY <1>1, MappedIsFile DEF Incoming
<1> QED
  BY <1>1, <1>2 DEF Content

\* Where an entry that is alone goes no other is written, and no copy.
LEMMA PlacesDiffer ==
  ASSUME ImportTypes, NEW m \in DOMAIN items, NEW n, Alone(n), Goes(m) = Dest(n)
  PROVE  m = n /\ items[m].action # "import-copy"
<1>1. Dest(n)[1] \in {"sessions", "archived"}
  BY DEF ImportTypes, Dest, Place, Origin
<1>2. items[m].action # "import-copy"
  BY <1>1 DEF Goes
<1>3. Goes(m) = Dest(m)
  BY <1>2 DEF Goes
<1> QED
  BY <1>2, <1>3 DEF Alone

\* Where an entry goes does not change, and it is alone until another is decided.
LEMMA DestStays ==
  ASSUME UNCHANGED <<bundle, options>>
  PROVE  \A m : Dest(m)' = Dest(m)
BY DEF Dest, Mapping, Place, Origin

LEMMA AloneStays ==
  ASSUME UNCHANGED <<bundle, options, items>>
  PROVE  \A m : Alone(m)' = Alone(m)
BY DestStays DEF Alone

LEMMA StartInv == ImportStart => ImportInv
BY DEF ImportStart, ImportInit, ImportInv, ImportTypes, LookedInv, DecidedInv, NoFiles

\* A step that leaves home, plan, backups and what was looked at alone.
LEMMA OtherStepInv ==
  ASSUME ImportInv, UNCHANGED <<bundle, home, items, options, backups, looked>>,
         chosen' \subseteq DOMAIN bundle.sessions
  PROVE  ImportInv'
BY DestStays, AloneStays DEF ImportInv, ImportTypes, LookedInv, DecidedInv, Kept, HasBackup

LEMMA OpensInv == ImportInv /\ ImportOpens => ImportInv'
<1> SUFFICES ASSUME ImportInv, ImportOpens PROVE ImportInv'
  OBVIOUS
<1>1. PICK selected \in Selections : chosen' = selected
  BY DEF ImportOpens
<1>2. selected \subseteq DOMAIN bundle.sessions
  <2>1. \/ Selections = {DOMAIN bundle.sessions}
        \/ Selections = SUBSET {m \in DOMAIN bundle.sessions : ~bundle.sessions[m].packed}
        \/ Selections = SUBSET DOMAIN bundle.sessions
    BY DEF ImportInv, ImportTypes, Options, Selections
  <2> QED
    BY <1>1, <2>1
<1>3. UNCHANGED <<bundle, home, items, options, backups, looked>>
  BY DEF ImportOpens
<1> QED
  BY <1>1, <1>2, <1>3, OtherStepInv

\* An entry that is decided: the file here is noted, if there is one, and nothing
\* but a file that is not here is written.
LEMMA DecideInv ==
  ASSUME ImportInv, NEW n, n \notin DOMAIN items, NEW action, NEW after \in File,
         items' = With(items, n, [action |-> action, after |-> after]),
         looked' = IF Dest(n) \in DOMAIN home THEN With(looked, n, home[Dest(n)]) ELSE looked,
         \/ home' = home
         \/ Dest(n) \notin DOMAIN home /\ home' = With(home, Dest(n), after),
         action = "import" <=> Dest(n) \notin DOMAIN home,
         action = "update" => Begins(home[Dest(n)], after),
         UNCHANGED <<bundle, options, chosen, backups>>
  PROVE  ImportInv'
<1> USE DEF ImportInv
<1>1. /\ DOMAIN items' = DOMAIN items \cup {n}
      /\ items'[n] = [action |-> action, after |-> after]
      /\ \A m \in DOMAIN items : items'[m] = items[m]
  BY DEF With
<1>2. /\ DOMAIN home \subseteq DOMAIN home'
      /\ \A p \in DOMAIN home : home'[p] = home[p]
      /\ \A p \in DOMAIN home' : home'[p] \in File
  BY DEF With, ImportTypes
<1>3. \A m : Dest(m)' = Dest(m) /\ HasBackup(m)' = HasBackup(m)
  BY DestStays DEF HasBackup
<1>9. \A m \in DOMAIN items : Alone(m)' => Alone(m)
  BY <1>1, <1>3 DEF Alone
<1>4. ~HasBackup(n) /\ n \notin DOMAIN looked
  BY DEF ImportTypes, LookedInv, HasBackup
<1>5. /\ DOMAIN looked' = IF Dest(n) \in DOMAIN home THEN DOMAIN looked \cup {n} ELSE DOMAIN looked
      /\ \A m \in DOMAIN looked : looked'[m] = looked[m]
      /\ Dest(n) \in DOMAIN home => looked'[n] = home[Dest(n)]
  BY <1>4 DEF With
<1>6. ImportTypes'
  BY <1>1, <1>2 DEF ImportTypes
<1>7. DecidedInv'
  BY <1>1, <1>5 DEF DecidedInv
<1>8. LookedInv'
  <2> SUFFICES ASSUME NEW m \in DOMAIN looked'
               PROVE  /\ looked'[m] \in File /\ Dest(m)' \in DOMAIN home'
                      /\ m \in DOMAIN items' /\ items'[m].action # "import"
                      /\ items'[m].action = "update" /\ ~HasBackup(m)' => Begins(looked'[m], items'[m].after)
                      /\ HasBackup(m)' => \E b \in backups' : b.entry = m /\ Begins(looked'[m], b.data)
                      /\ Kept(m)'
    BY DEF LookedInv
  <2>1. CASE m = n
    <3>1. Dest(n) \in DOMAIN home /\ looked'[n] = home[Dest(n)] /\ home[Dest(n)] \in File
      BY <1>4, <1>5, <2>1 DEF ImportTypes
    <3>2. Begins(looked'[n], home'[Dest(n)])
      BY <1>2, <3>1, BeginsItself
    <3>3. Kept(n)'
      BY <1>3, <3>2 DEF Kept
    <3> QED
      BY <1>1, <1>2, <1>3, <1>4, <2>1, <3>1, <3>3
  <2>2. CASE m # n
    <3>1. m \in DOMAIN looked /\ m \in DOMAIN items /\ Dest(m) \in DOMAIN home
      BY <1>5, <2>2 DEF LookedInv
    <3>2. Kept(m)'
      BY <1>2, <1>3, <1>5, <1>9, <3>1 DEF LookedInv, Kept
    <3> QED
      BY <1>1, <1>2, <1>3, <1>5, <3>1, <3>2 DEF LookedInv
  <2> QED
    BY <2>1, <2>2
<1> QED
  BY <1>6, <1>7, <1>8

LEMMA ResolvedInv ==
  ASSUME ImportInv, NEW n, SessionResolved(n)
  PROVE  ImportInv'
<1> USE DEF ImportInv
<1> DEFINE after == IF Resolved(n) = "update" THEN Extended(Content(n), home[Dest(n)]) ELSE Content(n)
<1>1. /\ items' = With(items, n, [action |-> Resolved(n), after |-> after])
      /\ looked' = IF Dest(n) \in DOMAIN home THEN With(looked, n, home[Dest(n)]) ELSE looked
      /\ n \notin DOMAIN items /\ n \in chosen
      /\ UNCHANGED <<bundle, home, options, chosen, backups>>
  BY DEF SessionResolved, Planned, Deciding
<1>2. Content(n) \in File
  BY <1>1, ContentIsFile DEF ImportTypes
<1>3. Resolved(n) = "import" <=> Dest(n) \notin DOMAIN home
  BY DEF Resolved, PlanMerge
<1>4. Dest(n) \in DOMAIN home => home[Dest(n)] \in File
  BY DEF ImportTypes
<1>5. after \in File
  BY <1>2, <1>3, <1>4, ExtendedBegins
<1>6. Resolved(n) = "update" => Begins(home[Dest(n)], after)
  BY <1>2, <1>3, <1>4, ExtendedBegins
<1> HIDE DEF after
<1>7. Resolved(n) = "import" => UNCHANGED home
  BY <1>1
<1> QED
  BY <1>1, <1>3, <1>5, <1>6, DecideInv DEF after

LEMMA NoteInv ==
  ASSUME ImportInv, NEW n, NoteResolved(n)
  PROVE  ImportInv'
<1> USE DEF ImportInv
<1> DEFINE data == bundle.notes[n].data
           action == AsideAction(Dest(n), data)
<1>1. /\ items' = With(items, n, [action |-> action, after |-> data])
      /\ home' = IF action = "import" /\ ~options.dry THEN With(home, Dest(n), data) ELSE home
      /\ looked' = IF Dest(n) \in DOMAIN home THEN With(looked, n, home[Dest(n)]) ELSE looked
      /\ n \notin DOMAIN items /\ n \in DOMAIN bundle.notes
      /\ UNCHANGED <<bundle, options, chosen, backups>>
  BY DEF NoteResolved, Planned, Deciding
<1>2. data \in File
  BY <1>1 DEF ImportTypes
<1>3. (action = "import" <=> Dest(n) \notin DOMAIN home) /\ action # "update"
  BY DEF AsideAction
<1> HIDE DEF data, action
<1> QED
  BY <1>1, <1>2, <1>3, DecideInv

LEMMA BackUpInv ==
  ASSUME ImportInv, NEW n, BackUp(n)
  PROVE  ImportInv'
<1> USE DEF ImportInv
<1>1. /\ backups' = backups \cup {[entry |-> n, data |-> home[Dest(n)]]}
      /\ looked' = With(looked, n, home[Dest(n)])
      /\ n \in DOMAIN items /\ items[n].action \in {"update", "replace"}
      /\ UNCHANGED <<bundle, home, items, options, chosen>>
  BY DEF BackUp, SetAside, ToWrite, bundleVars
<1>2. n \in DOMAIN looked /\ Dest(n) \in DOMAIN home /\ home[Dest(n)] \in File
  BY <1>1 DEF DecidedInv, LookedInv, ImportTypes
<1>3. /\ DOMAIN looked' = DOMAIN looked /\ looked'[n] = home[Dest(n)]
      /\ \A m \in DOMAIN looked : m # n => looked'[m] = looked[m]
  BY <1>1, <1>2 DEF With
<1>4. \A m : Dest(m)' = Dest(m) /\ (m # n => HasBackup(m)' = HasBackup(m))
  BY <1>1, DestStays DEF HasBackup
<1>7. \A m : Alone(m)' = Alone(m)
  BY <1>1, AloneStays
<1>5. ImportTypes' /\ DecidedInv'
  BY <1>1, <1>3 DEF ImportTypes, DecidedInv
<1>6. LookedInv'
  <2> SUFFICES ASSUME NEW m \in DOMAIN looked
               PROVE  /\ looked'[m] \in File /\ Dest(m)' \in DOMAIN home'
                      /\ m \in DOMAIN items' /\ items'[m].action # "import"
                      /\ items'[m].action = "update" /\ ~HasBackup(m)' => Begins(looked'[m], items'[m].after)
                      /\ HasBackup(m)' => \E b \in backups' : b.entry = m /\ Begins(looked'[m], b.data)
                      /\ Kept(m)'
    BY <1>3 DEF LookedInv
  <2>1. CASE m = n
    <3> DEFINE made == [entry |-> n, data |-> home[Dest(n)]]
    <3>1. \E b \in backups' : b.entry = n /\ Begins(looked'[n], b.data)
      <4>1. Begins(home[Dest(n)], home[Dest(n)])
        BY <1>2, BeginsItself
      <4>2. made \in backups' /\ made.entry = n /\ made.data = home[Dest(n)]
        BY <1>1
      <4>3. Begins(looked'[n], made.data)
        BY <4>1, <4>2, <1>3
      <4> QED
        BY <4>2, <4>3
    <3>2. HasBackup(n)'
      BY <3>1 DEF HasBackup
    <3> QED
      BY <1>1, <1>2, <1>3, <1>4, <2>1, <3>1, <3>2 DEF LookedInv, Kept
  <2>2. CASE m # n
    <3>1. Kept(m)'
      BY <1>1, <1>3, <1>4, <1>7, <2>2 DEF LookedInv, Kept
    <3>2. HasBackup(m)' => \E b \in backups' : b.entry = m /\ Begins(looked'[m], b.data)
      BY <1>1, <1>3, <1>4, <2>2 DEF LookedInv
    <3> QED
      BY <1>1, <1>3, <1>4, <2>2, <3>1, <3>2 DEF LookedInv
  <2> QED
    BY <2>1, <2>2
<1> QED
  BY <1>5, <1>6

\* A step after which nothing has changed but home, where all that was looked at is
\* kept.
LEMMA HomeInv ==
  ASSUME ImportInv, UNCHANGED <<bundle, items, options, chosen, backups, looked>>,
         DOMAIN home \subseteq DOMAIN home', \A p \in DOMAIN home' : home'[p] \in File,
         \A m \in DOMAIN looked : Kept(m)'
  PROVE  ImportInv'
<1> USE DEF ImportInv
<1>1. \A m : Dest(m)' = Dest(m) /\ HasBackup(m)' = HasBackup(m)
  BY DestStays DEF HasBackup
<1>2. ImportTypes' /\ DecidedInv'
  BY DEF ImportTypes, DecidedInv
<1>3. LookedInv'
  BY <1>1 DEF LookedInv
<1> QED
  BY <1>2, <1>3

LEMMA WriteInv ==
  ASSUME ImportInv, NEW n, Write(n)
  PROVE  ImportInv'
<1> USE DEF ImportInv
<1>1. /\ home' = With(home, Goes(n), items[n].after)
      /\ n \in DOMAIN items /\ items[n].action \in {"import", "replace", "import-copy", "update"}
      /\ items[n].action = "replace" => HasBackup(n)
      /\ UNCHANGED <<bundle, items, options, chosen, backups, looked>>
  BY DEF Write, ToWrite, SetAside
<1>2. /\ DOMAIN home \subseteq DOMAIN home' /\ home'[Goes(n)] = items[n].after
      /\ \A p \in DOMAIN home : p # Goes(n) => home'[p] = home[p]
      /\ \A p \in DOMAIN home' : home'[p] \in File
  BY <1>1 DEF With, ImportTypes
<1>3. \A m : Dest(m)' = Dest(m) /\ Alone(m)' = Alone(m)
  BY <1>1, DestStays, AloneStays
<1>4. ASSUME NEW m \in DOMAIN looked PROVE Kept(m)'
  <2> SUFFICES ASSUME Alone(m) PROVE Kept(m)'
    BY <1>3 DEF Kept
  <2>1. CASE Goes(n) # Dest(m)
    <3>1. home'[Dest(m)] = home[Dest(m)]
      BY <1>2, <2>1 DEF LookedInv
    <3> QED
      BY <1>1, <1>3, <3>1 DEF LookedInv, Kept
  <2>2. CASE Goes(n) = Dest(m)
    <3>1. m = n /\ items[n].action \in {"replace", "update"}
      BY <1>1, <2>2, PlacesDiffer DEF LookedInv
    <3>2. CASE HasBackup(n)
      BY <1>1, <3>1, <3>2 DEF LookedInv, Kept
    <3>3. CASE ~HasBackup(n)
      <4>1. Begins(looked[m], items[m].after) /\ home'[Dest(m)] = items[m].after
        BY <1>1, <1>2, <2>2, <3>1, <3>3 DEF LookedInv
      <4> QED
        BY <1>1, <1>3, <4>1 DEF Kept
    <3> QED
      BY <3>2, <3>3
  <2> QED
    BY <2>1, <2>2
<1> QED
  BY <1>1, <1>2, <1>4, HomeInv

LEMMA LocalGrowsInv ==
  ASSUME ImportInv, NEW p, LocalGrows(p)
  PROVE  ImportInv'
<1> USE DEF ImportInv
<1>1. PICK r \in Spare : home' = [home EXCEPT ![p] = Append(Terminate(@), r)]
  BY DEF LocalGrows
<1>2. /\ p \in DOMAIN home /\ home[p] \in File /\ r \in Record
      /\ UNCHANGED <<bundle, items, options, chosen, backups, looked>>
  BY ImportAssumption DEF LocalGrows, ImportTypes
<1>3. Append(Terminate(home[p]), r) \in File
  BY <1>2, TerminateFile DEF File
<1>4. /\ DOMAIN home' = DOMAIN home /\ \A q \in DOMAIN home : q # p => home'[q] = home[q]
      /\ home'[p] = Append(Terminate(home[p]), r)
  BY <1>1, <1>2 DEF ImportTypes
<1>5. \A q \in DOMAIN home' : home'[q] \in File
  BY <1>3, <1>4 DEF ImportTypes
<1>6. \A m : Dest(m)' = Dest(m) /\ Alone(m)' = Alone(m)
  BY <1>2, DestStays, AloneStays
<1>7. ASSUME NEW m \in DOMAIN looked PROVE Kept(m)'
  <2>1. looked[m] \in File /\ Dest(m) \in DOMAIN home /\ Kept(m)
    BY DEF LookedInv
  <2>2. Begins(looked[m], home[Dest(m)]) => Begins(looked[m], home'[Dest(m)])
    BY <1>2, <1>4, <2>1, GrowsOn
  <2> QED
    BY <1>2, <1>6, <2>1, <2>2 DEF Kept
<1> QED
  BY <1>2, <1>4, <1>5, <1>7, HomeInv

LEMMA ImportStep == ImportInv /\ [ImportNext]_importAllVars => ImportInv'
<1> SUFFICES ASSUME ImportInv, [ImportNext]_importAllVars PROVE ImportInv'
  OBVIOUS
<1>1. CASE ImportOpens
  BY <1>1, OpensInv
<1>2. CASE AllDecided \/ ImportBreaksOff \/ ImportEnds \/ (\E n \in Entries : SessionAborts(n))
            \/ UNCHANGED importAllVars
  <2>1. UNCHANGED <<bundle, home, items, options, backups, looked, chosen>>
    BY <1>2 DEF AllDecided, ImportBreaksOff, ImportEnds, SessionAborts, importVars, importAllVars, bundleVars
  <2>2. chosen' \subseteq DOMAIN bundle.sessions
    BY <2>1 DEF ImportInv, ImportTypes
  <2> QED
    BY <2>1, <2>2, OtherStepInv
<1>3. CASE \E n \in Entries : SessionResolved(n) \/ NoteResolved(n)
  BY <1>3, ResolvedInv, NoteInv
<1>4. CASE \E n \in Entries : BackUp(n) \/ Write(n)
  BY <1>4, BackUpInv, WriteInv
<1>5. CASE \E p \in DOMAIN home : LocalGrows(p)
  BY <1>5, LocalGrowsInv
<1> QED
  BY <1>1, <1>2, <1>3, <1>4, <1>5 DEF ImportNext

LEMMA ImportKeeps == ImportInv => LocalNeverLost
BY DEF ImportInv, LookedInv, Kept, LocalNeverLost

\* Wherever an import breaks off, under any options and however much the agent adds
\* meanwhile, each local file still begins with what Import has last read of it, or
\* one of the backups does: Import and backupFile.
THEOREM ImportLosesNothing == ImportSpec => []LocalNeverLost
BY ImportKeeps, StartInv, ImportStep, PTL DEF ImportSpec

-----------------------------------------------------------------------------
(* The export (SessionExport): a published archive is the project as it was at
   one moment. *)

\* The listing that makes the home of that instant the moment of the archive.
Taken == step = "published" \/ (step = "after" /\ (listed \/ dir = "archived"))

\* The home the archive has to agree with: the present one until then.
Now == IF Taken THEN moment ELSE tree

\* The passes have listed the directory a file is in.
Passed(n) == (dir = Now[n].at /\ listed) \/ (dir = "archived" /\ Now[n].at = "sessions")

Scanned == {"copy", "memory", "remember", "extras", "pack", "after", "published"}

IsHome(h) ==
  /\ h = [n \in Names |->
               [at |-> h[n].at, data |-> h[n].data, mark |-> h[n].mark]]
  /\ \A n \in Names :
       /\ h[n].at \in Places \cup {"none"}
       /\ h[n].data \in Files /\ h[n].mark \in Nat /\ h[n].mark <= writes
       /\ h[n].at # "none" => InTool(n)
       /\ h[n].at = "archived" => tool = "codex"

ExportTyped ==
  /\ tool \in {"codex", "claude"} /\ writes \in Nat /\ listed \in BOOLEAN
  /\ IsHome(tree) /\ IsHome(moment)
  /\ step \in {"idle", "before", "scan", "failed"} \cup Scanned
  /\ dir \in Places /\ (dir = "archived" => tool = "codex")
  /\ todo \subseteq Names
  /\ stamps = [before |-> stamps.before, after |-> stamps.after]
  /\ \A s \in stamps.before \cup stamps.after :
       s.name \in Names /\ s.mark \in Nat /\ s.mark <= writes
  /\ \A n \in DOMAIN archive :
       archive[n] = [at |-> archive[n].at, data |-> archive[n].data] /\ archive[n].data \in Files
  /\ \A n \in DOMAIN found : found[n].at \in Places /\ found[n].cwd \in Cwds \cup {"none"}

\* What a pass may have before it.
TodoFits ==
  /\ step \notin {"copy", "remember", "pack", "failed"} /\ ~listed => todo = {}
  /\ step = "scan" => todo \subseteq Sessions
  /\ step = "memory" => \A n \in todo : KindOf[n] = "note"
  /\ step = "extras" => \A n \in todo : /\ KindOf[n] \in {"child", "result"}
                                           /\ n \in OwnFolder /\ ParentOf[n] \in Selected

\* What the archive is to hold by the end of each step.
Due ==
  Selected \cup (IF step \in {"copy", "memory"} THEN {} ELSE DOMAIN noted)
    \cup (IF step \in {"copy", "memory", "remember", "extras"} THEN {} ELSE DOMAIN sums)

ArchiveFits ==
  /\ step \in Scanned =>
       DOMAIN archive \cup (IF step \in {"copy", "remember", "pack"} THEN todo ELSE {}) = Due
  /\ step = "published" => \A n \in DOMAIN sums : archive[n].data = sums[n]
  /\ step \in {"idle", "before"} => DOMAIN found = {}
  /\ step \in {"idle", "before", "scan"} => DOMAIN archive = {}
  /\ step \in {"idle", "before", "scan", "copy"} => DOMAIN noted = {}
  /\ step \in {"idle", "before", "scan", "copy", "memory", "remember"} => DOMAIN sums = {}

KindsFit ==
  /\ DOMAIN found \subseteq Sessions
  /\ \A n \in DOMAIN noted : n \in Names /\ KindOf[n] = "note"
  /\ \A n \in DOMAIN sums : /\ n \in Names /\ KindOf[n] = "result"
                             /\ n \in OwnFolder /\ ParentOf[n] \in Selected
  /\ tool = "codex" =>
       /\ step \notin {"memory", "remember", "extras", "pack"}
       /\ DOMAIN noted = {} /\ DOMAIN sums = {}
  /\ tool = "codex" /\ step \in {"after", "published"} => Unknown = {}

StampsOf(n) == {s \in stamps.before : s.name = n}

\* Not written to since it was first stamped.
Steady(n) == \E s \in StampsOf(n) : s.mark = Now[n].mark

\* A file that has been stamped, scanned or copied is where it was.
StaysPut(n) ==
  /\ \A s \in StampsOf(n) : Now[n].at # "none" /\ s.mark <= Now[n].mark
  /\ n \in DOMAIN found => Now[n].at # "none" /\ found[n].at = Now[n].at
  /\ n \in DOMAIN noted \cup DOMAIN sums => Now[n].at # "none"
  /\ n \in DOMAIN archive => Now[n].at # "none" /\ archive[n].at = Now[n].at

\* And what was read of it is what it holds, if it is steady.
ReadsTrue(n) ==
  Steady(n) =>
    /\ n \in DOMAIN found =>
         \/ found[n].cwd = Recorded(tool, Now[n].data)
         \/ KindOf[n] = "packed" /\ found[n].cwd = "none"
    /\ n \in DOMAIN noted => noted[n] = Len(Now[n].data)
    /\ n \in DOMAIN archive => archive[n].data = Now[n].data

\* No pass has overlooked a file the first stamp has.
NotOverlooked(n) ==
  StampsOf(n) # {} =>
    /\ n \in Sessions =>
         /\ step = "scan" /\ Passed(n) => n \in todo \cup DOMAIN found
         /\ step \in Scanned => n \in DOMAIN found
    /\ KindOf[n] = "note" =>
         /\ step = "memory" /\ listed => n \in todo \cup DOMAIN noted
         /\ tool = "claude" /\ step \in Scanned \ {"copy", "memory"} => n \in DOMAIN noted
    /\ KindOf[n] = "result" /\ n \in OwnFolder /\ ParentOf[n] \in Selected =>
         /\ step = "extras" /\ listed => n \in todo \cup DOMAIN sums
         /\ tool = "claude" /\ step \in {"pack", "after", "published"} => n \in DOMAIN sums

\* Nor does the second stamp overlook one of the moment.
StampedTwice(n) ==
  Taken /\ moment[n].at # "none" =>
    /\ tree[n].at = moment[n].at /\ moment[n].mark <= tree[n].mark
    /\ step = "after" /\ Passed(n) =>
         n \in todo \/ \E s \in stamps.after : s.name = n /\ moment[n].mark <= s.mark
    /\ step = "published" => Steady(n)

FileFits(n) == StaysPut(n) /\ ReadsTrue(n) /\ NotOverlooked(n) /\ StampedTwice(n)

ExportInv ==
  /\ ExportTyped
  /\ step # "failed" =>
       /\ TodoFits /\ ArchiveFits /\ KindsFit
       /\ \A n \in Names \ strayed : FileFits(n)


-----------------------------------------------------------------------------
LEMMA FilesAreSequences == Files \subseteq Seq(Record)
BY FilesAssumption DEF Files

LEMMA SomeLeast ==
  ASSUME NEW T, T \subseteq Nat, T # {}
  PROVE  \E x \in T : \A y \in T : x <= y
<1>1. PICK x \in T : \A y \in T : <<y, x>> \notin OpToRel(<, Nat)
  BY NatLessThanWellFounded, WFMin, Zenon
<1>2. \A y \in T : ~(y < x)
  BY <1>1 DEF OpToRel
<1> QED
  BY <1>2

LEMMA SomeGreatest ==
  ASSUME NEW k \in Nat, NEW T, T \subseteq 1..k, T # {}
  PROVE  \E x \in T : \A y \in T : y <= x
<1> DEFINE U == {k - y : y \in T}
<1>1. U \subseteq Nat /\ U # {}
  <2>1. \A y \in T : y \in Nat /\ k - y \in Nat
    OBVIOUS
  <2>2. PICK y \in T : TRUE
    OBVIOUS
  <2>3. k - y \in U
    OBVIOUS
  <2> QED
    BY <2>1, <2>3
<1>2. PICK u \in U : \A w \in U : u <= w
  BY <1>1, SomeLeast
<1>3. PICK x \in T : u = k - x
  OBVIOUS
<1>4. \A y \in T : k - x <= k - y
  BY <1>2, <1>3
<1> QED
  BY <1>4

LEMMA RecordedIsDirectory ==
  ASSUME NEW agent, NEW file \in Files
  PROVE  Recorded(agent, file) \in Cwds \cup {"none"}
<1>1. Len(file) \in Nat /\ \A i \in 1..Len(file) : CwdIn[file[i].text] \in Cwds \cup {"none"}
  <2>1. file \in Seq(Record)
    BY FilesAreSequences
  <2>2. Len(file) \in Nat /\ \A i \in 1..Len(file) : file[i] \in Record
    BY <2>1
  <2> QED
    BY <2>2, FilesAssumption DEF Record
<1>2. RolloutCwd(file) \in Cwds \cup {"none"}
  <2> DEFINE read == {i \in Naming(file) :
                 ~\E j, k \in 1..(i - 1) : file[j].text \in Prompts /\ k \in Naming(file)}
             last == CHOOSE i \in read : \A j \in read : j <= i
  <2>1. read \subseteq 1..Len(file)
    BY DEF Naming
  <2>2. CASE read # {}
    <3> HIDE DEF read
    <3>1. last \in read
      BY <1>1, <2>1, <2>2, SomeGreatest
    <3>2. CwdIn[file[last].text] \in Cwds \cup {"none"}
      BY <1>1, <2>1, <3>1
    <3> QED
      BY <2>2, <3>2 DEF RolloutCwd, read
  <2>3. CASE read = {}
    BY <2>3 DEF RolloutCwd
  <2> QED
    BY <2>2, <2>3
<1>3. TranscriptCwd(file) \in Cwds \cup {"none"}
  <2> DEFINE read == Naming(file)
             first == CHOOSE i \in read : \A j \in read : i <= j
  <2>1. read \subseteq 1..Len(file) /\ read \subseteq Nat
    BY DEF Naming
  <2>2. CASE read # {}
    <3> HIDE DEF read
    <3>1. first \in read
      BY <1>1, <2>1, <2>2, SomeLeast
    <3>2. CwdIn[file[first].text] \in Cwds \cup {"none"}
      BY <1>1, <2>1, <3>1
    <3> QED
      BY <2>2, <3>2 DEF TranscriptCwd, read
  <2>3. CASE read = {}
    BY <2>3 DEF TranscriptCwd
  <2> QED
    BY <2>2, <2>3
<1> QED
  BY <1>2, <1>3 DEF Recorded

LEMMA ExportInitially == ExportInit => ExportInv
<1> SUFFICES ASSUME ExportInit PROVE ExportInv
  OBVIOUS
<1> USE DEF ExportInit
<1>1. PICK h \in Homes[tool] :
        tree = [n \in Names |-> [at |-> h[n].at, data |-> h[n].data, mark |-> 0]]
  OBVIOUS
<1>2. IsHome(tree)
  BY <1>1, ExportAssumption DEF IsHome, Places, InTool
<1>3. ExportTyped
  BY <1>2 DEF ExportTyped, Places, Scanned, NoFiles
<1>4. Selected = {} /\ Unknown = {}
  BY DEF Selected, Unknown, NoFiles
<1>5. TodoFits /\ ArchiveFits /\ KindsFit
  BY <1>4 DEF TodoFits, ArchiveFits, KindsFit, NoFiles, Scanned
<1>6. \A n \in Names \ strayed : FileFits(n)
  BY DEF FileFits, StaysPut, ReadsTrue, NotOverlooked, StampedTwice, StampsOf, Steady, NoFiles, Taken
<1> QED
  BY <1>3, <1>5, <1>6 DEF ExportInv

LEMMA SelectionStays ==
  ASSUME found' = found
  PROVE  Selected' = Selected /\ Unknown' = Unknown /\ \A n \in Names : CwdOf(n)' = CwdOf(n)
BY DEF Selected, Unknown, CwdOf

-----------------------------------------------------------------------------
LEMMA AgentKeeps ==
  ASSUME ExportInv, NEW k \in Names, NEW file, NEW away \in BOOLEAN, AgentTakes(k, file, away),
         file = [at |-> file.at, data |-> file.data, mark |-> file.mark],
         file.data \in Files, file.at \in Places \cup {"none"}, file.at = "archived" => tool = "codex",
         file.mark \in Nat, file.mark >= tree[k].mark, file.mark <= writes + 1,
         away \/ (file.mark = writes + 1 /\ tree[k].at \in {file.at, "none"})
  PROVE  ExportInv'
<1> USE DEF AgentTakes, Exporting, passVars
<1>1. step # "failed" /\ step' = step
  OBVIOUS
<1>2. ExportTyped /\ TodoFits /\ ArchiveFits /\ KindsFit /\ \A n \in Names \ strayed : FileFits(n)
  BY <1>1 DEF ExportInv
<1>3. ExportTyped'
  <2>1. IsHome(tree) /\ writes \in Nat /\ writes' = writes + 1 /\ tree' = [tree EXCEPT ![k] = file]
        /\ tool' = tool /\ InTool(k)
    BY <1>2 DEF ExportTyped
  <2>2. IsHome(tree)'
    <3>1. DOMAIN tree = Names
      BY <2>1 DEF IsHome
    <3>2. tree'[k] = file /\ \A n \in Names : n # k => tree'[n] = tree[n]
      BY <2>1, <3>1
    <3>3. \A n \in Names :
            /\ tree'[n].at \in Places \cup {"none"} /\ tree'[n].data \in Files
            /\ tree'[n].mark \in Nat /\ tree'[n].mark <= writes'
            /\ tree'[n].at # "none" => InTool(n)'
            /\ tree'[n].at = "archived" => tool' = "codex"
            /\ tree'[n] = [at |-> tree'[n].at, data |-> tree'[n].data, mark |-> tree'[n].mark]
      BY <2>1, <3>2 DEF IsHome, InTool
    <3>4. tree' = [n \in Names |-> tree'[n]]
      BY <2>1, <3>1
    <3>5. tree' = [n \in Names |-> [at |-> tree'[n].at, data |-> tree'[n].data, mark |-> tree'[n].mark]]
      BY <3>3, <3>4
    <3> QED
      BY <3>3, <3>5 DEF IsHome
  <2>3. IsHome(moment)'
    BY <1>2 DEF ExportTyped, IsHome, InTool
  <2> QED
    BY <2>2, <2>3, <1>2 DEF ExportTyped
<1>4. Selected' = Selected /\ Unknown' = Unknown
  BY SelectionStays
<1>5. (TodoFits /\ ArchiveFits /\ KindsFit)'
  BY <1>2, <1>4 DEF TodoFits, ArchiveFits, KindsFit, Due
<1>6. ASSUME NEW n \in Names \ strayed'
      PROVE  FileFits(n)'
  <2>1. n \in Names \ strayed /\ FileFits(n)
    BY <1>2, <1>6
  <2>2. /\ StampsOf(n)' = StampsOf(n) /\ Taken' = Taken
        /\ \A s \in StampsOf(n) : s.mark \in Nat /\ s.mark <= writes
    BY <1>2 DEF StampsOf, Taken, ExportTyped
  <2>3. \/ Now'[n] = Now[n]
        \/ n = k /\ ~Taken /\ Now'[n] = file /\ Now[n] = tree[n] /\ ~away
    BY <1>2, <2>1, <2>2 DEF Now, ExportTyped, IsHome
  <2>4. CASE Now'[n] = Now[n]
    <3>1. (StaysPut(n) /\ ReadsTrue(n) /\ NotOverlooked(n))'
      BY <2>1, <2>2, <2>4, <1>4 DEF FileFits, StaysPut, ReadsTrue, NotOverlooked, Steady, Passed
    <3>2. StampedTwice(n)'
      BY <2>1, <2>2, <2>4, <1>2 DEF FileFits, StampedTwice, Steady, Passed, ExportTyped, IsHome
    <3> QED
      BY <3>1, <3>2 DEF FileFits
  <2>5. CASE n = k /\ ~Taken /\ Now'[n] = file /\ Now[n] = tree[n] /\ ~away
    <3>1. file.mark = writes + 1 /\ tree[k].at \in {file.at, "none"} /\ writes \in Nat
      BY <2>5, <1>2 DEF ExportTyped
    <3>2. StaysPut(n)'
      BY <3>1, <2>1, <2>2, <2>5 DEF FileFits, StaysPut
    <3>3. ~Steady(n)' /\ ~Taken'
      BY <3>1, <2>2, <2>5 DEF Steady
    <3>4. NotOverlooked(n)'
      BY <3>1, <2>1, <2>2, <2>5, <1>4 DEF FileFits, StaysPut, NotOverlooked, Passed
    <3> QED
      BY <3>2, <3>3, <3>4 DEF FileFits, ReadsTrue, StampedTwice
  <2> QED
    BY <2>3, <2>4, <2>5
<1> QED
  BY <1>3, <1>5, <1>6 DEF ExportInv

LEMMA AgentActs ==
  ASSUME ExportInv, NEW n \in Names,
         AgentWrites(n) \/ AgentCreates(n) \/ AgentRemoves(n) \/ AgentMoves(n)
  PROVE  ExportInv'
<1>1. /\ tree[n] = [at |-> tree[n].at, data |-> tree[n].data, mark |-> tree[n].mark]
      /\ tree[n].at \in Places \cup {"none"} /\ (tree[n].at = "archived" => tool = "codex")
      /\ tree[n].data \in Files /\ tree[n].mark \in Nat /\ tree[n].mark <= writes /\ writes \in Nat
  BY DEF ExportInv, ExportTyped, IsHome
<1>2. CASE AgentWrites(n)
  <2>1. PICK d \in Grows(tree[n].data) : AgentTakes(n, [at |-> tree[n].at, data |-> d, mark |-> writes + 1], FALSE)
    BY <1>2 DEF AgentWrites
  <2> DEFINE file == [at |-> tree[n].at, data |-> d, mark |-> writes + 1]
  <2>2. /\ file = [at |-> file.at, data |-> file.data, mark |-> file.mark]
        /\ file.at = tree[n].at /\ file.mark = writes + 1 /\ file.data \in Files
    BY <1>1, ExportAssumption
  <2> HIDE DEF file
  <2>3. AgentTakes(n, file, FALSE)
    BY <2>1 DEF file
  <2>4. /\ file.at \in Places \cup {"none"} /\ (file.at = "archived" => tool = "codex")
        /\ file.mark \in Nat /\ file.mark >= tree[n].mark /\ file.mark <= writes + 1
    BY <1>1, <2>2
  <2> QED
    BY <2>2, <2>3, <2>4, AgentKeeps
<1>3. CASE AgentCreates(n)
  <2>1. PICK d \in Fresh[n] : AgentTakes(n, [at |-> "sessions", data |-> d, mark |-> writes + 1], FALSE)
    BY <1>3 DEF AgentCreates
  <2> DEFINE file == [at |-> "sessions", data |-> d, mark |-> writes + 1]
  <2>2. tree[n].at = "none"
    BY <1>3 DEF AgentCreates
  <2>3. /\ file = [at |-> file.at, data |-> file.data, mark |-> file.mark]
        /\ file.at = "sessions" /\ file.mark = writes + 1 /\ file.data \in Files
    BY ExportAssumption
  <2> HIDE DEF file
  <2>4. AgentTakes(n, file, FALSE)
    BY <2>1 DEF file
  <2>5. /\ file.at \in Places \cup {"none"} /\ (file.at = "archived" => tool = "codex")
        /\ file.mark \in Nat /\ file.mark >= tree[n].mark /\ file.mark <= writes + 1
    BY <1>1, <2>3 DEF Places
  <2> QED
    BY <2>2, <2>3, <2>4, <2>5, AgentKeeps
<1>4. CASE AgentRemoves(n)
  <2> DEFINE file == [tree[n] EXCEPT !.at = "none"]
  <2>1. AgentTakes(n, file, TRUE)
    BY <1>4 DEF AgentRemoves
  <2>2. /\ file = [at |-> file.at, data |-> file.data, mark |-> file.mark]
        /\ file.at = "none" /\ file.mark = tree[n].mark /\ file.data \in Files
    BY <1>1
  <2> HIDE DEF file
  <2>3. /\ file.at \in Places \cup {"none"} /\ (file.at = "archived" => tool = "codex")
        /\ file.mark \in Nat /\ file.mark >= tree[n].mark /\ file.mark <= writes + 1
    BY <1>1, <2>2 DEF Places
  <2> QED
    BY <2>1, <2>2, <2>3, AgentKeeps
<1>5. CASE AgentMoves(n)
  <2> DEFINE to == IF tree[n].at = "sessions" THEN "archived" ELSE "sessions"
             file == [tree[n] EXCEPT !.at = to]
  <2>1. AgentTakes(n, file, TRUE) /\ tool = "codex"
    BY <1>1, <1>5 DEF AgentMoves
  <2>2. /\ file = [at |-> file.at, data |-> file.data, mark |-> file.mark]
        /\ file.at \in Places /\ file.mark = tree[n].mark /\ file.data \in Files
    BY <1>1 DEF Places
  <2> HIDE DEF file
  <2>3. /\ file.at \in Places \cup {"none"} /\ (file.at = "archived" => tool = "codex")
        /\ file.mark \in Nat /\ file.mark >= tree[n].mark /\ file.mark <= writes + 1
    BY <1>1, <2>1, <2>2 DEF Places
  <2> QED
    BY <2>1, <2>2, <2>3, AgentKeeps
<1> QED
  BY <1>2, <1>3, <1>4, <1>5

\* The steps that change neither a file nor the stamps: what remains to show of
\* them is said of the passes.
LEMMA CourseKeeps ==
  ASSUME ExportInv, step # "failed", UNCHANGED <<sourceVars, stamps, moment, strayed>>
  PROVE  /\ ExportTyped /\ TodoFits /\ ArchiveFits /\ KindsFit
         /\ \A n \in Names \ strayed : FileFits(n)
         /\ IsHome(tree)' /\ IsHome(moment)'
         /\ \A n \in Names : StampsOf(n)' = StampsOf(n)
<1>1. IsHome(tree)' /\ IsHome(moment)'
  BY DEF ExportInv, ExportTyped, IsHome, InTool, sourceVars
<1> QED
  BY <1>1 DEF ExportInv, StampsOf

LEMMA ExportBegins == ExportInv /\ (AgentStarts \/ ExportStarts \/ ExportFails) => ExportInv'
<1>1. ASSUME ExportInv, AgentStarts PROVE ExportInv'
  <2>1. step # "failed" /\ UNCHANGED <<tool, tree, writes, step, dir, todo, listed, stamps, found, noted, sums, archive, moment, strayed>>
    BY <1>1 DEF AgentStarts, Exporting, passVars
  <2>2. ExportTyped'
    BY <1>1, <2>1 DEF ExportInv, ExportTyped, IsHome, InTool
  <2>3. (TodoFits /\ ArchiveFits /\ KindsFit)'
    BY <1>1, <2>1, SelectionStays DEF ExportInv, TodoFits, ArchiveFits, KindsFit, Due
  <2>4. \A n \in Names \ strayed : FileFits(n)'
    <3>1. Selected' = Selected /\ Now' = Now /\ Taken' = Taken
      BY <2>1, SelectionStays DEF Now, Taken
    <3> QED
      BY <1>1, <2>1, <3>1 DEF ExportInv, FileFits, StaysPut, ReadsTrue, NotOverlooked, StampedTwice, StampsOf, Steady, Passed
  <2> QED
    BY <2>1, <2>2, <2>3, <2>4 DEF ExportInv
<1>2. ASSUME ExportInv, ExportStarts PROVE ExportInv'
  <2>1. /\ step = "idle" /\ step' = "before"
        /\ UNCHANGED <<tool, tree, writes, dir, todo, listed, stamps, found, noted, sums, archive, moment, strayed>>
    BY <1>2 DEF ExportStarts, sourceVars, passVars
  <2>2. ExportTyped'
    BY <1>2, <2>1 DEF ExportInv, ExportTyped, IsHome, InTool
  <2>3. (TodoFits /\ ArchiveFits /\ KindsFit)'
    BY <1>2, <2>1, SelectionStays DEF ExportInv, TodoFits, ArchiveFits, KindsFit, Due, Scanned
  <2>4. \A n \in Names \ strayed : FileFits(n)'
    <3>1. Selected' = Selected /\ Now' = Now /\ ~Taken' /\ ~Taken
      BY <2>1, SelectionStays DEF Now, Taken
    <3> QED
      BY <1>2, <2>1, <3>1 DEF ExportInv, FileFits, StaysPut, ReadsTrue, NotOverlooked, StampedTwice, StampsOf, Steady, Passed, Scanned
  <2> QED
    BY <2>1, <2>2, <2>3, <2>4 DEF ExportInv
<1>3. ASSUME ExportInv, ExportFails PROVE ExportInv'
  <2>1. /\ step' = "failed" /\ todo' = {}
        /\ UNCHANGED <<tool, tree, writes, dir, listed, stamps, found, archive, moment, strayed>>
    BY <1>3 DEF ExportFails, sourceVars
  <2>2. ExportTyped'
    BY <1>3, <2>1 DEF ExportInv, ExportTyped, IsHome, InTool
  <2> QED
    BY <2>1, <2>2 DEF ExportInv
<1> QED
  BY <1>1, <1>2, <1>3

LEMMA ListKeeps == ExportInv /\ List => ExportInv'
<1> SUFFICES ASSUME ExportInv, List PROVE ExportInv'
  OBVIOUS
<1>1. /\ Passing /\ ~listed /\ listed' = TRUE
      /\ todo' = {n \in Names : tree[n].at = dir /\ Looks(n)}
      /\ moment' = IF step = "after" /\ dir = "sessions" THEN tree ELSE moment
      /\ UNCHANGED <<tool, tree, writes, step, dir, stamps, found, noted, sums, archive, strayed>>
  BY DEF List, sourceVars
<1>2. step # "failed" /\ step \in {"before", "scan", "memory", "extras", "after"}
  BY <1>1 DEF Passing
<1>3. ExportTyped /\ TodoFits /\ ArchiveFits /\ KindsFit /\ \A n \in Names \ strayed : FileFits(n)
  BY <1>2 DEF ExportInv
<1>4. ExportTyped'
  BY <1>1, <1>3 DEF ExportTyped, IsHome, InTool
<1>5. Selected' = Selected /\ Unknown' = Unknown
  BY <1>1, SelectionStays
<1>6. step = "extras" => \A n \in Names : ParentOf[n] \in DOMAIN archive /\ KindOf[n] \in {"child", "result"} => ParentOf[n] \in Selected
  BY <1>3, ExportAssumption DEF ArchiveFits, Due, KindsFit, Scanned
<1>7. (TodoFits /\ ArchiveFits /\ KindsFit)'
  BY <1>1, <1>2, <1>3, <1>5, <1>6 DEF TodoFits, ArchiveFits, KindsFit, Due, Looks, GoesWith, Scanned
<1>8. \A n \in Names : tree[n].at = dir =>
        /\ step \in {"before", "after"} => n \in todo'
        /\ step = "scan" /\ n \in Sessions => n \in todo'
        /\ step = "memory" /\ KindOf[n] = "note" => n \in todo'
        /\ step = "extras" /\ KindOf[n] = "result" /\ n \in OwnFolder /\ ParentOf[n] \in DOMAIN archive => n \in todo'
  BY <1>1, <1>2 DEF Looks, GoesWith
<1>9. \A n \in Names : KindOf[n] = "result" /\ ParentOf[n] \in Selected /\ step = "extras" => ParentOf[n] \in DOMAIN archive
  BY <1>3 DEF ArchiveFits, Due, Scanned
<1>10. ASSUME NEW n \in Names \ strayed PROVE FileFits(n)'
  <2>1. Now' = Now
    BY <1>1, <1>2, <1>3 DEF Now, Taken, ExportTyped, Places
  <2>2. FileFits(n) /\ StampsOf(n)' = StampsOf(n) /\ (Steady(n)' <=> Steady(n))
    BY <1>1, <1>3, <2>1 DEF StampsOf, Steady
  <2>3. StaysPut(n)' /\ ReadsTrue(n)'
    BY <1>1, <2>1, <2>2 DEF FileFits, StaysPut, ReadsTrue
  <2>4. todo = {}
    BY <1>1, <1>2, <1>3 DEF TodoFits
  <2>5. StampsOf(n) # {} => Now[n].at # "none" /\ InTool(n)
    BY <2>2, <1>3 DEF FileFits, StaysPut, Now, ExportTyped, IsHome
  <2>6. step # "after" => Now = tree
    BY <1>2 DEF Now, Taken
  <2>7. Now[n].at \in Places \cup {"none"} /\ (Now[n].at = "archived" => tool = "codex") /\ dir \in Places
    BY <1>3 DEF Now, ExportTyped, IsHome
  <2>8. NotOverlooked(n)'
    <3> SUFFICES ASSUME StampsOf(n) # {} PROVE NotOverlooked(n)'
      BY <2>2 DEF NotOverlooked
    <3>1. Now[n].at # "none" /\ InTool(n)
      BY <2>5
    <3>2. n \in Sessions =>
            /\ step = "scan" /\ Passed(n)' => n \in todo' \cup DOMAIN found
            /\ step \in Scanned => n \in DOMAIN found
      BY <1>1, <1>8, <2>1, <2>2, <2>4, <2>6, <3>1 DEF FileFits, NotOverlooked, Passed
    <3>3. KindOf[n] = "note" =>
            /\ step = "memory" => n \in todo'
            /\ tool = "claude" /\ step \in Scanned \ {"copy", "memory"} => n \in DOMAIN noted
      BY <1>1, <1>2, <1>3, <1>8, <2>2, <2>6, <2>7, <3>1 DEF FileFits, NotOverlooked, KindsFit, Places, ExportTyped
    <3>4. KindOf[n] = "result" /\ n \in OwnFolder /\ ParentOf[n] \in Selected =>
            /\ step = "extras" => n \in todo'
            /\ tool = "claude" /\ step \in {"pack", "after", "published"} => n \in DOMAIN sums
      BY <1>1, <1>2, <1>3, <1>8, <1>9, <2>2, <2>6, <2>7, <3>1 DEF FileFits, NotOverlooked, KindsFit, Places, ExportTyped
    <3> QED
      BY <1>1, <1>5, <3>2, <3>3, <3>4 DEF NotOverlooked
  <2>9. StampedTwice(n)'
    <3>1. CASE Taken
      BY <1>1, <1>2, <1>8, <2>1, <2>2, <2>4, <2>7, <3>1 DEF FileFits, StampedTwice, Taken, Now, Passed
    <3>2. CASE ~Taken
      <4>1. CASE step = "after" /\ dir = "sessions"
        <5>1. moment' = tree /\ tree' = tree /\ Now' = tree /\ tree[n].mark \in Nat
          BY <1>1, <1>3, <2>1, <3>2, <4>1 DEF Now, ExportTyped, IsHome
        <5> QED
          BY <1>1, <1>8, <4>1, <5>1 DEF StampedTwice, Passed
      <4>2. CASE ~(step = "after" /\ dir = "sessions")
        BY <1>1, <1>2, <2>7, <3>2, <4>2 DEF StampedTwice, Taken, Places
      <4> QED
        BY <4>1, <4>2
    <3> QED
      BY <3>1, <3>2
  <2> QED
    BY <2>3, <2>8, <2>9 DEF FileFits
<1> QED
  BY <1>1, <1>4, <1>7, <1>10 DEF ExportInv

LEMMA WithAdds ==
  ASSUME NEW f, NEW x, NEW v
  PROVE  /\ DOMAIN With(f, x, v) = DOMAIN f \cup {x} /\ With(f, x, v)[x] = v
         /\ \A y \in DOMAIN f : y # x => With(f, x, v)[y] = f[y]
BY DEF With

\* What every visit has in common.
LEMMA VisitFacts ==
  ASSUME ExportInv, NEW k \in Names, Visits(k)
  PROVE  /\ step \in {"before", "scan", "memory", "extras", "after"}
         /\ listed /\ k \in todo /\ tree[k].at = dir /\ todo' = todo \ {k}
         /\ UNCHANGED <<tool, tree, writes, running, step, dir, listed, archive, moment, strayed>>
         /\ Now' = Now /\ Taken' = Taken /\ \A n \in Names : Passed(n)' = Passed(n)
         /\ ExportTyped /\ TodoFits /\ ArchiveFits /\ KindsFit
         /\ \A n \in Names \ strayed : FileFits(n)
         /\ IsHome(tree)' /\ IsHome(moment)'
         /\ \A n \in Names : IsHome(tree) /\ tree[n].mark \in Nat
<1>1. /\ step \in {"before", "scan", "memory", "extras", "after"}
      /\ listed /\ k \in todo /\ tree[k].at = dir /\ todo' = todo \ {k}
      /\ UNCHANGED <<tool, tree, writes, running, step, dir, listed, archive, moment, strayed>>
  BY DEF Visits, Passing, sourceVars
<1>2. Now' = Now /\ Taken' = Taken
  BY <1>1 DEF Now, Taken
<1>3. \A n \in Names : Passed(n)' = Passed(n)
  BY <1>1, <1>2 DEF Passed
<1>4. /\ ExportTyped /\ TodoFits /\ ArchiveFits /\ KindsFit
      /\ \A n \in Names \ strayed : FileFits(n)
  BY <1>1 DEF ExportInv
<1>5. IsHome(tree)' /\ IsHome(moment)' /\ IsHome(tree)
  BY <1>1, <1>4 DEF ExportTyped, IsHome, InTool
<1>6. \A n \in Names : tree[n].mark \in Nat
  BY <1>5 DEF IsHome
<1> QED
  BY <1>1, <1>2, <1>3, <1>4, <1>5, <1>6

LEMMA StampBeforeKeeps == \A k \in Names : ExportInv /\ StampBefore(k) => ExportInv'
<1> SUFFICES ASSUME ExportInv, NEW k \in Names, StampBefore(k) PROVE ExportInv'
  OBVIOUS
<1>1. /\ step = "before" /\ Visits(k)
      /\ stamps' = [stamps EXCEPT !.before = @ \cup {Stamp(k)}]
      /\ UNCHANGED <<found, noted, sums>>
  BY DEF StampBefore
<1>2. /\ ExportTyped /\ TodoFits /\ ArchiveFits /\ KindsFit
      /\ \A n \in Names \ strayed : FileFits(n)
  BY <1>1, VisitFacts
<1>3. /\ stamps'.before = stamps.before \cup {Stamp(k)} /\ stamps'.after = stamps.after
      /\ stamps' = [before |-> stamps'.before, after |-> stamps'.after]
  BY <1>1, <1>2 DEF ExportTyped
<1>4. Stamp(k).name = k /\ Stamp(k).mark = tree[k].mark
  BY DEF Stamp
<1>5. ExportTyped'
  BY <1>1, <1>2, <1>3, <1>4, VisitFacts DEF ExportTyped, IsHome
<1>6. (TodoFits /\ ArchiveFits /\ KindsFit)'
  BY <1>1, <1>2, VisitFacts, SelectionStays DEF TodoFits, ArchiveFits, KindsFit, Scanned
<1>7. ASSUME NEW n \in Names \ strayed PROVE FileFits(n)'
  <2>1. FileFits(n) /\ Now = tree /\ ~Taken /\ step' = "before" /\ DOMAIN found = {} /\ DOMAIN archive = {}
        /\ DOMAIN noted = {} /\ DOMAIN sums = {}
    BY <1>1, <1>2, VisitFacts DEF Now, Taken, ArchiveFits
  <2>2. StaysPut(n)'
    BY <1>1, <1>2, <1>3, <1>4, <2>1, VisitFacts DEF FileFits, StaysPut, StampsOf, ExportTyped, Places
  <2>3. ReadsTrue(n)' /\ NotOverlooked(n)' /\ StampedTwice(n)'
    BY <1>1, <2>1, VisitFacts DEF ReadsTrue, NotOverlooked, StampedTwice, Scanned
  <2> QED
    BY <2>2, <2>3 DEF FileFits
<1> QED
  BY <1>1, <1>5, <1>6, <1>7, VisitFacts DEF ExportInv

LEMMA StampAfterKeeps == \A k \in Names : ExportInv /\ StampAfter(k) => ExportInv'
<1> SUFFICES ASSUME ExportInv, NEW k \in Names, StampAfter(k) PROVE ExportInv'
  OBVIOUS
<1>1. /\ step = "after" /\ Visits(k)
      /\ stamps' = [stamps EXCEPT !.after = @ \cup {Stamp(k)}]
      /\ UNCHANGED <<found, noted, sums>>
  BY DEF StampAfter
<1>2. /\ ExportTyped /\ TodoFits /\ ArchiveFits /\ KindsFit
      /\ \A n \in Names \ strayed : FileFits(n)
  BY <1>1, VisitFacts
<1>3. /\ stamps'.after = stamps.after \cup {Stamp(k)} /\ stamps'.before = stamps.before
      /\ stamps' = [before |-> stamps'.before, after |-> stamps'.after]
  BY <1>1, <1>2 DEF ExportTyped
<1>4. Stamp(k).name = k /\ Stamp(k).mark = tree[k].mark
  BY DEF Stamp
<1>5. ExportTyped'
  BY <1>1, <1>2, <1>3, <1>4, VisitFacts DEF ExportTyped, IsHome
<1>6. Selected' = Selected /\ Unknown' = Unknown
  BY <1>1, SelectionStays
<1>7. (TodoFits /\ ArchiveFits /\ KindsFit)'
  BY <1>1, <1>2, <1>6, VisitFacts DEF TodoFits, ArchiveFits, KindsFit, Due
<1>8. ASSUME NEW n \in Names \ strayed PROVE FileFits(n)'
  <2>1. FileFits(n) /\ StampsOf(n)' = StampsOf(n) /\ (Steady(n)' <=> Steady(n)) /\ Taken
    BY <1>1, <1>2, <1>3, VisitFacts DEF StampsOf, Steady, Taken
  <2>2. StaysPut(n)' /\ ReadsTrue(n)'
    BY <1>1, <2>1, VisitFacts DEF FileFits, StaysPut, ReadsTrue
  <2>3. NotOverlooked(n)'
    BY <1>1, <1>6, <2>1, VisitFacts DEF FileFits, NotOverlooked
  <2>4. StampedTwice(n)'
    BY <1>1, <1>3, <1>4, <2>1, VisitFacts DEF FileFits, StampedTwice
  <2> QED
    BY <2>2, <2>3, <2>4 DEF FileFits
<1> QED
  BY <1>1, <1>5, <1>7, <1>8, VisitFacts DEF ExportInv

LEMMA ScanKeeps == \A k \in Names : ExportInv /\ Scan(k) => ExportInv'
<1> SUFFICES ASSUME ExportInv, NEW k \in Names, Scan(k) PROVE ExportInv'
  OBVIOUS
<1>1. step = "scan" /\ Visits(k) /\ UNCHANGED <<stamps, noted, sums>>
  BY DEF Scan
<1>2. PICK cwd : /\ found' = With(found, k, [at |-> dir, cwd |-> cwd])
                 /\ cwd = Recorded(tool, tree[k].data) \/ (KindOf[k] = "packed" /\ cwd = "none")
  BY DEF Scan
<1>3. /\ ExportTyped /\ TodoFits /\ ArchiveFits /\ KindsFit
      /\ \A n \in Names \ strayed : FileFits(n)
  BY <1>1, VisitFacts
<1>4. /\ DOMAIN found' = DOMAIN found \cup {k}
      /\ found'[k].at = dir /\ found'[k].cwd = cwd
      /\ \A n \in DOMAIN found : n # k => found'[n] = found[n]
  <2> DEFINE seen == [at |-> dir, cwd |-> cwd]
  <2>1. seen.at = dir /\ seen.cwd = cwd /\ found' = With(found, k, seen)
    BY <1>2
  <2> HIDE DEF seen
  <2>2. DOMAIN found' = DOMAIN found \cup {k} /\ found'[k] = seen
    BY <2>1 DEF With
  <2>3. \A n \in DOMAIN found : n # k => found'[n] = found[n]
    BY <2>1 DEF With
  <2> QED
    BY <2>1, <2>2, <2>3
<1>5. ExportTyped'
  <2>1. Recorded(tool, tree[k].data) \in Cwds \cup {"none"}
    BY <1>3, RecordedIsDirectory DEF ExportTyped, IsHome
  <2>2. \A n \in DOMAIN found' : found'[n].at \in Places /\ found'[n].cwd \in Cwds \cup {"none"}
    BY <1>2, <1>3, <1>4, <2>1 DEF ExportTyped
  <2> QED
    BY <1>1, <1>3, <2>2, VisitFacts DEF ExportTyped, IsHome
<1>6. (TodoFits /\ ArchiveFits /\ KindsFit)'
  BY <1>1, <1>3, <1>4, VisitFacts DEF TodoFits, ArchiveFits, KindsFit, Scanned
<1>7. ASSUME NEW n \in Names \ strayed PROVE FileFits(n)'
  <2>1. /\ FileFits(n) /\ StampsOf(n)' = StampsOf(n) /\ (Steady(n)' <=> Steady(n))
        /\ ~Taken /\ Now = tree /\ DOMAIN archive = {} /\ DOMAIN noted = {} /\ DOMAIN sums = {}
        /\ dir # "none"
    BY <1>1, <1>3, VisitFacts DEF StampsOf, Steady, Taken, Now, ArchiveFits, ExportTyped, Places
  <2>2. StaysPut(n)'
    BY <1>1, <1>4, <2>1, VisitFacts DEF FileFits, StaysPut
  <2>3. ReadsTrue(n)'
    BY <1>1, <1>2, <1>4, <2>1, VisitFacts DEF FileFits, ReadsTrue
  <2>4. NotOverlooked(n)'
    BY <1>1, <1>4, <2>1, VisitFacts DEF FileFits, NotOverlooked, Scanned
  <2>5. StampedTwice(n)'
    BY <1>1, <2>1, VisitFacts DEF StampedTwice
  <2> QED
    BY <2>2, <2>3, <2>4, <2>5 DEF FileFits
<1> QED
  BY <1>1, <1>5, <1>6, <1>7, VisitFacts DEF ExportInv

LEMMA NoteKeeps == \A k \in Names : ExportInv /\ Note(k) => ExportInv'
<1> SUFFICES ASSUME ExportInv, NEW k \in Names, Note(k) PROVE ExportInv'
  OBVIOUS
<1>1. /\ step = "memory" /\ Visits(k) /\ UNCHANGED <<stamps, found, sums>>
      /\ noted' = With(noted, k, Len(tree[k].data))
  BY DEF Note
<1>2. /\ ExportTyped /\ TodoFits /\ ArchiveFits /\ KindsFit
      /\ \A n \in Names \ strayed : FileFits(n)
  BY <1>1, VisitFacts
<1>3. /\ DOMAIN noted' = DOMAIN noted \cup {k} /\ noted'[k] = Len(tree[k].data)
      /\ \A n \in DOMAIN noted : n # k => noted'[n] = noted[n]
  BY <1>1 DEF With
<1>4. Selected' = Selected /\ Unknown' = Unknown
  BY <1>1, SelectionStays
<1>5. ExportTyped'
  BY <1>1, <1>2, VisitFacts DEF ExportTyped, IsHome
<1>6. (TodoFits /\ ArchiveFits /\ KindsFit)'
  BY <1>1, <1>2, <1>3, <1>4, VisitFacts DEF TodoFits, ArchiveFits, KindsFit, Due, Scanned
<1>7. ASSUME NEW n \in Names \ strayed PROVE FileFits(n)'
  <2>1. /\ FileFits(n) /\ StampsOf(n)' = StampsOf(n) /\ (Steady(n)' <=> Steady(n))
        /\ ~Taken /\ Now = tree /\ dir # "none"
    BY <1>1, <1>2, VisitFacts DEF StampsOf, Steady, Taken, Now, ExportTyped, Places
  <2>2. StaysPut(n)' /\ ReadsTrue(n)' /\ StampedTwice(n)'
    BY <1>1, <1>3, <2>1, VisitFacts DEF FileFits, StaysPut, ReadsTrue, StampedTwice
  <2>3. NotOverlooked(n)'
    BY <1>1, <1>3, <1>4, <2>1, VisitFacts DEF FileFits, NotOverlooked
  <2> QED
    BY <2>2, <2>3 DEF FileFits
<1> QED
  BY <1>1, <1>5, <1>6, <1>7, VisitFacts DEF ExportInv

LEMMA HashKeeps == \A k \in Names : ExportInv /\ Hash(k) => ExportInv'
<1> SUFFICES ASSUME ExportInv, NEW k \in Names, Hash(k) PROVE ExportInv'
  OBVIOUS
<1>1. /\ step = "extras" /\ Visits(k) /\ UNCHANGED <<stamps, found, noted>>
      /\ sums' = IF KindOf[k] = "child" THEN sums ELSE With(sums, k, tree[k].data)
  BY DEF Hash
<1>2. /\ ExportTyped /\ TodoFits /\ ArchiveFits /\ KindsFit
      /\ \A n \in Names \ strayed : FileFits(n)
  BY <1>1, VisitFacts
<1>3. DOMAIN sums' = DOMAIN sums \cup (IF KindOf[k] = "child" THEN {} ELSE {k})
  BY <1>1, WithAdds
<1>4. Selected' = Selected /\ Unknown' = Unknown
  BY <1>1, SelectionStays
<1>5. ExportTyped'
  BY <1>1, <1>2, VisitFacts DEF ExportTyped, IsHome
<1>6. KindOf[k] \in {"child", "result"} /\ k \in OwnFolder /\ ParentOf[k] \in Selected
  BY <1>1, <1>2, VisitFacts DEF TodoFits
<1>7. (TodoFits /\ ArchiveFits /\ KindsFit)'
  BY <1>1, <1>2, <1>3, <1>4, <1>6, VisitFacts DEF TodoFits, ArchiveFits, KindsFit, Due, Scanned
<1>8. ASSUME NEW n \in Names \ strayed PROVE FileFits(n)'
  <2>1. /\ FileFits(n) /\ StampsOf(n)' = StampsOf(n) /\ (Steady(n)' <=> Steady(n))
        /\ ~Taken /\ Now = tree /\ dir # "none"
    BY <1>1, <1>2, VisitFacts DEF StampsOf, Steady, Taken, Now, ExportTyped, Places
  <2>2. StaysPut(n)' /\ ReadsTrue(n)' /\ StampedTwice(n)'
    BY <1>1, <1>3, <2>1, VisitFacts DEF FileFits, StaysPut, ReadsTrue, StampedTwice
  <2>3. NotOverlooked(n)'
    BY <1>1, <1>3, <1>4, <2>1, VisitFacts DEF FileFits, NotOverlooked, Scanned
  <2> QED
    BY <2>2, <2>3 DEF FileFits
<1> QED
  BY <1>1, <1>5, <1>7, <1>8, VisitFacts DEF ExportInv

LEMMA CopyKeeps ==
  ASSUME ExportInv, NEW k \in Names, NEW from, Copies(k, from),
         step \in {"copy", "remember", "pack"},
         IF step = "copy" THEN k \in DOMAIN found /\ from = found[k].at ELSE from = "sessions"
  PROVE  ExportInv'
<1>1. /\ k \in todo /\ tree[k].at = from /\ todo' = todo \ {k}
      /\ archive' = With(archive, k, [at |-> from, data |-> tree[k].data])
      /\ UNCHANGED <<tool, tree, writes, running, step, dir, listed, stamps, found, noted, sums, moment, strayed>>
  BY DEF Copies, sourceVars
<1>2. /\ ExportTyped /\ TodoFits /\ ArchiveFits /\ KindsFit
      /\ \A n \in Names \ strayed : FileFits(n)
  BY DEF ExportInv
<1>3. /\ DOMAIN archive' = DOMAIN archive \cup {k}
      /\ archive'[k].at = from /\ archive'[k].data = tree[k].data
      /\ archive'[k] = [at |-> archive'[k].at, data |-> archive'[k].data]
      /\ \A n \in DOMAIN archive : n # k => archive'[n] = archive[n]
  <2> DEFINE copy == [at |-> from, data |-> tree[k].data]
  <2>1. /\ copy.at = from /\ copy.data = tree[k].data /\ copy = [at |-> copy.at, data |-> copy.data]
        /\ archive' = With(archive, k, copy)
    BY <1>1
  <2> HIDE DEF copy
  <2>2. DOMAIN archive' = DOMAIN archive \cup {k} /\ archive'[k] = copy
    BY <2>1 DEF With
  <2>3. \A n \in DOMAIN archive : n # k => archive'[n] = archive[n]
    BY <2>1 DEF With
  <2> QED
    BY <2>1, <2>2, <2>3
<1>4. Selected' = Selected /\ Unknown' = Unknown
  BY <1>1, SelectionStays
<1>5. ExportTyped'
  BY <1>1, <1>2, <1>3 DEF ExportTyped, IsHome, InTool
<1>6. (TodoFits /\ ArchiveFits /\ KindsFit)'
  BY <1>1, <1>2, <1>3, <1>4 DEF TodoFits, ArchiveFits, KindsFit, Due, Scanned
<1>7. ASSUME NEW n \in Names \ strayed PROVE FileFits(n)'
  <2>1. /\ FileFits(n) /\ StampsOf(n)' = StampsOf(n) /\ (Steady(n)' <=> Steady(n))
        /\ ~Taken /\ ~Taken' /\ Now = tree /\ Now' = tree
    BY <1>1, <1>2 DEF StampsOf, Steady, Taken, Now
  <2>2. StaysPut(n)'
    BY <1>1, <1>3, <2>1 DEF FileFits, StaysPut
  <2>3. ReadsTrue(n)'
    BY <1>1, <1>3, <2>1 DEF FileFits, ReadsTrue
  <2>4. NotOverlooked(n)' /\ StampedTwice(n)'
    BY <1>1, <1>4, <2>1 DEF FileFits, NotOverlooked, StampedTwice
  <2> QED
    BY <2>2, <2>3, <2>4 DEF FileFits
<1> QED
  BY <1>1, <1>5, <1>6, <1>7 DEF ExportInv

LEMMA CopiesKeep ==
  \A k \in Names : ExportInv /\ (CopySession(k) \/ CopyNote(k) \/ PackResult(k)) => ExportInv'
<1> SUFFICES ASSUME ExportInv, NEW k \in Names, CopySession(k) \/ CopyNote(k) \/ PackResult(k)
             PROVE  ExportInv'
  OBVIOUS
<1>1. CASE CopySession(k)
  <2>1. step = "copy" /\ k \in todo /\ Copies(k, found[k].at) /\ tree[k].at = found[k].at
    BY <1>1 DEF CopySession, Copies
  <2>2. k \in DOMAIN found
    BY <2>1 DEF ExportInv, ArchiveFits, Due, Selected, Scanned
  <2> DEFINE from == found[k].at
  <2> HIDE DEF from
  <2>3. Copies(k, from) /\ from = found[k].at
    BY <2>1 DEF from
  <2> QED
    BY <2>1, <2>2, <2>3, CopyKeeps
<1>2. CASE CopyNote(k) \/ PackResult(k)
  BY <1>2, CopyKeeps DEF CopyNote, PackResult, Places
<1> QED
  BY <1>1, <1>2

-----------------------------------------------------------------------------
\* What every turn to another step has in common.
TurnsWell(next, to) ==
  /\ step' = next /\ dir' = "sessions" /\ listed' = FALSE /\ todo' = to
  /\ UNCHANGED <<tool, tree, writes, running, stamps, found, noted, sums, archive, moment, strayed>>
  /\ Selected' = Selected /\ Unknown' = Unknown /\ Now' = Now
  /\ TodoFits /\ ArchiveFits /\ KindsFit /\ ExportTyped'
  /\ \A n \in Names \ strayed :
       /\ FileFits(n) /\ StaysPut(n)' /\ ReadsTrue(n)' /\ StampsOf(n)' = StampsOf(n)
       /\ next # "published" => StampedTwice(n)'
       /\ StampsOf(n) # {} => Now[n].at # "none"
       /\ Now[n].at # "none" => Now[n].at \in Places
       /\ Now[n].at # "none" /\ (dir = "archived" \/ tool = "claude") => dir = Now[n].at \/ dir = "archived"

LEMMA TurnFacts ==
  ASSUME ExportInv, NEW next, NEW to, Turns(next, to), step \notin {"failed", "published"},
         next \in Scanned \cup {"scan"}, next = "published" => step = "after" /\ listed,
         step = "after" => next = "published", to \subseteq Names
  PROVE  TurnsWell(next, to)
<1>1. /\ step' = next /\ dir' = "sessions" /\ listed' = FALSE /\ todo' = to
      /\ UNCHANGED <<tool, tree, writes, running, stamps, found, noted, sums, archive, moment, strayed>>
  BY DEF Turns, sourceVars
<1>2. Selected' = Selected /\ Unknown' = Unknown
  BY <1>1, SelectionStays
<1>3. Now' = Now /\ (Taken' <=> next = "published")
  BY <1>1 DEF Now, Taken, Scanned
<1>4. /\ ExportTyped /\ TodoFits /\ ArchiveFits /\ KindsFit
      /\ \A n \in Names \ strayed : FileFits(n)
  BY DEF ExportInv
<1>5. ExportTyped'
  BY <1>1, <1>4 DEF ExportTyped, IsHome, InTool, Places
<1>6. \A n \in Names \ strayed : StampsOf(n)' = StampsOf(n) /\ (Steady(n)' <=> Steady(n))
  BY <1>1, <1>3 DEF StampsOf, Steady
<1>7. \A n \in Names \ strayed : StaysPut(n)' /\ ReadsTrue(n)'
  BY <1>1, <1>3, <1>4, <1>6 DEF FileFits, StaysPut, ReadsTrue
<1>8. next # "published" => \A n \in Names \ strayed : StampedTwice(n)'
  BY <1>3 DEF StampedTwice
<1>9. \A n \in Names \ strayed :
        /\ Now[n].at \in Places \cup {"none"} /\ (Now[n].at = "archived" => tool = "codex")
        /\ Now[n].at # "none" => InTool(n)
  BY <1>4 DEF Now, ExportTyped, IsHome
<1>10. \A n \in Names \ strayed : StampsOf(n) # {} => Now[n].at # "none"
  BY <1>4 DEF FileFits, StaysPut
<1>11. dir \in Places
  BY <1>4 DEF ExportTyped
<1>12. dir = "archived" \/ tool = "claude" =>
         \A n \in Names \ strayed : Now[n].at # "none" => dir = Now[n].at \/ dir = "archived"
  BY <1>9, <1>11 DEF Places
<1> QED
  BY <1>1, <1>2, <1>3, <1>4, <1>5, <1>6, <1>7, <1>8, <1>9, <1>10, <1>12 DEF TurnsWell

LEMMA DirectoryKeeps == ExportInv /\ NextDirectory => ExportInv'
<1> SUFFICES ASSUME ExportInv, NextDirectory PROVE ExportInv'
  OBVIOUS
<1>1. /\ step \in {"before", "scan", "memory", "extras", "after"} /\ listed /\ todo = {}
      /\ dir = "sessions" /\ tool = "codex" /\ dir' = "archived" /\ listed' = FALSE
      /\ UNCHANGED <<tool, tree, writes, running, step, todo, stamps, found, noted, sums, archive, moment, strayed>>
  BY DEF NextDirectory, PassEnds, Passing, sourceVars
<1>2. /\ ExportTyped /\ TodoFits /\ ArchiveFits /\ KindsFit
      /\ \A n \in Names \ strayed : FileFits(n)
  BY <1>1 DEF ExportInv
<1>3. Selected' = Selected /\ Unknown' = Unknown
  BY <1>1, SelectionStays
<1>4. ExportTyped'
  BY <1>1, <1>2 DEF ExportTyped, IsHome, InTool, Places
<1>5. (TodoFits /\ ArchiveFits /\ KindsFit)'
  BY <1>1, <1>2, <1>3 DEF TodoFits, ArchiveFits, KindsFit, Due
<1>6. ASSUME NEW n \in Names \ strayed PROVE FileFits(n)'
  <2>1. /\ FileFits(n) /\ StampsOf(n)' = StampsOf(n) /\ Now' = Now /\ (Taken' <=> Taken)
        /\ (Steady(n)' <=> Steady(n)) /\ (Passed(n)' => Passed(n))
        /\ step \in {"before", "scan", "after"}
    BY <1>1, <1>2 DEF StampsOf, Steady, Now, Taken, Passed, KindsFit
  <2>2. StaysPut(n)' /\ ReadsTrue(n)'
    BY <1>1, <2>1 DEF FileFits, StaysPut, ReadsTrue
  <2>3. NotOverlooked(n)'
    BY <1>1, <1>3, <2>1 DEF FileFits, NotOverlooked
  <2>4. StampedTwice(n)'
    BY <1>1, <2>1 DEF FileFits, StampedTwice
  <2> QED
    BY <2>2, <2>3, <2>4 DEF FileFits
<1> QED
  BY <1>1, <1>4, <1>5, <1>6 DEF ExportInv

\* A turn keeps the invariant when the next step finds everything in place.
LEMMA TurnKeeps ==
  ASSUME NEW next, NEW to, TurnsWell(next, to), next # "published",
         (TodoFits /\ ArchiveFits /\ KindsFit)',
         \A n \in Names \ strayed : StampsOf(n) # {} => NotOverlooked(n)'
  PROVE  ExportInv'
<1>1. \A n \in Names \ strayed : FileFits(n)'
  BY DEF TurnsWell, FileFits, NotOverlooked
<1> QED
  BY <1>1 DEF TurnsWell, ExportInv

LEMMA BeforeEndsWell == ExportInv /\ BeforeEnds => ExportInv'
<1> SUFFICES ASSUME ExportInv, BeforeEnds PROVE ExportInv'
  OBVIOUS
<1>1. step = "before" /\ Turns("scan", {})
  BY DEF BeforeEnds
<1>2. TurnsWell("scan", {})
  <2>1. "scan" \in Scanned \cup {"scan"} /\ {} \subseteq Names
    OBVIOUS
  <2> QED
    BY <1>1, <2>1, TurnFacts
<1>3. (TodoFits /\ ArchiveFits /\ KindsFit)'
  BY <1>1, <1>2 DEF TurnsWell, TodoFits, ArchiveFits, KindsFit, Due, Scanned
<1>4. \A n \in Names \ strayed : StampsOf(n) # {} => NotOverlooked(n)'
  BY <1>1, <1>2 DEF TurnsWell, FileFits, NotOverlooked, Passed, Scanned
<1> QED
  BY <1>2, <1>3, <1>4, TurnKeeps

LEMMA ScanEndsWell == ExportInv /\ ScanEnds => ExportInv'
<1> SUFFICES ASSUME ExportInv, ScanEnds PROVE ExportInv'
  OBVIOUS
<1>1. step = "scan" /\ listed /\ todo = {} /\ LastDirectory /\ Turns("copy", Selected)
  BY DEF ScanEnds, PassEnds
<1>2. TurnsWell("copy", Selected)
  <2>1. "copy" \in Scanned \cup {"scan"} /\ Selected \subseteq Names
    BY <1>1 DEF ExportInv, KindsFit, Selected, Sessions, Scanned
  <2> QED
    BY <1>1, <2>1, TurnFacts
<1>3. (TodoFits /\ ArchiveFits /\ KindsFit)'
  BY <1>1, <1>2 DEF TurnsWell, TodoFits, ArchiveFits, KindsFit, Due, Scanned
<1>4. ASSUME NEW n \in Names \ strayed, StampsOf(n) # {} PROVE NotOverlooked(n)'
  <2>1. /\ FileFits(n) /\ StampsOf(n)' = StampsOf(n) /\ step' = "copy" /\ found' = found
        /\ Now[n].at \in Places /\ (dir = Now[n].at \/ dir = "archived")
    BY <1>1, <1>2, <1>4 DEF TurnsWell, LastDirectory
  <2>2. Passed(n)
    BY <1>1, <2>1 DEF Passed, Places
  <2>3. n \in Sessions => n \in DOMAIN found
    BY <1>1, <1>4, <2>1, <2>2 DEF FileFits, NotOverlooked
  <2> QED
    BY <2>1, <2>3 DEF NotOverlooked, Scanned
<1> QED
  BY <1>2, <1>3, <1>4, TurnKeeps

LEMMA CopyEndsWell == ExportInv /\ CopyEnds => ExportInv'
<1> SUFFICES ASSUME ExportInv, CopyEnds PROVE ExportInv'
  OBVIOUS
<1>1. step = "copy" /\ todo = {}
  BY DEF CopyEnds
<1>2. CASE tool = "claude"
  <2>1. Turns("memory", {})
    BY <1>2 DEF CopyEnds
  <2>2. TurnsWell("memory", {})
    <3>1. "memory" \in Scanned \cup {"scan"} /\ {} \subseteq Names
      BY DEF Scanned
    <3> QED
      BY <1>1, <2>1, <3>1, TurnFacts
  <2>3. (TodoFits /\ ArchiveFits /\ KindsFit)'
    BY <1>1, <1>2, <2>1, <2>2 DEF TurnsWell, TodoFits, ArchiveFits, KindsFit, Due, Scanned
  <2>4. \A n \in Names \ strayed : StampsOf(n) # {} => NotOverlooked(n)'
    BY <1>1, <1>2, <2>1, <2>2 DEF TurnsWell, FileFits, NotOverlooked, Scanned
  <2> QED
    BY <2>2, <2>3, <2>4, TurnKeeps
<1>3. CASE tool # "claude"
  <2>1. tool = "codex" /\ Unknown = {} /\ Turns("after", {})
    BY <1>3 DEF CopyEnds, ExportInv, ExportTyped
  <2>2. TurnsWell("after", {})
    <3>1. "after" \in Scanned \cup {"scan"} /\ {} \subseteq Names
      BY DEF Scanned
    <3> QED
      BY <1>1, <2>1, <3>1, TurnFacts
  <2>3. (TodoFits /\ ArchiveFits /\ KindsFit)'
    BY <1>1, <1>3, <2>1, <2>2 DEF TurnsWell, TodoFits, ArchiveFits, KindsFit, Due, Scanned
  <2>4. \A n \in Names \ strayed : StampsOf(n) # {} => NotOverlooked(n)'
    BY <1>1, <1>3, <2>1, <2>2 DEF TurnsWell, FileFits, NotOverlooked, Scanned
  <2> QED
    BY <2>2, <2>3, <2>4, TurnKeeps
<1> QED
  BY <1>2, <1>3

LEMMA MemoryEndsWell == ExportInv /\ MemoryEnds => ExportInv'
<1> SUFFICES ASSUME ExportInv, MemoryEnds PROVE ExportInv'
  OBVIOUS
<1>1. step = "memory" /\ listed /\ todo = {} /\ Turns("remember", DOMAIN noted)
  BY DEF MemoryEnds, PassEnds
<1>2. TurnsWell("remember", DOMAIN noted)
  <2>1. "remember" \in Scanned \cup {"scan"} /\ DOMAIN noted \subseteq Names
    BY <1>1 DEF ExportInv, KindsFit, Scanned
  <2> QED
    BY <1>1, <2>1, TurnFacts
<1>3. (TodoFits /\ ArchiveFits /\ KindsFit)'
  BY <1>1, <1>2 DEF TurnsWell, TodoFits, ArchiveFits, KindsFit, Due, Scanned
<1>4. \A n \in Names \ strayed : StampsOf(n) # {} => NotOverlooked(n)'
  BY <1>1, <1>2 DEF TurnsWell, FileFits, NotOverlooked, Passed, Scanned
<1> QED
  BY <1>2, <1>3, <1>4, TurnKeeps

LEMMA RememberEndsWell == ExportInv /\ RememberEnds => ExportInv'
<1> SUFFICES ASSUME ExportInv, RememberEnds PROVE ExportInv'
  OBVIOUS
<1>1. step = "remember" /\ todo = {} /\ Turns("extras", {})
  BY DEF RememberEnds
<1>2. TurnsWell("extras", {})
  <2>1. "extras" \in Scanned \cup {"scan"} /\ {} \subseteq Names
    BY DEF Scanned
  <2> QED
    BY <1>1, <2>1, TurnFacts
<1>3. (TodoFits /\ ArchiveFits /\ KindsFit)'
  BY <1>1, <1>2 DEF TurnsWell, TodoFits, ArchiveFits, KindsFit, Due, Scanned
<1>4. \A n \in Names \ strayed : StampsOf(n) # {} => NotOverlooked(n)'
  BY <1>1, <1>2 DEF TurnsWell, FileFits, NotOverlooked, Passed, Scanned
<1> QED
  BY <1>2, <1>3, <1>4, TurnKeeps

LEMMA ExtrasEndWell == ExportInv /\ ExtrasEnd => ExportInv'
<1> SUFFICES ASSUME ExportInv, ExtrasEnd PROVE ExportInv'
  OBVIOUS
<1>1. step = "extras" /\ listed /\ todo = {} /\ Turns("pack", DOMAIN sums)
  BY DEF ExtrasEnd, PassEnds
<1>2. TurnsWell("pack", DOMAIN sums)
  <2>1. "pack" \in Scanned \cup {"scan"} /\ DOMAIN sums \subseteq Names
    BY <1>1 DEF ExportInv, KindsFit, Scanned
  <2> QED
    BY <1>1, <2>1, TurnFacts
<1>3. (TodoFits /\ ArchiveFits /\ KindsFit)'
  BY <1>1, <1>2 DEF TurnsWell, TodoFits, ArchiveFits, KindsFit, Due, Scanned
<1>4. \A n \in Names \ strayed : StampsOf(n) # {} => NotOverlooked(n)'
  BY <1>1, <1>2 DEF TurnsWell, FileFits, NotOverlooked, Passed, Scanned
<1> QED
  BY <1>2, <1>3, <1>4, TurnKeeps

LEMMA PackEndsWell == ExportInv /\ PackEnds => ExportInv'
<1> SUFFICES ASSUME ExportInv, PackEnds PROVE ExportInv'
  OBVIOUS
<1>1. step = "pack" /\ todo = {} /\ Turns("after", {})
  BY DEF PackEnds
<1>2. TurnsWell("after", {})
  <2>1. "after" \in Scanned \cup {"scan"} /\ {} \subseteq Names
    BY DEF Scanned
  <2> QED
    BY <1>1, <2>1, TurnFacts
<1>3. (TodoFits /\ ArchiveFits /\ KindsFit)'
  BY <1>1, <1>2 DEF TurnsWell, TodoFits, ArchiveFits, KindsFit, Due, Scanned
<1>4. \A n \in Names \ strayed : StampsOf(n) # {} => NotOverlooked(n)'
  BY <1>1, <1>2 DEF TurnsWell, FileFits, NotOverlooked, Passed, Scanned
<1> QED
  BY <1>2, <1>3, <1>4, TurnKeeps

\* Where the stamps agree, every file of the moment has been steady since the first.
LEMMA PublishKeeps == ExportInv /\ Publish => ExportInv'
<1> SUFFICES ASSUME ExportInv, Publish PROVE ExportInv'
  OBVIOUS
<1>1. /\ step = "after" /\ listed /\ todo = {} /\ Turns("published", {})
      /\ dir = "archived" \/ tool = "claude"
      /\ stamps.before = stamps.after
      /\ \A n \in DOMAIN sums : archive[n].data = sums[n]
  BY DEF Publish, PassEnds, LastDirectory
<1>2. "published" \in Scanned \cup {"scan"} /\ {} \subseteq Names
  BY DEF Scanned
<1>3. TurnsWell("published", {})
  BY <1>1, <1>2, TurnFacts
<1>4. (TodoFits /\ ArchiveFits /\ KindsFit)'
  BY <1>1, <1>3 DEF TurnsWell, TodoFits, ArchiveFits, KindsFit, Due, Scanned
<1>5. ASSUME NEW n \in Names \ strayed PROVE FileFits(n)'
  <2>1. /\ FileFits(n) /\ StaysPut(n)' /\ ReadsTrue(n)' /\ StampsOf(n)' = StampsOf(n) /\ Now' = Now
        /\ step' = "published" /\ Selected' = Selected
        /\ UNCHANGED <<tool, tree, moment, stamps, found, noted, sums, archive>>
        /\ Now[n].at # "none" => Now[n].at \in Places /\ (dir = Now[n].at \/ dir = "archived")
    BY <1>1, <1>3 DEF TurnsWell
  <2>2. Taken /\ Now = moment
    BY <1>1 DEF Taken, Now
  <2>3. NotOverlooked(n)'
    BY <1>1, <2>1 DEF FileFits, NotOverlooked, Scanned
  <2>4. ASSUME moment[n].at # "none" PROVE Steady(n)'
    <3>1. Passed(n)
      BY <1>1, <2>1, <2>2, <2>4 DEF Passed, Places
    <3>2. PICK s \in stamps.after : s.name = n /\ moment[n].mark <= s.mark
      BY <1>1, <2>1, <2>2, <2>4, <3>1 DEF FileFits, StampedTwice
    <3>3. s \in StampsOf(n) /\ s.mark <= moment[n].mark
      BY <1>1, <2>1, <2>2, <3>2 DEF FileFits, StaysPut, StampsOf
    <3>4. s.mark \in Nat /\ moment[n].mark \in Nat
      BY <1>1, <3>2 DEF ExportInv, ExportTyped, IsHome
    <3> QED
      BY <2>1, <2>2, <3>2, <3>3, <3>4 DEF Steady
  <2>5. StampedTwice(n)'
    BY <1>1, <2>1, <2>2, <2>4 DEF FileFits, StampedTwice
  <2> QED
    BY <2>1, <2>3, <2>5 DEF FileFits
<1> QED
  BY <1>3, <1>4, <1>5 DEF TurnsWell, ExportInv

LEMMA ExportStep == ExportInv /\ [ExportNext]_exportVars => ExportInv'
<1> SUFFICES ASSUME ExportInv, [ExportNext]_exportVars PROVE ExportInv'
  OBVIOUS
<1>1. CASE UNCHANGED exportVars
  <2>1. UNCHANGED <<tool, tree, writes, running, step, dir, todo, listed, stamps, found, noted, sums, archive, moment, strayed>>
    BY <1>1 DEF exportVars
  <2>2. ExportTyped'
    BY <2>1 DEF ExportInv, ExportTyped, IsHome, InTool
  <2>3. Selected' = Selected /\ Unknown' = Unknown /\ Now' = Now /\ Taken' = Taken
    BY <2>1, SelectionStays DEF Now, Taken
  <2>4. step # "failed" => (TodoFits /\ ArchiveFits /\ KindsFit)'
    BY <2>1, <2>3 DEF ExportInv, TodoFits, ArchiveFits, KindsFit, Due
  <2>5. step # "failed" => \A n \in Names \ strayed : FileFits(n)'
    BY <2>1, <2>3 DEF ExportInv, FileFits, StaysPut, ReadsTrue, NotOverlooked, StampedTwice, StampsOf, Steady, Passed
  <2> QED
    BY <2>1, <2>2, <2>4, <2>5 DEF ExportInv
<1>2. CASE ExportNext
  BY <1>2, AgentActs, ExportBegins, ListKeeps, StampBeforeKeeps, ScanKeeps, NoteKeeps, HashKeeps, StampAfterKeeps,
     CopiesKeep, DirectoryKeeps, BeforeEndsWell, ScanEndsWell, CopyEndsWell, MemoryEndsWell, RememberEndsWell,
     ExtrasEndWell, PackEndsWell, PublishKeeps DEF ExportNext
<1> QED
  BY <1>1, <1>2

\* Of a file that has not strayed a published archive knows what the moment holds.
WellRead(m) ==
  /\ moment[m].at # "none" => StampsOf(m) # {} /\ Steady(m) /\ InTool(m)
  /\ m \in Sessions => (m \in DOMAIN found <=> moment[m].at # "none")
  /\ m \in DOMAIN found => found[m].cwd = Recorded(tool, moment[m].data)
  /\ KindOf[m] = "note" => (m \in DOMAIN noted <=> moment[m].at # "none")
  /\ KindOf[m] = "result" => (m \in DOMAIN sums <=> moment[m].at # "none" /\ m \in OwnFolder /\ ParentOf[m] \in Selected)
  /\ m \in DOMAIN archive => /\ moment[m].at = archive[m].at /\ moment[m].at # "none"
                             /\ archive[m].data = moment[m].data
  /\ m \in DOMAIN noted => noted[m] = Len(moment[m].data)

LEMMA PublishedReads ==
  ASSUME ExportInv, step = "published", NEW m \in Names \ strayed
  PROVE  WellRead(m)
<1>1. /\ Taken /\ Now = moment /\ ExportTyped /\ ArchiveFits /\ KindsFit
      /\ DOMAIN archive = Selected \cup DOMAIN noted \cup DOMAIN sums
  BY DEF Taken, Now, ExportInv, ArchiveFits, Due, Scanned
<1>2. FileFits(m)
  BY DEF ExportInv
<1>3. moment[m].at # "none" => StampsOf(m) # {} /\ Steady(m) /\ InTool(m)
  BY <1>1, <1>2 DEF FileFits, StampedTwice, Steady, ExportTyped, IsHome
<1>4. m \in Sessions => (m \in DOMAIN found <=> moment[m].at # "none")
  BY <1>1, <1>2, <1>3 DEF FileFits, StaysPut, NotOverlooked, Scanned
<1>5. ASSUME m \in DOMAIN found PROVE found[m].cwd = Recorded(tool, moment[m].data)
  <2>1. moment[m].at # "none"
    BY <1>1, <1>2, <1>5 DEF FileFits, StaysPut
  <2>2. \/ found[m].cwd = Recorded(tool, moment[m].data)
        \/ KindOf[m] = "packed" /\ found[m].cwd = "none"
    BY <1>1, <1>2, <1>3, <1>5, <2>1 DEF FileFits, ReadsTrue
  <2>3. ~(KindOf[m] = "packed" /\ found[m].cwd = "none")
    BY <1>1, <1>3, <1>5, <2>1 DEF KindsFit, Unknown, ExportTyped, InTool, ToolOf
  <2> QED
    BY <2>2, <2>3
<1>6. KindOf[m] = "note" => (m \in DOMAIN noted <=> moment[m].at # "none")
  BY <1>1, <1>2, <1>3 DEF FileFits, StaysPut, NotOverlooked, Scanned, ExportTyped, InTool, ToolOf
<1>7. KindOf[m] = "result" => (m \in DOMAIN sums <=> moment[m].at # "none" /\ m \in OwnFolder /\ ParentOf[m] \in Selected)
  BY <1>1, <1>2, <1>3 DEF FileFits, StaysPut, NotOverlooked, Scanned, ExportTyped, InTool, ToolOf, KindsFit
<1>8. m \in DOMAIN archive => /\ moment[m].at = archive[m].at /\ moment[m].at # "none"
                              /\ archive[m].data = moment[m].data
  BY <1>1, <1>2, <1>3 DEF FileFits, StaysPut, ReadsTrue
<1>9. m \in DOMAIN noted => noted[m] = Len(moment[m].data)
  BY <1>1, <1>2, <1>3 DEF FileFits, StaysPut, ReadsTrue
<1> QED
  BY <1>3, <1>4, <1>5, <1>6, <1>7, <1>8, <1>9 DEF WellRead

LEMMA PublishedFits == ExportInv => PublishedIsAMoment
<1> SUFFICES ASSUME ExportInv, step = "published", NEW n \in Names, n \notin strayed, ParentOf[n] \notin strayed
             PROVE  /\ n \in DOMAIN archive <=> n \in ProjectOf(moment)
                    /\ n \in DOMAIN archive => archive[n] = [at |-> moment[n].at, data |-> moment[n].data]
  BY DEF PublishedIsAMoment
<1>1. /\ Taken /\ Now = moment /\ ExportTyped /\ ArchiveFits /\ KindsFit
      /\ DOMAIN archive = Selected \cup DOMAIN noted \cup DOMAIN sums
  BY DEF Taken, Now, ExportInv, ArchiveFits, Due, Scanned
<1>2. ASSUME NEW m \in Names \ strayed
      PROVE  /\ moment[m].at # "none" => StampsOf(m) # {} /\ Steady(m) /\ InTool(m)
             /\ m \in Sessions => (m \in DOMAIN found <=> moment[m].at # "none")
             /\ m \in DOMAIN found => found[m].cwd = Recorded(tool, moment[m].data)
             /\ KindOf[m] = "note" => (m \in DOMAIN noted <=> moment[m].at # "none")
             /\ KindOf[m] = "result" => (m \in DOMAIN sums <=> moment[m].at # "none" /\ m \in OwnFolder /\ ParentOf[m] \in Selected)
             /\ m \in DOMAIN archive => /\ moment[m].at = archive[m].at /\ moment[m].at # "none"
                                        /\ archive[m].data = moment[m].data
  BY <1>2, PublishedReads DEF WellRead
<1> DEFINE here == {m \in Sessions : moment[m].at # "none" /\ SamePath(CwdAt(moment, m), "source")}
\* And select what belongs to the project.
<1>3. ASSUME NEW m \in Sessions, m \notin strayed, KindOf[m] = "child" => ParentOf[m] \notin strayed
      PROVE  m \in Selected <=> m \in here
  <2>1. m \in Names /\ (m \in DOMAIN found <=> moment[m].at # "none")
    BY <1>2, <1>3 DEF Sessions
  <2>2. ASSUME m \in DOMAIN found PROVE CwdOf(m) = CwdAt(moment, m)
    <3>1. found[m].cwd = Recorded(tool, moment[m].data)
      BY <1>2, <1>3, <2>1, <2>2
    <3>2. CASE KindOf[m] = "child"
      <4>1. ParentOf[m] \in Names \ strayed /\ ParentOf[m] \in Sessions
        BY <1>3, <2>1, <3>2, ExportAssumption DEF Sessions
      <4> DEFINE parent == ParentOf[m]
      <4>2. /\ parent \in DOMAIN found <=> moment[parent].at # "none"
            /\ parent \in DOMAIN found => found[parent].cwd = Recorded(tool, moment[parent].data)
        BY <1>2, <4>1
      <4> QED
        BY <3>1, <3>2, <4>2 DEF CwdOf, CwdAt
    <3>3. CASE KindOf[m] # "child"
      BY <3>1, <3>3 DEF CwdOf, CwdAt
    <3> QED
      BY <3>2, <3>3
  <2> QED
    BY <1>3, <2>1, <2>2 DEF Selected
<1> HIDE DEF here
<1>4. n \in ProjectOf(moment) <=>
        \/ n \in here
        \/ moment[n].at # "none" /\ KindOf[n] = "note"
        \/ moment[n].at # "none" /\ KindOf[n] = "result" /\ n \in OwnFolder /\ ParentOf[n] \in here
  BY DEF ProjectOf, here
<1>5. n \in Selected => n \in Sessions
  BY <1>1 DEF Selected, KindsFit
<1>6. here \subseteq Sessions
  BY DEF here
<1>7. n \in DOMAIN archive <=> n \in ProjectOf(moment)
  <2>1. CASE n \in Sessions
    <3>1. n \in Selected <=> n \in here
      BY <1>3, <2>1
    <3>2. KindOf[n] \notin {"note", "result"}
      BY <2>1 DEF Sessions
    <3> QED
      BY <1>1, <1>4, <3>1, <3>2 DEF KindsFit
  <2>2. CASE KindOf[n] = "note"
    <3>1. n \notin Sessions
      BY <2>2 DEF Sessions
    <3> QED
      BY <1>1, <1>2, <1>4, <1>5, <1>6, <2>2, <3>1 DEF KindsFit
  <2>3. CASE KindOf[n] = "result"
    <3>1. ParentOf[n] \in Sessions /\ KindOf[ParentOf[n]] # "child" /\ n \notin Sessions
      BY <2>3, ExportAssumption DEF Sessions
    <3>2. ParentOf[n] \in Selected <=> ParentOf[n] \in here
      BY <1>3, <3>1
    <3> QED
      BY <1>1, <1>2, <1>4, <1>5, <1>6, <2>3, <3>1, <3>2 DEF KindsFit
  <2> QED
    BY <2>1, <2>2, <2>3, ExportAssumption DEF Sessions, Kinds
<1>8. n \in DOMAIN archive => archive[n] = [at |-> moment[n].at, data |-> moment[n].data]
  BY <1>1, <1>2 DEF ExportTyped
<1> QED
  BY <1>7, <1>8

\* A published archive is the project as it was at the moment the second stamp
\* began, without the results next to transcripts in folders other than the
\* project's, which Export (archive.go:284-296) does not look for.
THEOREM ArchivesAreMoments == ExportSpec => []PublishedIsAMoment
BY ExportInitially, ExportStep, PublishedFits, PTL DEF ExportSpec

-----------------------------------------------------------------------------
(* From device to device (SessionTransfer). *)

LEMMA FilesAreReadable == Files \subseteq Readable
<1> SUFFICES ASSUME NEW file \in Files PROVE file \in Readable
  OBVIOUS
<1>1. file \in Seq(Record)
  BY FilesAreSequences
<1>2. WellFormed(file)
  BY DEF Files
<1> QED
  BY <1>1, <1>2 DEF Readable

\* The records a rewriting changes.
Maps(agent, file, from, i) ==
  SamePath(CwdIn[file[i].text], from) /\ (agent = "codex" => \A j \in Naming(file) : i <= j)

LEMMA TextsOf ==
  ASSUME NEW file \in Seq(Record), NEW i \in 1..Len(file)
  PROVE  file[i] \in Record /\ file[i].text \in Texts /\ file[i].nl \in BOOLEAN
<1>1. file[i] \in Record
  OBVIOUS
<1> QED
  BY <1>1 DEF Record

LEMMA RenamedRecord ==
  ASSUME NEW r \in Record, NEW to \in Cwds
  PROVE  Renamed(r, to) \in Record /\ Renamed(r, to).text = WithCwd[<<r.text, to>>] /\ Renamed(r, to).nl = r.nl
BY FilesAssumption DEF Record, Renamed

LEMMA MappedFacts ==
  ASSUME NEW agent, NEW file \in Seq(Record), NEW from, NEW to \in Cwds
  PROVE  /\ Mapped(agent, file, from, to) \in Seq(Record)
         /\ Len(Mapped(agent, file, from, to)) = Len(file)
         /\ \A i \in 1..Len(file) :
              /\ Mapped(agent, file, from, to)[i].nl = file[i].nl
              /\ Mapped(agent, file, from, to)[i].text =
                   IF Maps(agent, file, from, i) THEN WithCwd[<<file[i].text, to>>] ELSE file[i].text
<1> DEFINE at(i) == IF Maps(agent, file, from, i) THEN Renamed(file[i], to) ELSE file[i]
<1>1. Mapped(agent, file, from, to) = [i \in 1..Len(file) |-> at(i)]
  BY DEF Mapped, MappedRollout, MappedTranscript, Maps
<1>2. ASSUME NEW i \in 1..Len(file)
      PROVE  /\ at(i) \in Record /\ at(i).nl = file[i].nl
             /\ at(i).text = IF Maps(agent, file, from, i) THEN WithCwd[<<file[i].text, to>>] ELSE file[i].text
  BY TextsOf, RenamedRecord
<1> HIDE DEF at
<1>3. Len(file) \in Nat
  OBVIOUS
<1> DEFINE m == Mapped(agent, file, from, to)
<1>4. m \in [1..Len(file) -> Record] /\ \A i \in 1..Len(file) : m[i] = at(i)
  BY <1>1, <1>2
<1> HIDE DEF m
<1>5. m \in Seq(Record) /\ Len(m) = Len(file)
  BY <1>3, <1>4
<1>6. \A i \in 1..Len(file) :
        /\ m[i].nl = file[i].nl
        /\ m[i].text = IF Maps(agent, file, from, i) THEN WithCwd[<<file[i].text, to>>] ELSE file[i].text
  BY <1>2, <1>4
<1> QED
  BY <1>5, <1>6 DEF m

LEMMA MappedReadable ==
  ASSUME NEW agent, NEW file \in Seq(Record), WellFormed(file)
  PROVE  Mapped(agent, file, "source", "target") \in Readable
<1> DEFINE m == Mapped(agent, file, "source", "target")
<1>1. m \in Seq(Record) /\ Len(m) = Len(file) 
      /\ \A i \in 1..Len(file) :
           /\ m[i].nl = file[i].nl
           /\ m[i].text = IF Maps(agent, file, "source", i) THEN WithCwd[<<file[i].text, "target">>] ELSE file[i].text
  BY MappedFacts DEF Cwds
<1> HIDE DEF m
<1>2. m \in Readable
  BY <1>1 DEF Readable, WellFormed
<1> QED
  BY <1>2 DEF m

\* What rewriting a directory does to the directory of a record.
LEMMA NamesAfter ==
  ASSUME NEW t \in Texts, NEW c \in Cwds
  PROVE  /\ WithCwd[<<t, c>>] \in Texts
         /\ CwdIn[t] = "none" => CwdIn[WithCwd[<<t, c>>]] = "none"
         /\ CwdIn[t] # "none" => CwdIn[WithCwd[<<t, c>>]] = c
<1>1. WithCwd[<<t, c>>] \in Texts
  BY FilesAssumption
<1>2. CwdIn[WithCwd[<<t, c>>]] = IF CwdIn[t] = "none" THEN "none" ELSE c
  BY RewritingAssumption
<1> QED
  BY <1>1, <1>2

LEMMA BackAgain ==
  ASSUME NEW t \in Texts, NEW c \in Cwds, CwdIn[t] # "none"
  PROVE  CanonOf[WithCwd[<<WithCwd[<<t, c>>], CwdIn[t]>>]] = CanonOf[t]
BY RewritingAssumption

LEMMA SameAfter ==
  ASSUME NEW t \in Texts, NEW u \in Texts, NEW c \in Cwds, CanonOf[t] = CanonOf[u]
  PROVE  CwdIn[t] = CwdIn[u] /\ CanonOf[WithCwd[<<t, c>>]] = CanonOf[WithCwd[<<u, c>>]]
BY RewritingAssumption

\* A session that extends what came here goes back as an extension of what it came
\* from.
LEMMA ThereAndBack ==
  ASSUME NEW agent, NEW data \in Seq(Record), NEW after \in Seq(Record),
         IsPrefixOf(Canon(Mapped(agent, data, "source", "target")), Canon(after)),
         \A i \in Naming(data) : CwdIn[data[i].text] \in {"source", "elsewhere"}
  PROVE  IsPrefixOf(Canon(data), Canon(Mapped(agent, after, "target", "source")))
<1> DEFINE m == Mapped(agent, data, "source", "target")
           back == Mapped(agent, after, "target", "source")
<1>1. /\ m \in Seq(Record) /\ Len(m) = Len(data)
      /\ \A i \in 1..Len(data) : m[i].text = IF Maps(agent, data, "source", i)
                                             THEN WithCwd[<<data[i].text, "target">>] ELSE data[i].text
  BY MappedFacts DEF Cwds
<1>2. /\ back \in Seq(Record) /\ Len(back) = Len(after)
      /\ \A i \in 1..Len(after) : back[i].text = IF Maps(agent, after, "target", i)
                                                 THEN WithCwd[<<after[i].text, "source">>] ELSE after[i].text
  BY MappedFacts DEF Cwds
<1> HIDE DEF m, back
<1>3. /\ Len(m) <= Len(after)
      /\ \A i \in 1..Len(m) : CanonOf[m[i].text] = CanonOf[after[i].text]
  BY <1>1, PrefixByRecords DEF m, File
<1>4. Len(data) \in Nat /\ Len(after) \in Nat /\ Len(data) <= Len(after)
  BY <1>1, <1>3
<1>5. \A i \in 1..Len(data) :
        /\ data[i].text \in Texts /\ m[i].text \in Texts /\ after[i].text \in Texts
        /\ CwdIn[m[i].text] = CwdIn[after[i].text]
        /\ i \in Naming(data) <=> CwdIn[data[i].text] # "none"
        /\ i \in Naming(after) <=> CwdIn[after[i].text] # "none"
  <2> SUFFICES ASSUME NEW i \in 1..Len(data)
               PROVE  /\ data[i].text \in Texts /\ m[i].text \in Texts /\ after[i].text \in Texts
                      /\ CwdIn[m[i].text] = CwdIn[after[i].text]
                      /\ i \in Naming(data) <=> CwdIn[data[i].text] # "none"
                      /\ i \in Naming(after) <=> CwdIn[after[i].text] # "none"
    OBVIOUS
  <2>1. i \in 1..Len(m) /\ i \in 1..Len(after)
    BY <1>1, <1>4
  <2>2. data[i].text \in Texts /\ m[i].text \in Texts /\ after[i].text \in Texts
    BY <1>1, <2>1, TextsOf
  <2> QED
    BY <1>3, <2>1, <2>2, SameAfter DEF Naming, Cwds
<1>6. ASSUME NEW i \in 1..Len(data)
      PROVE  CanonOf[data[i].text] = CanonOf[back[i].text]
  <2>1. i \in 1..Len(after) /\ CanonOf[m[i].text] = CanonOf[after[i].text]
    BY <1>1, <1>3, <1>4
  <2>2. CASE Maps(agent, data, "source", i)
    <3>1. CwdIn[data[i].text] = "source" /\ m[i].text = WithCwd[<<data[i].text, "target">>]
      BY <1>1, <1>5, <2>2 DEF Maps, SamePath
    <3>2. CwdIn[after[i].text] = "target"
      <4>1. CwdIn[WithCwd[<<data[i].text, "target">>]] = "target"
        BY <1>5, <3>1, NamesAfter DEF Cwds
      <4> QED
        BY <1>5, <3>1, <4>1
    <3>3. ASSUME agent = "codex", NEW j \in Naming(after) PROVE i <= j
      <4>1. j \in Nat /\ j \in 1..Len(after)
        BY DEF Naming
      <4>2. CASE j < i
        <5>1. j \in 1..Len(data) /\ CwdIn[m[j].text] # "none"
          BY <1>4, <1>5, <4>1, <4>2, <3>3
        <5>2. j \notin Naming(data)
          BY <2>2, <3>3, <4>1, <4>2 DEF Maps
        <5>3. CwdIn[data[j].text] = "none" /\ ~Maps(agent, data, "source", j)
          BY <1>5, <5>1, <5>2 DEF Maps, SamePath
        <5> QED
          BY <1>1, <5>1, <5>3
      <4> QED
        BY <4>1, <4>2
    <3>4. Maps(agent, after, "target", i)
      BY <3>2, <3>3 DEF Maps, SamePath
    <3>5. back[i].text = WithCwd[<<after[i].text, "source">>]
      BY <1>2, <2>1, <3>4
    <3>6. CanonOf[WithCwd[<<m[i].text, "source">>]] = CanonOf[data[i].text]
      BY <1>5, <3>1, BackAgain DEF Cwds
    <3>7. CanonOf[WithCwd[<<m[i].text, "source">>]] = CanonOf[WithCwd[<<after[i].text, "source">>]]
      BY <1>5, <2>1, SameAfter DEF Cwds
    <3> QED
      BY <3>5, <3>6, <3>7
  <2>3. CASE ~Maps(agent, data, "source", i)
    <3>1. m[i].text = data[i].text
      BY <1>1, <2>3
    <3>2. CwdIn[data[i].text] \in {"source", "elsewhere", "none"}
      BY <1>5
    <3>3. ~Maps(agent, after, "target", i)
      BY <1>5, <3>1, <3>2 DEF Maps, SamePath
    <3> QED
      BY <1>2, <2>1, <3>1, <3>3
  <2> QED
    BY <2>2, <2>3
<1> QED
  BY <1>2, <1>4, <1>6, PrefixByRecords DEF back, File

\* The session a rewriting leaves belongs to the new directory.
LEMMA MappedBelongs ==
  ASSUME NEW agent, NEW data \in Seq(Record), Recorded(agent, data) = "source", Naming(data) # {},
         agent = "codex" => Naming(data) = {i \in Naming(data) : \A j \in Naming(data) : i <= j}
  PROVE  Recorded(agent, Mapped(agent, data, "source", "target")) = "target"
<1> DEFINE m == Mapped(agent, data, "source", "target")
<1>1. /\ m \in Seq(Record) /\ Len(m) = Len(data)
      /\ \A i \in 1..Len(data) : m[i].text = IF Maps(agent, data, "source", i)
                                             THEN WithCwd[<<data[i].text, "target">>] ELSE data[i].text
  BY MappedFacts DEF Cwds
<1> HIDE DEF m
<1>2. \A i \in 1..Len(data) : data[i].text \in Texts
  BY TextsOf
<1>3. ASSUME NEW i \in 1..Len(data)
      PROVE  /\ Maps(agent, data, "source", i) /\ CwdIn[data[i].text] # "none" => CwdIn[m[i].text] = "target"
             /\ CwdIn[m[i].text] = "none" <=> CwdIn[data[i].text] = "none"
  <2> DEFINE t == data[i].text
  <2>1. t \in Texts /\ "target" \in Cwds
    BY <1>2 DEF Cwds
  <2>2. m[i].text = IF Maps(agent, data, "source", i) THEN WithCwd[<<t, "target">>] ELSE t
    BY <1>1
  <2> HIDE DEF t
  <2>3. /\ CwdIn[t] = "none" => CwdIn[WithCwd[<<t, "target">>]] = "none"
        /\ CwdIn[t] # "none" => CwdIn[WithCwd[<<t, "target">>]] = "target"
    BY <2>1, NamesAfter
  <2>4. /\ Maps(agent, data, "source", i) /\ CwdIn[t] # "none" => CwdIn[m[i].text] = "target"
        /\ CwdIn[m[i].text] = "none" <=> CwdIn[t] = "none"
    BY <2>2, <2>3
  <2> QED
    BY <2>4 DEF t
<1>4. Naming(m) = Naming(data)
  BY <1>1, <1>3 DEF Naming
<1>5. PICK k \in Naming(data) : \A j \in Naming(data) : k <= j
  <2>1. Naming(data) \subseteq Nat
    BY DEF Naming
  <2> QED
    BY <2>1, SomeLeast
<1>6. k \in 1..Len(data) /\ CwdIn[data[k].text] # "none" /\ Naming(data) \subseteq Nat
  BY DEF Naming
<1>7. CASE agent = "codex"
  <2>1. Naming(data) = {k}
    <3>1. \A i \in Naming(data) : i <= k /\ k <= i
      BY <1>5, <1>7
    <3> QED
      BY <1>6, <3>1
  <2>2. \A file : Naming(file) = {k} => RolloutCwd(file) = CwdIn[file[k].text]
    <3> SUFFICES ASSUME NEW file, Naming(file) = {k} PROVE RolloutCwd(file) = CwdIn[file[k].text]
      OBVIOUS
    <3> DEFINE read == {i \in Naming(file) :
                  ~\E j, l \in 1..(i - 1) : file[j].text \in Prompts /\ l \in Naming(file)}
    <3>1. read = {k}
      BY <1>6
    <3>2. (CHOOSE i \in read : \A j \in read : j <= i) = k
      BY <1>6, <3>1
    <3> QED
      BY <3>1, <3>2 DEF RolloutCwd
  <2>3. CwdIn[data[k].text] = "source"
    BY <1>7, <2>1, <2>2 DEF Recorded
  <2>4. Maps(agent, data, "source", k)
    BY <1>5, <2>3 DEF Maps, SamePath
  <2> QED
    BY <1>3, <1>4, <1>6, <1>7, <2>1, <2>2, <2>4 DEF Recorded, m
<1>8. CASE agent # "codex"
  <2> DEFINE first == CHOOSE i \in Naming(data) : \A j \in Naming(data) : i <= j
  <2>1. first \in Naming(data)
    BY <1>5
  <2>2. CwdIn[data[first].text] = "source"
    BY <1>6, <1>8 DEF Recorded, TranscriptCwd
  <2>3. Maps(agent, data, "source", first) /\ first \in 1..Len(data)
    BY <1>8, <2>1, <2>2 DEF Maps, SamePath, Naming
  <2>4. CwdIn[m[first].text] = "target"
    BY <1>3, <2>2, <2>3
  <2> QED
    BY <1>4, <1>6, <1>8, <2>4 DEF Recorded, TranscriptCwd, m
<1> QED
  BY <1>7, <1>8

\* What a published archive is, its manifests included.
LEMMA PublishedWell ==
  ASSUME ExportInv, step = "published"
  PROVE  /\ AsPublished(Published)
         /\ \A n \in DOMAIN Published.notes \ strayed : SizedRight(Published, n)
         /\ \A n \in DOMAIN Published.sessions \ strayed : FiledRight(Published, n)
<1> DEFINE p == Published
<1>1. /\ ExportTyped /\ ArchiveFits /\ KindsFit
      /\ DOMAIN archive = Selected \cup DOMAIN noted \cup DOMAIN sums
      /\ \A n \in DOMAIN sums : archive[n].data = sums[n]
  BY DEF ExportInv, ArchiveFits, Due, Scanned
<1>2. /\ p.tool = tool
      /\ DOMAIN p.sessions = DOMAIN archive \cap Sessions
      /\ \A n \in DOMAIN p.sessions : p.sessions[n].data = archive[n].data /\ p.sessions[n].cwd = CwdOf(n)
      /\ DOMAIN p.notes = DOMAIN noted
      /\ \A n \in DOMAIN noted : p.notes[n].size = noted[n] /\ p.notes[n].data = archive[n].data
      /\ DOMAIN p.results = DOMAIN sums
      /\ \A n \in DOMAIN sums : p.results[n] = archive[n].data
      /\ DOMAIN p.sums = DOMAIN archive
      /\ \A n \in DOMAIN archive : p.sums[n] = IF n \in DOMAIN sums THEN sums[n] ELSE archive[n].data
  BY DEF Published
<1> HIDE DEF p
<1>3. /\ \A n \in DOMAIN noted \cup DOMAIN sums : n \in Names /\ n \notin Sessions
      /\ \A n \in DOMAIN noted : n \notin DOMAIN sums
      /\ \A n \in Selected : n \in DOMAIN found /\ n \in Sessions /\ SamePath(CwdOf(n), "source")
  BY <1>1 DEF KindsFit, Sessions, Selected
<1>4. AsPublished(p)
  <2>1. ASSUME NEW n \in DOMAIN p.sessions
        PROVE  /\ p.sessions[n].data \in Files /\ p.sums[n] = p.sessions[n].data
               /\ p.sessions[n].cwd \in {"source", "respelled"}
    <3>1. n \in DOMAIN archive /\ n \in Selected /\ n \notin DOMAIN sums
      BY <1>1, <1>2, <1>3
    <3> QED
      BY <1>1, <1>2, <1>3, <3>1 DEF ExportTyped, SamePath
  <2>2. \A n \in DOMAIN p.notes : n \notin DOMAIN p.sessions /\ p.sums[n] = p.notes[n].data
    BY <1>1, <1>2, <1>3
  <2>3. \A n \in DOMAIN p.results :
          n \notin DOMAIN p.sessions \cup DOMAIN p.notes /\ p.sums[n] = p.results[n]
    BY <1>1, <1>2, <1>3
  <2>4. DOMAIN p.sums = DOMAIN p.sessions \cup DOMAIN p.notes \cup DOMAIN p.results
    BY <1>1, <1>2, <1>3
  <2> QED
    BY <1>1, <1>2, <2>1, <2>2, <2>3, <2>4 DEF AsPublished, ExportTyped
<1>5. ASSUME NEW n \in DOMAIN p.notes \ strayed PROVE SizedRight(p, n)
  <2>1. n \in DOMAIN noted /\ n \in DOMAIN archive /\ n \in Names \ strayed
    BY <1>1, <1>2, <1>3
  <2>2. noted[n] = Len(moment[n].data) /\ archive[n].data = moment[n].data
    BY <2>1, PublishedReads DEF WellRead
  <2> QED
    BY <1>2, <2>1, <2>2 DEF SizedRight
<1>6. ASSUME NEW n \in DOMAIN p.sessions \ strayed PROVE FiledRight(p, n)
  <2>1. n \in DOMAIN found /\ n \in DOMAIN archive /\ n \in Names \ strayed
    BY <1>1, <1>2, <1>3 DEF Sessions
  <2>2. /\ found[n].cwd = Recorded(tool, moment[n].data) /\ archive[n].data = moment[n].data
        /\ InTool(n)
    BY <2>1, PublishedReads DEF WellRead
  <2>3. CASE CwdOf(n) = found[n].cwd
    BY <1>2, <2>1, <2>2, <2>3 DEF FiledRight
  <2>4. CASE CwdOf(n) # found[n].cwd
    <3>1. KindOf[n] = "child" /\ found[n].cwd = "none"
      BY <2>4 DEF CwdOf
    <3>2. tool = "claude"
      BY <2>2, <3>1 DEF InTool, ToolOf
    <3>3. ASSUME Naming(moment[n].data) # {} PROVE FALSE
      <4> DEFINE read == Naming(moment[n].data)
      <4>1. PICK k \in read : \A j \in read : k <= j
        <5>1. read \subseteq Nat
          BY DEF Naming
        <5> QED
          BY <3>3, <5>1, SomeLeast
      <4>2. CwdIn[moment[n].data[CHOOSE i \in read : \A j \in read : i <= j].text] # "none"
        <5>1. (CHOOSE i \in read : \A j \in read : i <= j) \in read
          BY <4>1
        <5> QED
          BY <5>1 DEF Naming
      <4> QED
        BY <2>2, <3>1, <3>2, <3>3, <4>2 DEF Recorded, TranscriptCwd
    <3> QED
      BY <1>2, <2>1, <2>2, <3>3 DEF FiledRight
  <2> QED
    BY <2>3, <2>4
<1> QED
  BY <1>4, <1>5, <1>6 DEF p

LEMMA PublishedIsVerified == AsPublished(bundle) => Verified
BY DEF AsPublished, Verified, Entries, Packed

\* An update keeps what is here and appends the rest of what came.
Extends(x, y, after) ==
  /\ after \in Seq(Record) /\ Len(y) < Len(after) /\ Len(after) = Len(x)
  /\ \A i \in 1..Len(y) : after[i] = Terminated(y[i])
  /\ \A i \in (Len(y) + 1)..Len(x) : after[i] = x[i]

\* What is planned for a session follows from the two files.
PlannedWell(n) ==
  IF Place(n) \notin DOMAIN home
  THEN items[n].action = "import" /\ items[n].after = Incoming(n)
  ELSE /\ items[n].action = Reference(Incoming(n), home[Place(n)])
       /\ IF items[n].action = "update" THEN Extends(Incoming(n), home[Place(n)], items[n].after)
          ELSE items[n].after = home[Place(n)]

\* The bundle is what an export has published, of a session that did not stray with
\* the directory it was recorded in.
SourceFits ==
  bundle # NoBundle =>
    /\ step = "idle" \/ (step = "published" /\ bundle = Published)
    /\ AsPublished(bundle)
    /\ \A n \in DOMAIN bundle.notes \ strayed : SizedRight(bundle, n)
    /\ \A n \in DOMAIN bundle.sessions \ strayed : FiledRight(bundle, n)

HomeFits == \A place \in DOMAIN home : home[place] \in Readable

PlanFits ==
  /\ verdict = "none" => DOMAIN items = {} /\ entry = NoEntry
  /\ DOMAIN items \subseteq Entries
  /\ \A n \in DOMAIN items \cap DOMAIN bundle.sessions : PlannedWell(n)
  /\ entry # NoEntry =>
       /\ entry \in DOMAIN bundle.sessions /\ Place(entry) \in DOMAIN home
       /\ incoming = Incoming(entry) /\ local = home[Place(entry)]
  /\ verdict \in {"planning", "ready"} => ~Foreign
  /\ verdict = "ready" => DOMAIN items = Entries /\ ~Collide
  /\ NeverRefused

TransferInv ==
  /\ ExportInv /\ MergeInv
  /\ verdict # "none" => bundle # NoBundle
  /\ IF options = NoImport THEN HomeFits /\ SourceFits /\ PlanFits /\ DOMAIN looked = {}
     ELSE ImportInv /\ bundle # NoBundle /\ verdict \notin {"refused", "planning", "ready"}

LEMMA TransferInitially == TransferInit => TransferInv
<1> SUFFICES ASSUME TransferInit PROVE TransferInv
  OBVIOUS
<1>1. /\ ExportInv /\ MergeInv /\ verdict = "none" /\ DOMAIN items = {} /\ entry = NoEntry
      /\ tool \in {"codex", "claude"} /\ step = "idle" /\ DOMAIN looked = {}
  BY ExportInitially, IdleInv DEF TransferInit, PlanInit, ImportInit, ExportInit, NoFiles
<1>2. PlanFits
  BY <1>1 DEF PlanFits, NeverRefused
<1>3. CASE bundle = NoBundle /\ home \in TargetHomes[tool] /\ options = NoImport
  <2>1. HomeFits
    BY <1>1, <1>3, TransferAssumption, FilesAreReadable DEF HomeFits
  <2> QED
    BY <1>1, <1>2, <1>3, <2>1 DEF TransferInv, SourceFits
<1>4. ASSUME NEW i \in DOMAIN Earlier, NEW e \in Earlier[i],
             bundle = e.bundle, home = e.home, options = e.options
      PROVE  TransferInv
  <2>1. e.bundle # NoBundle
    BY TransferAssumption
  <2>2. ASSUME options = NoImport PROVE HomeFits /\ SourceFits
    <3>1. /\ AsPublished(e.bundle) /\ \A place \in DOMAIN e.home : e.home[place] \in Files
          /\ \A n \in DOMAIN e.bundle.notes : SizedRight(e.bundle, n)
          /\ \A n \in DOMAIN e.bundle.sessions : FiledRight(e.bundle, n)
      BY <1>4, <2>2, TransferAssumption
    <3> QED
      BY <1>1, <1>4, <3>1, FilesAreReadable DEF HomeFits, SourceFits
  <2>3. ASSUME options # NoImport PROVE ImportInv
    <3>1. /\ e.options \in Options /\ \A place \in DOMAIN e.home : e.home[place] \in Files
          /\ \A n \in DOMAIN e.bundle.sessions :
               e.bundle.sessions[n].at \in {"sessions", "archived"} /\ e.bundle.sessions[n].data \in Files
          /\ \A n \in DOMAIN e.bundle.notes : e.bundle.notes[n].data \in Files
      BY <1>4, <2>3, TransferAssumption
    <3>2. ImportInit /\ items = NoFiles
      BY DEF TransferInit, PlanInit
    <3>3. ImportStart
      BY <1>1, <1>4, <3>1, <3>2, FilesAreSequences DEF ImportStart, File
    <3> QED
      BY <3>3, StartInv
  <2> QED
    BY <1>1, <1>2, <1>4, <2>1, <2>2, <2>3 DEF TransferInv
<1> QED
  BY <1>3, <1>4 DEF TransferInit

LEMMA UpdateExtends == MergeInv /\ answer = "update" => Extends(incoming, local, out)
BY DEF MergeInv, MergeTypes, Written, Answered, Extends

\* The source's steps, and the download, which makes the bundle what was published.
LEMMA SourceKeeps == TransferInv /\ Source => TransferInv'
<1> SUFFICES ASSUME TransferInv, Source PROVE TransferInv'
  OBVIOUS
<1>1. /\ bundle = NoBundle /\ ExportNext
      /\ UNCHANGED <<incoming, local, pos, out, added, answer>>
      /\ UNCHANGED <<bundle, home, verdict, items, entry, options, looked>>
  BY DEF Source, mergeVars, planVars, bundleVars, importVars
<1>2. ExportInv'
  BY <1>1, ExportStep DEF TransferInv
<1>3. MergeInv'
  BY <1>1 DEF TransferInv, MergeInv, MergeTypes, SharedAgree, Written, Answered
<1>4. verdict = "none" /\ options = NoImport /\ HomeFits /\ PlanFits /\ (DOMAIN looked = {})
  BY <1>1 DEF TransferInv
<1>5. PlanFits'
  <2>1. DOMAIN items = {} /\ entry = NoEntry
    BY <1>4 DEF PlanFits
  <2> QED
    BY <1>1, <1>4, <2>1 DEF PlanFits, NeverRefused
<1> QED
  BY <1>1, <1>2, <1>3, <1>4, <1>5 DEF TransferInv, HomeFits, SourceFits

LEMMA DownloadKeeps == TransferInv /\ Download => TransferInv'
<1> SUFFICES ASSUME TransferInv, Download PROVE TransferInv'
  OBVIOUS
<1>1. /\ bundle = NoBundle /\ step = "published" /\ bundle' = Published
      /\ UNCHANGED <<incoming, local, pos, out, added, answer>>
      /\ UNCHANGED <<home, verdict, entry, items, options, looked>> /\ UNCHANGED exportVars
  BY DEF Download, mergeVars, importVars
<1>2. ExportInv'
  BY <1>1, ExportStep DEF TransferInv
<1>3. MergeInv'
  BY <1>1 DEF TransferInv, MergeInv, MergeTypes, SharedAgree, Written, Answered
<1>4. verdict = "none" /\ options = NoImport /\ HomeFits /\ PlanFits /\ (DOMAIN looked = {})
  BY <1>1 DEF TransferInv
<1>5. PlanFits'
  <2>1. DOMAIN items = {} /\ entry = NoEntry
    BY <1>4 DEF PlanFits
  <2> QED
    BY <1>1, <1>4, <2>1 DEF PlanFits, NeverRefused
<1>6. SourceFits'
  <2>1. /\ AsPublished(Published)
        /\ \A n \in DOMAIN Published.notes \ strayed : SizedRight(Published, n)
        /\ \A n \in DOMAIN Published.sessions \ strayed : FiledRight(Published, n)
    BY <1>1, PublishedWell DEF TransferInv
  <2>2. UNCHANGED <<step, strayed, tool, archive, found, noted, sums>>
    BY <1>1 DEF exportVars
  <2>3. Published' = Published
    BY <2>2 DEF Published, CwdOf
  <2> HIDE DEF AsPublished, SizedRight, FiledRight
  <2>4. /\ AsPublished(bundle')
        /\ \A n \in DOMAIN bundle'.notes \ strayed' : SizedRight(bundle', n)
        /\ \A n \in DOMAIN bundle'.sessions \ strayed' : FiledRight(bundle', n)
    BY <1>1, <2>1, <2>2
  <2> QED
    BY <1>1, <2>2, <2>3, <2>4 DEF SourceFits, AsPublished, SizedRight, FiledRight
<1>7. bundle' # NoBundle
  BY <1>1 DEF Published, NoBundle, TransferInv, ExportInv, ExportTyped
<1> QED
  BY <1>1, <1>2, <1>3, <1>4, <1>5, <1>6, <1>7 DEF TransferInv, HomeFits

LEMMA ImporterKeeps == TransferInv /\ Importer => TransferInv'
<1> SUFFICES ASSUME TransferInv, Importer PROVE TransferInv'
  OBVIOUS
<1>1. /\ options # NoImport /\ UNCHANGED exportVars
      /\ UNCHANGED <<incoming, local, pos, out, added, answer>>
  BY DEF Importer, mergeVars
<1>2. ExportInv'
  BY <1>1, ExportStep DEF TransferInv
<1>3. MergeInv'
  BY <1>1 DEF TransferInv, MergeInv, MergeTypes, SharedAgree, Written, Answered
<1>4. options' = options /\ bundle' = bundle /\ verdict' \in {verdict, "aborted", "deciding", "imported", "writing"}
  BY DEF Importer, ImportNext, ImportOpens, AllDecided, ImportBreaksOff, ImportEnds, SessionAborts, SessionResolved,
         NoteResolved, BackUp, Write, LocalGrows, importVars, bundleVars
<1>5. ImportInv /\ bundle # NoBundle /\ verdict \notin {"refused", "planning", "ready"}
  BY <1>1 DEF TransferInv
<1>6. ImportInv'
  BY <1>5, ImportStep DEF Importer
<1> QED
  BY <1>1, <1>2, <1>3, <1>4, <1>5, <1>6 DEF TransferInv

-----------------------------------------------------------------------------
(* The previewer's steps. *)

LEMMA SourceStays ==
  ASSUME TransferInv, options = NoImport, UNCHANGED exportVars, UNCHANGED <<bundle, home, options>>
  PROVE  ExportInv' /\ HomeFits' /\ SourceFits'
<1>1. ExportInv'
  BY ExportStep DEF TransferInv
<1>2. UNCHANGED <<step, strayed, tool, archive, found, noted, sums>>
  BY DEF exportVars
<1>3. Published' = Published
  BY <1>2 DEF Published, CwdOf
<1> QED
  BY <1>1, <1>2, <1>3 DEF TransferInv, HomeFits, SourceFits, AsPublished, SizedRight, FiledRight

LEMMA MergeStays ==
  ASSUME MergeInv, UNCHANGED <<incoming, local, pos, out, added, answer>>
  PROVE  MergeInv'
BY DEF MergeInv, MergeTypes, SharedAgree, Written, Answered

\* What may be refused for its names depends on the bundle alone.
LEMMA NamesStay ==
  ASSUME UNCHANGED <<bundle, strayed>>
  PROVE  Collide' = Collide /\ Refusable' = Refusable
<1>1. /\ Entries' = Entries /\ Packaged' = Packaged /\ Hidden' = Hidden
      /\ \A n : Origin(n)' = Origin(n) /\ Place(n)' = Place(n)
  BY DEF Entries, Packaged, Hidden, Origin, Place
<1>2. \A place : LowerCase(place)' = LowerCase(place)
  BY DEF LowerCase
<1>3. Collide' = Collide /\ Misnamed' = Misnamed
  BY <1>1 DEF Collide, Misnamed, LowerCase
<1> QED
  BY <1>1, <1>3 DEF Refusable

\* What was planned for one session does not depend on the others.
LEMMA PlannedStays ==
  ASSUME NEW n, PlannedWell(n), items'[n] = items[n], UNCHANGED <<bundle, home>>
  PROVE  PlannedWell(n)'
BY DEF PlannedWell, Place, Origin, Incoming

\* What is planned for the sessions, before and after a step that plans nothing.
ItemsFit == DOMAIN items \subseteq Entries /\ \A n \in DOMAIN items \cap DOMAIN bundle.sessions : PlannedWell(n)

LEMMA ItemsStay ==
  ASSUME PlanFits, UNCHANGED <<bundle, home, items>>
  PROVE  ItemsFit'
<1>1. ItemsFit
  BY DEF PlanFits, ItemsFit
<1>2. ASSUME NEW n \in DOMAIN items' \cap DOMAIN bundle'.sessions PROVE PlannedWell(n)'
  BY <1>1, PlannedStays DEF ItemsFit
<1>3. (DOMAIN items \subseteq Entries)'
  BY <1>1 DEF ItemsFit, Entries
<1> QED
  BY <1>2, <1>3 DEF ItemsFit

\* And that plans for one entry.
LEMMA OneMore ==
  ASSUME PlanFits, NEW n \in Entries, NEW action, NEW file, Planned(n, action, file), UNCHANGED <<bundle, home>>,
         n \in DOMAIN bundle.sessions =>
           IF Place(n) \notin DOMAIN home THEN action = "import" /\ file = Incoming(n)
           ELSE /\ action = Reference(Incoming(n), home[Place(n)])
                /\ IF action = "update" THEN Extends(Incoming(n), home[Place(n)], file) ELSE file = home[Place(n)]
  PROVE  ItemsFit'
<1> DEFINE x == [action |-> action, after |-> file]
<1>1. x.action = action /\ x.after = file /\ items' = With(items, n, x)
  BY DEF Planned
<1> HIDE DEF x
<1>2. /\ DOMAIN items' = DOMAIN items \cup {n} /\ items'[n] = x
      /\ \A m \in DOMAIN items : m # n => items'[m] = items[m]
  BY <1>1 DEF With
<1>3. ItemsFit
  BY DEF PlanFits, ItemsFit
<1>4. (DOMAIN items \subseteq Entries)'
  BY <1>2, <1>3 DEF ItemsFit, Entries
<1>5. ASSUME NEW m \in DOMAIN items' \cap DOMAIN bundle'.sessions PROVE PlannedWell(m)'
  <2>1. CASE m # n
    <3>1. PlannedWell(m) /\ items'[m] = items[m]
      BY <1>2, <1>3, <2>1 DEF ItemsFit
    <3> QED
      BY <3>1, PlannedStays
  <2>2. CASE m = n
    BY <1>1, <1>2, <2>2 DEF PlannedWell, Place, Origin, Incoming
  <2> QED
    BY <2>1, <2>2
<1> QED
  BY <1>4, <1>5 DEF ItemsFit

\* A session of the bundle can be read.
LEMMA IncomingReadable ==
  ASSUME SourceFits, NEW n \in DOMAIN bundle.sessions, bundle # NoBundle
  PROVE  Incoming(n) \in Readable
<1>1. bundle.sessions[n].data \in Files
  BY DEF SourceFits, AsPublished
<1>2. bundle.sessions[n].data \in Seq(Record) /\ WellFormed(bundle.sessions[n].data)
  BY <1>1, FilesAreSequences DEF Files
<1> HIDE DEF Readable
<1> QED
  BY <1>2, MappedReadable DEF Incoming

LEMMA PreviewKeeps == TransferInv /\ Previewer => TransferInv'
<1> SUFFICES ASSUME TransferInv, Previewer PROVE TransferInv'
  OBVIOUS
<1>1. options = NoImport /\ PlanNext /\ UNCHANGED exportVars /\ UNCHANGED <<options, looked>>
  BY DEF Previewer, importVars
<1>2. /\ MergeInv /\ HomeFits /\ SourceFits /\ PlanFits /\ DOMAIN looked = {}
      /\ verdict # "none" => bundle # NoBundle
  BY <1>1 DEF TransferInv
<1> HIDE DEF TransferInv
<1> DEFINE Well == MergeInv' /\ PlanFits' /\ bundle' = bundle /\ home' = home /\ (verdict' # "none" => bundle # NoBundle)
<1>3. ItemsFit /\ (bundle # NoBundle => Verified)
  BY <1>2, PublishedIsVerified DEF PlanFits, ItemsFit, SourceFits
<1>4. ASSUME PreviewOpens PROVE Well
  <2>1. /\ verdict = "none" /\ bundle # NoBundle /\ UNCHANGED <<bundle, home, entry, items>>
        /\ UNCHANGED <<incoming, local, pos, out, added, answer>>
        /\ verdict' = IF Foreign \/ Misnamed \/ Hidden THEN "refused" ELSE "planning"
        /\ UNCHANGED strayed
    BY <1>1, <1>3, <1>4 DEF PreviewOpens, mergeVars, exportVars
  <2>2. MergeInv' /\ ItemsFit'
    BY <1>2, <2>1, MergeStays, ItemsStay
  <2>3. Foreign => \E n \in DOMAIN bundle.sessions : bundle.sessions[n].cwd = "respelled"
    BY <1>2, <2>1 DEF Foreign, SourceFits, AsPublished
  <2>4. verdict' = "refused" => Refusable'
    BY <2>1, <2>3, NamesStay DEF Refusable
  <2>5. PlanFits'
    BY <1>2, <2>1, <2>2, <2>4 DEF PlanFits, ItemsFit, Foreign, NeverRefused
  <2> QED
    BY <2>1, <2>2, <2>5
<1>5. ASSUME PreviewFails \/ PreviewReady PROVE Well
  <2>1. /\ bundle # NoBundle /\ verdict \in {"none", "planning"} /\ UNCHANGED <<bundle, home, entry, items>>
        /\ UNCHANGED <<incoming, local, pos, out, added, answer>>
        /\ \/ verdict' = "failed"
           \/ verdict = "planning" /\ verdict' = (IF Collide THEN "refused" ELSE "ready") /\ DOMAIN items = Entries
        /\ UNCHANGED strayed
    BY <1>1, <1>2, <1>5 DEF PreviewFails, PreviewReady, mergeVars, exportVars
  <2>2. MergeInv' /\ ItemsFit'
    BY <1>2, <2>1, MergeStays, ItemsStay
  <2>3. PlanFits'
    <3>1. verdict' = "refused" => Refusable'
      BY <2>1, NamesStay DEF Refusable
    <3>2. Entries' = Entries /\ Collide' = Collide
      <4>1. Collide' = Collide
        BY <2>1, NamesStay
      <4> QED
        BY <2>1, <4>1 DEF Entries
    <3>3. verdict' = "ready" => (DOMAIN items = Entries)' /\ ~Collide'
      <4>1. CASE verdict' = "failed"
        BY <4>1
      <4>2. CASE verdict' = (IF Collide THEN "refused" ELSE "ready") /\ DOMAIN items = Entries
        <5>1. CASE Collide
          BY <4>2, <5>1
        <5>2. CASE ~Collide
          <6>1. items' = items
            BY <2>1
          <6>2. (DOMAIN items = Entries)'
            BY <3>2, <4>2, <6>1
          <6>3. ~Collide'
            BY <3>2, <5>2, Zenon
          <6> QED
            BY <6>2, <6>3
        <5> QED
          BY <5>1, <5>2
      <4> QED
        BY <2>1, <4>1, <4>2
    <3>4. (entry # NoEntry => (entry \in DOMAIN bundle.sessions /\ Place(entry) \in DOMAIN home
                               /\ incoming = Incoming(entry) /\ local = home[Place(entry)]))'
      BY <1>2, <2>1 DEF PlanFits, Incoming, Place
    <3>5. (verdict \in {"planning", "ready"} => ~Foreign)'
      BY <1>2, <2>1 DEF PlanFits, Foreign
    <3> QED
      BY <2>1, <2>2, <3>1, <3>3, <3>4, <3>5 DEF PlanFits, ItemsFit, NeverRefused
  <2> QED
    BY <2>1, <2>2, <2>3
<1>6. ASSUME MergeSteps PROVE Well
  <2>1. /\ verdict = "planning" /\ UNCHANGED <<bundle, home, verdict, items, entry>> /\ MergeNext
        /\ incoming' = incoming /\ local' = local
    BY <1>6 DEF MergeSteps, planVars, bundleVars, MergeNext, Shared, Diverges, IncomingEnds, LocalEnds, TooLarge, Decide
  <2>2. MergeInv'
    BY <1>2, <2>1, MergeStep
  <2>3. ItemsFit'
    BY <1>2, <2>1, ItemsStay
  <2>4. PlanFits'
    BY <1>2, <2>1, <2>3 DEF PlanFits, ItemsFit, Foreign, NeverRefused, Incoming, Place
  <2> QED
    BY <1>2, <2>1, <2>2, <2>4
<1>7. ASSUME SessionDecided PROVE Well
  <2>1. /\ verdict = "planning" /\ entry # NoEntry /\ answer \notin {"none", "error"}
        /\ Planned(entry, answer, IF answer = "update" THEN out ELSE local)
        /\ entry' = NoEntry /\ UNCHANGED <<bundle, home, verdict>>
        /\ UNCHANGED <<incoming, local, pos, out, added, answer>>
    BY <1>7 DEF SessionDecided, mergeVars
  <2>2. /\ entry \in DOMAIN bundle.sessions /\ entry \in Entries /\ Place(entry) \in DOMAIN home
        /\ incoming = Incoming(entry) /\ local = home[Place(entry)]
    BY <1>2, <2>1 DEF PlanFits, Entries
  <2>3. answer = Reference(incoming, local)
    BY <1>2, <2>1, MergeDecides DEF DecidesByRecords
  <2>4. answer = "update" => Extends(incoming, local, out)
    BY <1>2, UpdateExtends
  <2>5. ItemsFit'
    <3> DEFINE file == IF answer = "update" THEN out ELSE local
    <3>1. /\ answer = Reference(Incoming(entry), home[Place(entry)])
          /\ IF answer = "update" THEN Extends(Incoming(entry), home[Place(entry)], file) ELSE file = home[Place(entry)]
      BY <2>2, <2>3, <2>4
    <3>2. Planned(entry, answer, file)
      BY <2>1
    <3> HIDE DEF file
    <3> QED
      BY <1>2, <2>1, <2>2, <3>1, <3>2, OneMore
  <2>6. MergeInv'
    BY <1>2, <2>1, MergeStays
  <2>7. PlanFits'
    BY <1>2, <2>1, <2>5 DEF PlanFits, ItemsFit, Foreign, NeverRefused
  <2> QED
    BY <1>2, <2>1, <2>6, <2>7
<1>8. ASSUME MergeFailed PROVE Well
  <2>1. /\ verdict = "planning" /\ verdict' = "failed" /\ entry' = NoEntry /\ UNCHANGED <<bundle, home, items>>
        /\ UNCHANGED <<incoming, local, pos, out, added, answer>>
    BY <1>8 DEF MergeFailed, mergeVars
  <2>2. MergeInv' /\ ItemsFit'
    BY <1>2, <2>1, MergeStays, ItemsStay
  <2>3. PlanFits'
    BY <2>1, <2>2 DEF PlanFits, ItemsFit, NeverRefused
  <2> QED
    BY <1>2, <2>1, <2>2, <2>3
<1>9. ASSUME NEW n \in Entries, EntryRefused(n) PROVE Well
  <2>1. /\ verdict = "planning" /\ entry = NoEntry /\ verdict' = "refused"
        /\ UNCHANGED <<bundle, home, entry, items, strayed>> /\ Unacceptable(n)
        /\ UNCHANGED <<incoming, local, pos, out, added, answer>>
    BY <1>1, <1>9 DEF EntryRefused, Waiting, mergeVars, exportVars
  <2>2. MergeInv' /\ ItemsFit'
    BY <1>2, <2>1, MergeStays, ItemsStay
  <2>3. NeverRefused'
    <3> SUFFICES Refusable
      BY <2>1, NamesStay DEF NeverRefused
    <3>1. CASE n \in DOMAIN bundle.sessions
      BY <2>1, <3>1 DEF Unacceptable, Refusable
    <3>2. CASE n \notin DOMAIN bundle.sessions
      <4>1. n \in DOMAIN bundle.notes /\ Len(bundle.notes[n].data) # bundle.notes[n].size
        BY <2>1, <3>2 DEF Unacceptable
      <4>2. n \in strayed
        BY <1>2, <2>1, <4>1 DEF SourceFits, SizedRight
      <4> QED
        BY <4>1, <4>2 DEF Refusable
    <3> QED
      BY <3>1, <3>2
  <2>4. PlanFits'
    BY <2>1, <2>2, <2>3 DEF PlanFits, ItemsFit
  <2> QED
    BY <1>2, <2>1, <2>2, <2>4
<1>10. ASSUME NEW n \in Entries, SessionNew(n) \/ NotePlanned(n) \/ ResultPlanned(n) PROVE Well
  <2>1. /\ verdict = "planning" /\ entry = NoEntry /\ UNCHANGED <<bundle, home, verdict, entry>>
        /\ UNCHANGED <<incoming, local, pos, out, added, answer>>
    BY <1>10 DEF SessionNew, NotePlanned, ResultPlanned, AsidePlanned, Waiting, mergeVars
  <2>2. PICK action, file :
          /\ Planned(n, action, file)
          /\ n \in DOMAIN bundle.sessions => Place(n) \notin DOMAIN home /\ action = "import" /\ file = Incoming(n)
    <3>1. CASE SessionNew(n)
      BY <3>1 DEF SessionNew
    <3>2. CASE NotePlanned(n) \/ ResultPlanned(n)
      <4>1. n \notin DOMAIN bundle.sessions
        BY <1>2, <2>1, <3>2 DEF NotePlanned, ResultPlanned, SourceFits, AsPublished
      <4> QED
        BY <3>2, <4>1 DEF NotePlanned, ResultPlanned, AsidePlanned
    <3> QED
      BY <1>10, <3>1, <3>2
  <2>3. ItemsFit'
    BY <1>2, <2>1, <2>2, OneMore
  <2>4. MergeInv'
    BY <1>2, <2>1, MergeStays
  <2>5. PlanFits'
    BY <1>2, <2>1, <2>3 DEF PlanFits, ItemsFit, Foreign, NeverRefused
  <2> QED
    BY <1>2, <2>1, <2>4, <2>5
<1>11. ASSUME NEW n \in Entries, SessionMerges(n) PROVE Well
  <2>1. /\ verdict = "planning" /\ entry' = n /\ UNCHANGED <<bundle, home, verdict, items>>
        /\ n \in DOMAIN bundle.sessions /\ Place(n) \in DOMAIN home
        /\ MergeStarts(Incoming(n), home[Place(n)])
    BY <1>11 DEF SessionMerges, Waiting
  <2>2. ItemsFit'
    BY <1>2, <2>1, ItemsStay
  <2>3. MergeInv'
    <3>1. Incoming(n) \in Readable /\ home[Place(n)] \in Readable
      BY <1>2, <2>1, IncomingReadable DEF HomeFits
    <3> QED
      BY <2>1, <3>1, StartsInv
  <2>4. incoming' = Incoming(n) /\ local' = home[Place(n)] /\ Incoming(n)' = Incoming(n) /\ Place(n)' = Place(n)
    BY <2>1 DEF MergeStarts, Incoming, Place
  <2>5. PlanFits'
    BY <1>2, <2>1, <2>2, <2>4 DEF PlanFits, ItemsFit, Foreign, NeverRefused, Incoming, Place
  <2> QED
    BY <1>2, <2>1, <2>3, <2>5
<1>12. Well
  BY <1>1, <1>4, <1>5, <1>6, <1>7, <1>8, <1>9, <1>10, <1>11 DEF PlanNext
<1>13. ExportInv' /\ HomeFits' /\ SourceFits'
  BY <1>1, <1>12, SourceStays
<1> QED
  BY <1>1, <1>2, <1>12, <1>13 DEF TransferInv

LEMMA TransferStep == TransferInv /\ [TransferNext]_transferVars => TransferInv'
<1> SUFFICES ASSUME TransferInv, [TransferNext]_transferVars PROVE TransferInv'
  OBVIOUS
<1>1. CASE TransferNext
  BY <1>1, SourceKeeps, DownloadKeeps, PreviewKeeps, ImporterKeeps DEF TransferNext
<1>2. CASE UNCHANGED transferVars
  <2>1. /\ UNCHANGED exportVars /\ UNCHANGED <<incoming, local, pos, out, added, answer>>
        /\ UNCHANGED <<bundle, home, verdict, items, entry, options, looked>> /\ UNCHANGED importAllVars
    BY <1>2 DEF transferVars, mergeVars, planVars, bundleVars, importVars, importAllVars
  <2>2. ExportInv' /\ MergeInv'
    BY <2>1, ExportStep, MergeStays DEF TransferInv
  <2>3. options = NoImport => HomeFits' /\ SourceFits'
    BY <2>1, SourceStays
  <2>4. UNCHANGED strayed
    BY <2>1 DEF exportVars
  <2>5. PlanFits => PlanFits'
    <3> SUFFICES ASSUME PlanFits PROVE PlanFits'
      OBVIOUS
    <3>1. ItemsFit'
      BY <2>1, ItemsStay
    <3> QED
      BY <2>1, <2>4, <3>1, NamesStay DEF PlanFits, ItemsFit, Foreign, NeverRefused, Entries, Incoming, Place, Origin
  <2>6. ImportInv => ImportInv'
    BY <2>1, ImportStep
  <2> QED
    BY <2>1, <2>2, <2>3, <2>5, <2>6 DEF TransferInv
<1> QED
  BY <1>1, <1>2

LEMMA TransferInvariant == TransferSpec => []TransferInv
BY TransferInitially, TransferStep, PTL DEF TransferSpec

\* A record is the same with a terminator.
LEMMA TerminatedText == ASSUME NEW r \in Record PROVE Terminated(r).text = r.text
BY DEF Terminated, Record

\* What a session is to become here extends what came and what is here.
LEMMA PlannedExtends ==
  ASSUME NEW x \in Seq(Record), NEW y \in Seq(Record), NEW after,
         Reference(x, y) # "conflict",
         IF Reference(x, y) = "update" THEN Extends(x, y, after) ELSE after = y
  PROVE  /\ after \in Seq(Record)
         /\ IsPrefixOf(Canon(x), Canon(after)) /\ IsPrefixOf(Canon(y), Canon(after))
<1>1. CASE Reference(x, y) = "update"
  <2>1. Extends(x, y, after) /\ after \in Seq(Record) /\ Len(x) \in Nat /\ Len(y) \in Nat
    BY <1>1 DEF Extends
  <2>2. IsPrefixOf(Canon(y), Canon(x))
    BY <1>1 DEF Reference
  <2>3. \A i \in 1..Len(y) : CanonOf[y[i].text] = CanonOf[x[i].text] /\ Len(y) <= Len(x)
    BY <2>2, PrefixByRecords DEF File
  <2>4. \A i \in 1..Len(y) : after[i].text = y[i].text
    <3> SUFFICES ASSUME NEW i \in 1..Len(y) PROVE after[i].text = y[i].text
      OBVIOUS
    <3>1. y[i] \in Record /\ after[i] = Terminated(y[i])
      BY <2>1 DEF Extends
    <3> QED
      BY <3>1, TerminatedText
  <2>5. \A i \in 1..Len(x) : CanonOf[after[i].text] = CanonOf[x[i].text]
    BY <2>1, <2>3, <2>4 DEF Extends
  <2>6. Len(after) = Len(x) /\ Len(y) <= Len(after)
    BY <2>1 DEF Extends
  <2>7. IsPrefixOf(Canon(x), Canon(after))
    BY <2>1, <2>5, <2>6, PrefixByRecords DEF File
  <2>8. IsPrefixOf(Canon(y), Canon(after))
    BY <2>1, <2>4, <2>6, PrefixByRecords DEF File
  <2> QED
    BY <2>1, <2>7, <2>8
<1>2. CASE Reference(x, y) # "update"
  <2>1. after = y
    BY <1>2
  <2>2. Canon(x) = Canon(y) \/ IsPrefixOf(Canon(x), Canon(y))
    BY <1>2 DEF Reference
  <2>3. IsPrefixOf(Canon(x), Canon(y))
    BY <2>2, CanonEqualPrefix
  <2> QED
    BY <2>1, <2>3, CanonEqualPrefix
<1> QED
  BY <1>1, <1>2

\* For a plan that is ready and the session of a bundle it restores.
LEMMA RestoredExtends ==
  ASSUME TransferInv, verdict = "ready", NEW n \in DOMAIN bundle.sessions, items[n].action # "conflict"
  PROVE  /\ bundle.sessions[n].data \in Seq(Record) /\ Incoming(n) \in Seq(Record)
         /\ items[n].after \in Seq(Record)
         /\ IsPrefixOf(Canon(Incoming(n)), Canon(items[n].after))
         /\ Place(n) \in DOMAIN home => IsPrefixOf(Canon(home[Place(n)]), Canon(items[n].after))
<1>1. /\ HomeFits /\ SourceFits /\ PlanFits /\ bundle # NoBundle
      /\ n \in DOMAIN items /\ PlannedWell(n)
  BY DEF TransferInv, PlanFits, Entries
<1>2. bundle.sessions[n].data \in Seq(Record)
  BY <1>1, FilesAreSequences DEF SourceFits, AsPublished
<1>3. Incoming(n) \in Seq(Record)
  BY <1>1, IncomingReadable DEF Readable
<1>4. CASE Place(n) \notin DOMAIN home
  BY <1>1, <1>2, <1>3, <1>4, CanonEqualPrefix DEF PlannedWell
<1>5. CASE Place(n) \in DOMAIN home
  <2> DEFINE x == Incoming(n)
             y == home[Place(n)]
  <2>1. y \in Seq(Record)
    BY <1>1, <1>5 DEF HomeFits, Readable
  <2>2. /\ Reference(x, y) # "conflict"
        /\ IF Reference(x, y) = "update" THEN Extends(x, y, items[n].after) ELSE items[n].after = y
    BY <1>1, <1>5 DEF PlannedWell
  <2>3. x \in Seq(Record)
    BY <1>3
  <2> HIDE DEF x, y
  <2>4. /\ items[n].after \in Seq(Record)
        /\ IsPrefixOf(Canon(x), Canon(items[n].after)) /\ IsPrefixOf(Canon(y), Canon(items[n].after))
    BY <2>1, <2>2, <2>3, PlannedExtends
  <2> QED
    BY <1>2, <1>3, <2>4 DEF x, y
<1> QED
  BY <1>4, <1>5

-----------------------------------------------------------------------------
\* Export (archive.go), mergeStreams (stream.go), planMerge (mergesync.go) and Import
\* (import.go) keep, one after the other, what each promises alone.
THEOREM PartsKeepTheirPromises ==
  TransferSpec =>
    [](PublishedIsAMoment /\ DecidesByRecords /\ LocalBytesKept /\ AgreesWithPlanMerge /\ LocalNeverLost)
<1>1. TransferInv =>
        PublishedIsAMoment /\ DecidesByRecords /\ LocalBytesKept /\ AgreesWithPlanMerge /\ LocalNeverLost
  BY PublishedFits, MergeDecides, MergeAgrees, ImportKeeps
     DEF TransferInv, MergeInv, MergeTypes, Written, Answered, LocalBytesKept, LocalNeverLost
<1> QED
  BY <1>1, TransferInvariant, PTL

\* What Export has published is refused by Preview (engine.go, stream.go) only for a
\* broken line, for a directory spelled in another way, for what the names and the places
\* of its files are, or for a memory file that came and went between the stamps.
THEOREM RefusedForAReason == TransferSpec => []NeverRefused
<1>1. TransferInv => NeverRefused
  BY DEF TransferInv, PlanFits, NeverRefused
<1> QED
  BY <1>1, TransferInvariant, PTL

\* A new session that mapStream writes is read back by the scanners (parse.go) as one
\* of the target's project.
THEOREM RestoredSessionsBelong == TransferSpec => []BelongsToTarget
<1>1. TransferInv => BelongsToTarget
  <2> SUFFICES ASSUME TransferInv, verdict = "ready", NEW n \in DOMAIN bundle.sessions \ strayed,
                      items[n].action = "import", Naming(bundle.sessions[n].data) # {},
                      bundle.tool = "codex" =>
                        Naming(bundle.sessions[n].data) =
                          {i \in Naming(bundle.sessions[n].data) : \A j \in Naming(bundle.sessions[n].data) : i <= j}
               PROVE  Recorded(bundle.tool, items[n].after) = "target"
    BY DEF BelongsToTarget
  <2>1. /\ SourceFits /\ PlanFits /\ bundle # NoBundle /\ ~Foreign
        /\ n \in DOMAIN items /\ PlannedWell(n)
    BY DEF TransferInv, PlanFits, Entries
  <2>2. /\ bundle.sessions[n].data \in Seq(Record)
        /\ bundle.sessions[n].cwd = "source"
        /\ bundle.sessions[n].cwd = Recorded(bundle.tool, bundle.sessions[n].data)
    BY <2>1, FilesAreSequences DEF SourceFits, AsPublished, FiledRight, Foreign
  <2>3. Reference(Incoming(n), home[Place(n)]) # "import"
    BY DEF Reference
  <2>4. items[n].after = Incoming(n)
    BY <2>1, <2>3 DEF PlannedWell
  <2> DEFINE data == bundle.sessions[n].data
  <2>5. data \in Seq(Record) /\ Recorded(bundle.tool, data) = "source" /\ Naming(data) # {}
        /\ (bundle.tool = "codex" => Naming(data) = {i \in Naming(data) : \A j \in Naming(data) : i <= j})
    BY <2>2
  <2> HIDE DEF data
  <2>6. Recorded(bundle.tool, Mapped(bundle.tool, data, "source", "target")) = "target"
    BY <2>5, MappedBelongs
  <2> QED
    BY <2>4, <2>6 DEF Incoming, data
<1> QED
  BY <1>1, TransferInvariant, PTL

\* A plan of Preview that can be applied holds every session of the source's project
\* as it was at one moment of Export, and everything the target's sessions held.
THEOREM TransfersRestoreTheMoment == TransferSpec => []RestoresTheMoment
<1>1. TransferInv => RestoresTheMoment
  <2> SUFFICES ASSUME TransferInv, CanApply, step = "published",
                      NEW n \in Sessions \cap ProjectOf(moment), n \notin strayed, ParentOf[n] \notin strayed
               PROVE  /\ n \in DOMAIN items /\ Place(n) = <<moment[n].at, Landing[n]>>
                      /\ \A m \in DOMAIN items \ {n} : Place(m) # Place(n)
                      /\ IsPrefixOf(Canon(Mapped(tool, moment[n].data, "source", "target")), Canon(items[n].after))
                      /\ Place(n) \in DOMAIN home => IsPrefixOf(Canon(home[Place(n)]), Canon(items[n].after))
    BY DEF RestoresTheMoment
  <2>1. /\ ExportInv /\ verdict = "ready" /\ SourceFits /\ PlanFits /\ bundle # NoBundle
        /\ DOMAIN items = Entries /\ ~Collide /\ \A m \in DOMAIN items : items[m].action # "conflict"
    BY DEF TransferInv, PlanFits, CanApply
  <2>2. n \in DOMAIN archive /\ archive[n] = [at |-> moment[n].at, data |-> moment[n].data]
    <3>1. n \in Names
      BY DEF Sessions
    <3> QED
      BY <2>1, <3>1, PublishedFits DEF PublishedIsAMoment
  <2>3. bundle = Published
    BY <2>1 DEF SourceFits
  <2>4. /\ bundle.tool = tool /\ n \in DOMAIN bundle.sessions
        /\ bundle.sessions[n].at = moment[n].at /\ bundle.sessions[n].data = moment[n].data
    BY <2>2, <2>3 DEF Published
  <2>5. n \in DOMAIN items /\ Place(n) = <<moment[n].at, Landing[n]>>
    BY <2>1, <2>4 DEF Entries, Place
  <2>7. \A m \in DOMAIN items \ {n} : Place(m) # Place(n)
    BY <2>1, <2>5 DEF Collide
  <2>6. Incoming(n) = Mapped(tool, moment[n].data, "source", "target")
    BY <2>4 DEF Incoming
  <2> QED
    BY <2>1, <2>4, <2>5, <2>6, <2>7, RestoredExtends
<1> QED
  BY <1>1, TransferInvariant, PTL

\* Of two files, the one that extends the other is not begun by it, unless they are
\* the same record by record.
LEMMA ReferenceOfExtension ==
  ASSUME NEW x \in Seq(Record), NEW y \in Seq(Record), IsPrefixOf(Canon(y), Canon(x))
  PROVE  /\ Reference(x, y) \in {"skip-identical", "update"}
         /\ Reference(y, x) \in {"skip-identical", "skip-ahead"}
<1>1. IsPrefixOf(Canon(x), Canon(y)) => Canon(x) = Canon(y)
  BY PrefixBothWays
<1>2. CASE Canon(x) = Canon(y)
  BY <1>2 DEF Reference
<1>3. CASE Canon(x) # Canon(y)
  BY <1>1, <1>3 DEF Reference
<1> QED
  BY <1>2, <1>3

\* A file that an update leaves and the one that came differ in the spelling of
\* records both have, but not at the end.
LEMMA UpdatedAgrees ==
  ASSUME NEW x \in Seq(Record), NEW y \in Seq(Record), NEW after, Extends(x, y, after),
         IsPrefixOf(Canon(x), Canon(after))
  PROVE  PlanMerge(x, after) = "skip-ahead" /\ PlanMerge(after, x) = "skip-ahead"
<1>1. /\ after \in Seq(Record) /\ Len(after) = Len(x) /\ Len(x) \in Nat /\ Len(y) \in Nat
      /\ Len(x) > 0 /\ after[Len(x)] = x[Len(x)]
  BY DEF Extends
<1>2. BytePrefix(after, x) \/ BytePrefix(x, after) => after = x
  <2>1. ASSUME BytePrefix(after, x) \/ BytePrefix(x, after) PROVE after = x
    <3>1. x # <<>> /\ after # <<>>
      BY <1>1
    <3>2. \A i \in 1..(Len(x) - 1) : after[i] = x[i]
      BY <1>1, <2>1, <3>1 DEF BytePrefix
    <3>3. \A i \in 1..Len(x) : after[i] = x[i]
      BY <1>1, <3>2
    <3> QED
      BY <1>1, <3>3
  <2> QED
    BY <2>1
<1>3. IsPrefixOf(Canon(after), Canon(x))
  <2>1. Len(x) <= Len(after) /\ \A i \in 1..Len(x) : CanonOf[x[i].text] = CanonOf[after[i].text]
    BY <1>1, PrefixByRecords DEF File
  <2>2. Len(after) <= Len(x) /\ \A i \in 1..Len(after) : CanonOf[after[i].text] = CanonOf[x[i].text]
    BY <1>1, <2>1
  <2> QED
    BY <1>1, <2>2, PrefixByRecords DEF File
<1> QED
  BY <1>2, <1>3 DEF PlanMerge

\* Whatever the records are, a session that PlanStreaming leaves here goes back to its
\* source without a conflict, for mergeStreams and planMerge alike.
THEOREM DevicesConverge == TransferSpec => []Converges
<1>1. TransferInv => Converges
  <2> SUFFICES ASSUME TransferInv, verdict = "ready", NEW n \in DOMAIN bundle.sessions,
                      items[n].action # "conflict",
                      \A i \in Naming(bundle.sessions[n].data) :
                        CwdIn[bundle.sessions[n].data[i].text] \in {"source", "elsewhere"}
               PROVE  /\ Reference(Mapped(bundle.tool, items[n].after, "target", "source"), bundle.sessions[n].data)
                           \in {"skip-identical", "update"}
                      /\ Reference(Incoming(n), items[n].after) \in {"skip-identical", "skip-ahead"}
                      /\ items[n].action = "update" =>
                           /\ PlanMerge(Incoming(n), items[n].after) = "skip-ahead"
                           /\ PlanMerge(items[n].after, Incoming(n)) = "skip-ahead"
    BY DEF Converges
  <2> DEFINE data == bundle.sessions[n].data
             after == items[n].after
             came == Incoming(n)
             back == Mapped(bundle.tool, after, "target", "source")
  <2>1. /\ data \in Seq(Record) /\ came \in Seq(Record) /\ after \in Seq(Record)
        /\ IsPrefixOf(Canon(came), Canon(after))
    BY RestoredExtends
  <2>2. came = Mapped(bundle.tool, data, "source", "target")
    BY DEF Incoming
  <2>3. \A i \in Naming(data) : CwdIn[data[i].text] \in {"source", "elsewhere"}
    OBVIOUS
  <2> HIDE DEF data, after, came
  <2>4. back \in Seq(Record)
    BY <2>1, MappedFacts DEF Cwds
  <2>5. IsPrefixOf(Canon(data), Canon(back))
    BY <2>1, <2>2, <2>3, ThereAndBack
  <2> HIDE DEF back
  <2>6. Reference(back, data) \in {"skip-identical", "update"}
    BY <2>1, <2>4, <2>5, ReferenceOfExtension
  <2>7. Reference(came, after) \in {"skip-identical", "skip-ahead"}
    BY <2>1, ReferenceOfExtension
  <2>8. ASSUME items[n].action = "update"
        PROVE  PlanMerge(came, after) = "skip-ahead" /\ PlanMerge(after, came) = "skip-ahead"
    <3>1. HomeFits /\ n \in DOMAIN items /\ PlannedWell(n)
      BY DEF TransferInv, PlanFits, Entries
    <3>2. Place(n) \in DOMAIN home /\ Extends(came, home[Place(n)], after)
      BY <2>8, <3>1 DEF PlannedWell, came, after
    <3>3. home[Place(n)] \in Seq(Record)
      BY <3>1, <3>2 DEF HomeFits, Readable
    <3> QED
      BY <2>1, <3>2, <3>3, UpdatedAgrees
  <2> QED
    BY <2>6, <2>7, <2>8 DEF data, after, came, back
<1> QED
  BY <1>1, TransferInvariant, PTL
=============================================================================
