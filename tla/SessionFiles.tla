---------------------------- MODULE SessionFiles ----------------------------
(***************************************************************************)
(* The session files that travel between two devices, and what the code    *)
(* reads out of them: the working directory they were recorded in          *)
(* (internal/sessions/parse.go, internal/claudesessions/parse.go), the     *)
(* rewriting of that directory for another device (bundle/mapcwd.go,       *)
(* bundle/claude_rewrite.go) and the comparison of two files               *)
(* (bundle/mergesync.go).                                                  *)
(*                                                                         *)
(* A record is a line of a file: its text and its terminator, which only   *)
(* the last line may lack.  CanonOf is canonicalJSONLLine: two texts with  *)
(* one canonical form are the same record written by two machines.         *)
(***************************************************************************)
EXTENDS Naturals, Sequences

CONSTANTS
  Texts,        \* lines without their terminators
  CanonOf,      \* the canonical form of each
  Cut,          \* pairs of texts, the first a proper byte prefix of the second
  Broken,       \* the texts that are not JSON
  Prompts,      \* the texts that are a message of the user
  CwdIn,        \* the working directory a text records, or "none"
  WithCwd,      \* the text, for each text and directory, that records the latter
  MaxLength     \* bound on the records of a file

\* The project's directory at the source, as the project spells it and as a
\* session may (pathEqual: another case on Windows), that of the target, and any
\* other.
Cwds == {"source", "respelled", "target", "elsewhere"}

ASSUME FilesAssumption ==
  /\ DOMAIN CanonOf = Texts
  /\ Cut \subseteq Texts \X Texts
  /\ \A c \in Cut : c[1] # c[2]
  /\ Broken \subseteq Texts /\ Prompts \subseteq Texts
  /\ CwdIn \in [Texts -> Cwds \cup {"none"}]
  /\ WithCwd \in [Texts \X Cwds -> Texts]
  /\ MaxLength \in Nat

\* A record names the directory it was rewritten for, if it names any, and comes
\* back as it was; one record written by two machines stays one.
ASSUME RewritingAssumption ==
  /\ \A t \in Texts, c \in Cwds : CwdIn[WithCwd[<<t, c>>]] = IF CwdIn[t] = "none" THEN "none" ELSE c
  /\ \A t \in Texts, c \in Cwds : CwdIn[t] # "none" =>
       CanonOf[WithCwd[<<WithCwd[<<t, c>>], CwdIn[t]>>]] = CanonOf[t]
  /\ \A t, u \in Texts, c \in Cwds : CanonOf[t] = CanonOf[u] =>
       CwdIn[t] = CwdIn[u] /\ CanonOf[WithCwd[<<t, c>>]] = CanonOf[WithCwd[<<u, c>>]]

Record == [text : Texts, nl : BOOLEAN]

Terminated(r) == [r EXCEPT !.nl = TRUE]

NoFiles == [n \in {} |-> <<>>]

\* A function changed or extended at one argument.
With(f, x, v) == [y \in DOMAIN f \cup {x} |-> IF y = x THEN v ELSE f[y]]

\* Only the last record of a file may be unterminated.
WellFormed(file) == \A i \in 1..Len(file) : i < Len(file) => file[i].nl

Files ==
  UNION {{file \in [1..k -> Record] : WellFormed(file)} : k \in 0..MaxLength}

-----------------------------------------------------------------------------
(* The working directory of a session. *)

SamePath(c, d) == c = d \/ (c \in {"source", "respelled"} /\ d \in {"source", "respelled"})

\* The records that name a directory: in a rollout the session_meta records.
Naming(file) == {i \in 1..Len(file) : CwdIn[file[i].text] # "none"}

\* A rollout is read until a session_meta and a message of the user have been
\* seen; the last session_meta read counts.
RolloutCwd(file) ==
  LET read == {i \in Naming(file) :
                 ~\E j, k \in 1..(i - 1) : file[j].text \in Prompts /\ k \in Naming(file)}
  IN IF read = {} THEN "none"
     ELSE CwdIn[file[CHOOSE i \in read : \A j \in read : j <= i].text]

\* In a transcript the first record with a directory counts.
TranscriptCwd(file) ==
  LET read == Naming(file)
  IN IF read = {} THEN "none"
     ELSE CwdIn[file[CHOOSE i \in read : \A j \in read : i <= j].text]

Recorded(tool, file) == IF tool = "codex" THEN RolloutCwd(file) ELSE TranscriptCwd(file)

Renamed(r, to) == [r EXCEPT !.text = WithCwd[<<@, to>>]]

\* Slip: the first line is taken for the session_meta.
MappedFirstLine(file, from, to) ==
  [i \in 1..Len(file) |->
     IF i = 1 /\ SamePath(CwdIn[file[i].text], from) THEN Renamed(file[i], to) ELSE file[i]]

\* Of a rollout the first session_meta alone is rewritten, where it names the old
\* directory.
MappedRollout(file, from, to) ==
  [i \in 1..Len(file) |->
     IF SamePath(CwdIn[file[i].text], from) /\ \A j \in Naming(file) : i <= j
     THEN Renamed(file[i], to) ELSE file[i]]

\* Of a transcript every record that names the old directory is.
MappedTranscript(file, from, to) ==
  [i \in 1..Len(file) |->
     IF SamePath(CwdIn[file[i].text], from) THEN Renamed(file[i], to) ELSE file[i]]

Mapped(tool, file, from, to) ==
  IF tool = "codex" THEN MappedRollout(file, from, to) ELSE MappedTranscript(file, from, to)

Unbroken(file) == \A i \in 1..Len(file) : file[i].text \notin Broken

-----------------------------------------------------------------------------
(* The comparison of two files. *)

SameRecord(x, y) == CanonOf[x.text] = CanonOf[y.text]

\* The records of a file, whoever wrote them down.
Canon(file) == [i \in 1..Len(file) |-> CanonOf[file[i].text]]

IsPrefixOf(s, t) == Len(s) <= Len(t) /\ \A i \in 1..Len(s) : s[i] = t[i]

\* What restoring a session means for its records.
Reference(x, y) ==
  CASE Canon(x) = Canon(y) -> "skip-identical"
    [] Canon(x) # Canon(y) /\ IsPrefixOf(Canon(x), Canon(y)) -> "skip-ahead"
    [] Canon(x) # Canon(y) /\ IsPrefixOf(Canon(y), Canon(x)) -> "update"
    [] OTHER -> "conflict"

\* Whether the bytes of file x begin those of file y: all but the last of its
\* records are equal, and the last breaks off anywhere.
BytePrefix(x, y) ==
  x # <<>> =>
    /\ Len(x) <= Len(y)
    /\ \A i \in 1..(Len(x) - 1) : x[i] = y[i]
    /\ LET a == x[Len(x)]
           b == y[Len(x)]
       IN a = b \/ (~a.nl /\ (a.text = b.text \/ <<a.text, b.text>> \in Cut))

\* planMerge: by byte prefix, then record by record; its "equal" skips as ahead.
PlanMerge(x, y) ==
  CASE x = y -> "skip-ahead"
    [] x # y /\ BytePrefix(y, x) -> "update"
    [] x # y /\ ~BytePrefix(y, x) /\ BytePrefix(x, y) -> "skip-ahead"
    [] OTHER -> IF IsPrefixOf(Canon(x), Canon(y)) THEN "skip-ahead"
                ELSE IF IsPrefixOf(Canon(y), Canon(x)) THEN "update" ELSE "conflict"

\* One file breaks off within a record of the other.
Torn(x, y) ==
  /\ x # <<>> /\ Len(x) <= Len(y) /\ BytePrefix(x, y)
  /\ ~SameRecord(x[Len(x)], y[Len(x)])

\* Slip: an unterminated local record is not terminated before the next one.
TerminateNever(file) == file

\* A record is appended on a line of its own.
Terminate(file) ==
  IF file # <<>> THEN [file EXCEPT ![Len(file)] = Terminated(@)] ELSE file
=============================================================================
