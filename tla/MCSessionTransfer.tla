-------------------------- MODULE MCSessionTransfer --------------------------
(* One session of each kind at the source, with a memory file and a result, and *)
(* a transcript of another folder with a result of its own (7, 8); at the target *)
(* nothing, an older copy, a longer one or another.  Earlier         *)
(* snapshots put every file of up to three records against every other: a      *)
(* record two machines write differently, one that was cut off, the two        *)
(* directories, and ends without a terminator.                                  *)
EXTENDS SessionTransfer, TLC

CONSTANTS ms, mr, mt, mo, a1, a2, acut, b1

MCCanonOf == [x \in Texts |-> IF x = a2 THEN a1 ELSE x]
MCCut == {<<acut, a1>>}
MCCwdIn == [x \in Texts |->
  CASE x = ms -> "source" [] x = mr -> "respelled" [] x = mt -> "target" [] x = mo -> "elsewhere" [] OTHER -> "none"]
MCWithCwd == [p \in Texts \X Cwds |->
  IF MCCwdIn[p[1]] = "none" THEN p[1]
  ELSE CASE p[2] = "source" -> ms [] p[2] = "respelled" -> mr [] p[2] = "target" -> mt [] p[2] = "elsewhere" -> mo]

Line(x) == [text |-> x, nl |-> TRUE]
Lines(s) == [i \in 1..Len(s) |-> Line(s[i])]
File(s, nl) == [i \in 1..Len(s) |-> [text |-> s[i], nl |-> i < Len(s) \/ nl]]

\* 9 is a transcript of another folder with the name of 3.  10 differs from the memory
\* file 5 in case, 11 has a name of one system, 12 reads as a session.
MCKindOf == <<"rollout", "packed", "transcript", "child", "note", "result",
              "transcript", "result", "transcript", "note", "note", "note">>
MCParentOf == <<1, 2, 3, 3, 5, 3, 7, 7, 9, 10, 11, 12>>
MCOwnFolder == Names \ {7, 8, 9}
MCLanding == [n \in Names |-> IF n = 9 THEN 3 ELSE n]
MCFolded == [n \in Names |-> IF n = 10 THEN 5 ELSE n]
MCPortable == Names \ {11}

\* A rollout of the name 2 lies deeper than others, when it is not archived.
MCImportable == ({"sessions"} \X {1, 3, 4, 7, 9, 12}) \cup ({"archived"} \X {1, 2})

At(place, s) == [at |-> place, data |-> Lines(s)]
Absent == [at |-> "none", data |-> <<>>]

Home(s) == [n \in Names |-> IF n <= Len(s) THEN s[n] ELSE Absent]

CodexHomes ==
  {Home(<<one, two>>) :
     one \in {At("sessions", <<ms>>), At("archived", <<mt, ms>>), At("sessions", <<mr>>)},
     two \in {Absent, At("archived", <<ms>>)}}

ClaudeHomes ==
  {Home(<<Absent, Absent, three, four, five, six>>) :
     three \in {At("sessions", <<ms>>)},
     four \in {Absent, At("sessions", <<a1>>)},
     five \in {Absent, At("sessions", <<b1>>)},
     six \in {Absent, At("sessions", <<b1>>)}}
    \cup {Home(<<Absent, Absent, At("sessions", <<mo>>), At("sessions", child)>>) :
            child \in {<<a1>>, <<ms>>}}

\* A transcript in the project's folder, and one in another with a result.
TwoFolders ==
  [Home(<<Absent, Absent, At("sessions", <<ms>>)>>)
     EXCEPT ![7] = At("sessions", <<ms>>), ![8] = At("sessions", <<b1>>)]

\* What an export takes and a preview does not.
Unrestorable ==
  {[Home(<<Absent, Absent, At("sessions", <<ms>>)>>)
      EXCEPT ![n] = At("sessions", <<ms>>), ![5] = IF n = 10 THEN At("sessions", <<b1>>) ELSE Absent] :
     n \in {9, 10, 11, 12}}

NoHome == [n \in Names |-> Absent]

MCHomes == [x \in {"codex", "claude"} |-> {NoHome} \cup 
  (IF x = "codex" THEN CodexHomes ELSE ClaudeHomes \cup {TwoFolders} \cup Unrestorable)]

MCFresh == [n \in Names |->
  CASE n \in {1, 2, 3} -> {Lines(<<ms>>)} [] n = 4 -> {Lines(<<a1>>)}
    [] n \in {5, 6} -> {Lines(<<b1>>)} [] OTHER -> {}]

\* A session grows by a record, or by the first half of one.
MCGrows(d) ==
  IF Len(d) \in 1..(MaxLength - 1) /\ d[Len(d)].nl
  THEN {Append(d, Line(a1)), Append(d, [text |-> acut, nl |-> FALSE])} ELSE {}

MCTargetHomes == [x \in {"codex", "claude"} |->
  IF x = "codex"
  THEN {NoFiles, (<<"sessions", 1>> :> Lines(<<mt, a2>>)), (<<"archived", 1>> :> Lines(<<mt, b1>>))}
  ELSE {NoFiles, (<<"sessions", 3>> :> Lines(<<mt>>)) @@ (<<"sessions", 5>> :> Lines(<<b1>>)) @@ (<<"sessions", 6>> :> Lines(<<a1>>))}]

Short(texts) == {File(s, nl) : s \in UNION {[1..k -> texts] : k \in 1..MaxLength}, nl \in BOOLEAN}

Session(place, packed, agent, data) ==
  [at |-> place, data |-> data, cwd |-> Recorded(agent, data), packed |-> packed]

Heres == {NoFiles} \cup {<<"sessions", 1>> :> f : f \in {<<>>} \cup Short({mt, a1, a2, acut, b1})}

\* An archive of sessions and a memory file of a line, as it was registered.
Bundle(agent, sessions, notes) ==
  [NoBundle EXCEPT !.tool = agent, !.sessions = sessions,
     !.notes = [n \in DOMAIN notes |-> [size |-> 1, data |-> notes[n]]],
     !.sums = [n \in DOMAIN sessions |-> sessions[n].data] @@ notes]

\* The snapshot of one session, and that session here.
Previewed ==
  {[bundle |-> Bundle(p[1], 1 :> Session("sessions", FALSE, p[1], p[2]), NoFiles),
    home   |-> p[3], options |-> NoImport] :
     p \in {q \in {"codex", "claude"} \X Short({ms, mt, a1, acut}) \X Heres :
              Recorded(q[1], q[2]) = "source"}}

\* One that was continued in another directory, or came back from here.
Wandered ==
  {[bundle |-> Bundle(p[1], 1 :> Session("sessions", FALSE, p[1], p[2]), NoFiles),
    home   |-> p[3], options |-> NoImport] :
     p \in {q \in {"codex", "claude"}
                    \X {Lines(s) : s \in {<<ms, mo>>, <<ms, mo, ms>>, <<ms, a1, mo>>, <<ms, mt, mo>>}}
                    \X ({NoFiles} \cup {<<"sessions", 1>> :> f : f \in Short({mt, mo, a2})}) :
              Recorded(q[1], q[2]) = "source"}}

\* Imports of a session, an archived one and a memory file, under each combination
\* of the options that change what is here.
Plain == [merge |-> TRUE, clash |-> "keep", mapped |-> TRUE, undo |-> FALSE,
          others |-> TRUE, filter |-> "none", zstd |-> TRUE, dry |-> FALSE]

SomeOptions ==
  {[Plain EXCEPT !.merge = m, !.clash = c, !.mapped = p, !.undo = u] :
     m \in BOOLEAN, c \in {"keep", "replace", "copy"}, p \in BOOLEAN, u \in BOOLEAN}
    \cup {[Plain EXCEPT !.dry = TRUE], [Plain EXCEPT !.others = FALSE],
          [Plain EXCEPT !.filter = "text"], [Plain EXCEPT !.filter = "other"],
          [Plain EXCEPT !.zstd = FALSE, !.clash = "replace"]}

Imported ==
  {[bundle |-> Bundle(agent, 1 :> Session("sessions", packed, agent, File(<<ms>> \o x, nl)),
                      IF agent = "claude" THEN 5 :> Lines(<<b1>>) ELSE NoFiles),
    home   |-> (<<"sessions", 1>> :> Lines(<<mt>> \o y)) @@ memory, options |-> o] :
     agent \in {"codex", "claude"}, packed \in BOOLEAN, nl \in BOOLEAN, x \in {<<a1>>, <<acut>>},
     y \in {<<>>, <<a2>>, <<b1>>}, memory \in {NoFiles, (<<"sessions", 5>> :> Lines(<<a1>>))},
     o \in SomeOptions}

ArchivedImported ==
  {[bundle |-> Bundle("codex", (1 :> Session("sessions", FALSE, "codex", Lines(<<ms, a1>>)))
                            @@ (2 :> Session("archived", packed, "codex", Lines(<<ms>>))), NoFiles),
    home   |-> (<<"archived", 2>> :> Lines(<<mt, b1>>)) @@ (<<"sessions", 1>> :> Lines(<<mt, b1>>)), options |-> o] :
     o \in SomeOptions, packed \in BOOLEAN}

\* Transcripts of two folders that have one destination if they are mapped.
TwoImported ==
  {[bundle |-> Bundle("claude", (3 :> Session("sessions", FALSE, "claude", x))
                             @@ (9 :> Session("sessions", FALSE, "claude", y)), NoFiles),
    home   |-> (<<"sessions", 3>> :> Lines(<<mt, b1>>)), options |-> o] :
     x \in {Lines(<<ms, a1>>), Lines(<<ms, b1, a1>>)}, y \in {Lines(<<ms, b1, a2>>), Lines(<<ms>>)},
     o \in SomeOptions}

\* A byte of the memory file is not what it was.
Damaged ==
  {[bundle |-> [Bundle("claude", 1 :> Session("sessions", FALSE, "claude", Lines(<<ms>>)), 5 :> Lines(<<b1>>))
                  EXCEPT !.notes[5].data = Lines(<<a1>>)],
    home |-> NoFiles, options |-> Plain]}

Imports ==
  {e \in Imported : IF e.bundle.tool = "codex" THEN <<"sessions", 5>> \notin DOMAIN e.home
                    ELSE ~e.bundle.sessions[1].packed}

MCEarlier == <<Previewed, Wandered, Imports, ArchivedImported, TwoImported, Damaged>>

MCSpare == {Line(b1)}
=============================================================================
