---------------------------- MODULE MCRestoreTxn ----------------------------
(* Small instances of RestoreTxn for TLC. *)
EXTENDS RestoreTxn, TLC

CONSTANTS session, tool, p1, p2, r1, r2

\* One record, and two ways of going on from it.
MCContents == {<<1>>, <<1, 2>>, <<1, 3>>}
MCFiles == {session, tool}
MCExtras == {tool}

\* A snapshot of a session that has grown with its tool result, and one of the
\* session alone that has grown the other way.
MCBundles == {(session :> <<1, 2>>) @@ (tool :> <<1>>), session :> <<1, 3>>}

\* One session restored twice: first created, then grown.
MCOneFile == {session}
MCNoExtras == {}
MCTwoContents == {<<1>>, <<1, 2>>}
MCGrowing == {session :> <<1>>, session :> <<1, 2>>}

\* A snapshot of a session and its tool result, and one of the session grown.
MCPair == {(session :> <<1>>) @@ (tool :> <<1>>), session :> <<1, 2>>}

MCSymmetry == Permutations({p1, p2}) \cup Permutations({r1, r2})
=============================================================================
