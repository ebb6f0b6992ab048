------------------------- MODULE MCProjectMappings -------------------------
(* One project in client.json, two roots, two folders whose names differ in the *)
(* case of a letter and one more.                                               *)
EXTENDS ProjectMappings, TLC

CONSTANTS r1, r2, f, g, upperF, home, app

MCFold == [x \in Folders |-> IF x = upperF THEN f ELSE x]
MCConfigured == {[key |-> app, path |-> home]}
=============================================================================
