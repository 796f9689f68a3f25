--------------------------- MODULE MCArtifactStore ---------------------------
(***************************************************************************)
(* A command line and a server publish one artifact; the server sweeps.     *)
(***************************************************************************)
EXTENDS ArtifactStore, TLC

CONSTANTS cli, server, put1, put2, sweep1, report, draft, letter, text, other

MCProcOf == put1 :> cli @@ put2 :> server @@ sweep1 :> server
\* report and draft differ in their metadata only
MCBytesOf == report :> text @@ draft :> text @@ letter :> other
Alike == Permutations({report, draft})
=============================================================================
