---------------------------- MODULE MCRuntimeHost ----------------------------
(***************************************************************************)
(* Two or three hosts for TLC; host3 comes back under the pid of host1.    *)
(***************************************************************************)
EXTENDS RuntimeHost, TLC

CONSTANTS host1, host2, host3, pid1, pid2

MCHosts == {host1, host2, host3}
MCTwoHosts == {host1, host2}
MCPidOf == host1 :> pid1 @@ host2 :> pid2 @@ host3 :> pid1
=============================================================================
