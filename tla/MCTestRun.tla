------------------------------ MODULE MCTestRun ------------------------------
EXTENDS TestRun, TLC

\* The first run has a runner only, the second both ways of execution.
MCPlaylist == 1 :> {"kali"} @@ 2 :> {"kali", "tools"}
=============================================================================
