---------------------------- MODULE MCWorkLease ----------------------------
(* WorkLease for TLC: 90 s, 15 s and 5 s scaled down so that two heartbeats  *)
(* fit into a lease and a renewal takes less time than a heartbeat.          *)
EXTENDS WorkLease

LeaseDuration == 4
Heartbeat == 2
Timeout == 1
=============================================================================
