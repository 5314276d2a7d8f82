----------------------------- MODULE MCLockTiming -----------------------------
(***************************************************************************)
(* Instances of LockTiming for TLC, in units of 20 seconds: a TTL of two   *)
(* minutes and, as in config/default.yaml, a tick every minute.            *)
(***************************************************************************)
EXTENDS LockTiming

CONSTANTS t1, t2, t3, t4
=============================================================================
