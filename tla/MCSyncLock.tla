----------------------------- MODULE MCSyncLock -----------------------------
(* Instances of SyncLock for TLC: the web process and a CLI run. *)
EXTENDS SyncLock

CONSTANTS web, cli

TwoProcs == {web, cli}
=============================================================================
