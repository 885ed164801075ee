----------------------------- MODULE MCSyncRun -----------------------------
(* Instances of SyncRun for TLC: the web process and a CLI run. *)
EXTENDS SyncRun

CONSTANTS web, cli

OneProc  == {web}
TwoProcs == {web, cli}
=============================================================================
