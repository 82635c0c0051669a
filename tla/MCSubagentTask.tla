---------------------------- MODULE MCSubagentTask ----------------------------
(* Small instances of SubagentTask for TLC.                                *)
EXTENDS SubagentTask, TLC
=============================================================================
