---------------------------- MODULE MCSubagentInbox ---------------------------
(* Small instances of SubagentInbox for TLC.                               *)
EXTENDS SubagentInbox, TLC
=============================================================================
