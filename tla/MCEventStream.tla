---------------------------- MODULE MCEventStream ----------------------------
(* A client that follows one of two sessions. *)
EXTENDS EventStream
CONSTANTS a, b
MCFilter == [c \in Client |-> {a}]
=============================================================================
