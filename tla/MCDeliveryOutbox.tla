--------------------------- MODULE MCDeliveryOutbox ---------------------------
(* Small instances of DeliveryOutbox for TLC.                              *)
EXTENDS DeliveryOutbox, TLC

\* Lease ids and workers are interchangeable (used by runs without liveness).
Symmetry == Permutations(Lease) \cup Permutations(Worker)
=============================================================================
