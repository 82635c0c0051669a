------------------------------ MODULE MCTurnSlot ------------------------------
(* Small instances of TurnSlot for TLC.                                    *)
EXTENDS TurnSlot, TLC

\* Turns are interchangeable (used by runs without liveness).
Symmetry == Permutations(Turn) 
=============================================================================
