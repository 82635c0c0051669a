------------------------------ MODULE MCTurnLoop ------------------------------
EXTENDS TurnLoop
=============================================================================
