---------------------------- MODULE MCTakerSwap ----------------------------
EXTENDS TakerSwap
=============================================================================
