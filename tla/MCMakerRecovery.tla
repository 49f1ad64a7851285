--------------------------- MODULE MCMakerRecovery ---------------------------
EXTENDS MakerRecovery
=============================================================================
