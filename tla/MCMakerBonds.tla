---------------------------- MODULE MCMakerBonds ----------------------------
EXTENDS MakerBonds
=============================================================================
