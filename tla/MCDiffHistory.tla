--------------------------- MODULE MCDiffHistory ----------------------------
EXTENDS DiffHistory
=============================================================================
