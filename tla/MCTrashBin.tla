---------------------------- MODULE MCTrashBin ----------------------------
EXTENDS TrashBin
===========================================================================
