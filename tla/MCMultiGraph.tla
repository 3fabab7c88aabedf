---------------------------- MODULE MCMultiGraph ----------------------------
EXTENDS MultiGraph
=============================================================================
