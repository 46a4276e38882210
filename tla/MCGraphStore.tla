---------------------------- MODULE MCGraphStore ----------------------------
EXTENDS GraphStore

CONSTANTS x, y

MCObjects == {[a |-> 1], [b |-> 1]}
MCEnds == {<<x, y>>, <<x, x>>}
=============================================================================
