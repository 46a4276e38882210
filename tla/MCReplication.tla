--------------------------- MODULE MCReplication ---------------------------
EXTENDS Replication

CONSTANTS A, B, a1, b1, b2

MCHome == [w \in Writers |-> IF w = a1 THEN A ELSE B]
MCOps == [w \in Writers |-> CASE w = a1 -> {"cascade"} [] w = b1 -> {"set"} [] w = b2 -> {"patch", "foreign"}]
MCSets == [w \in Writers |-> {"set"}]
=============================================================================
