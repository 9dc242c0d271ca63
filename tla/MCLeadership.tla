--------------------------- MODULE MCLeadership ---------------------------
EXTENDS Leadership
B == [f \in FaultKinds |-> 1]
=============================================================================
