---------------------------- MODULE MCConnections ----------------------------
EXTENDS Connections

Scopes == Permutations(Scope)
CallBounds == [k \in Kinds |-> 3]
DayBounds == [k \in Kinds |-> IF k = "wallet-client" THEN 2 ELSE 1]
=============================================================================
