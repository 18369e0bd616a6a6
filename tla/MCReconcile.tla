---------------------------- MODULE MCReconcile -----------------------------
EXTENDS Reconcile

CONSTANTS low, high   \* two units, high first in the configured order

MCUnits == {low, high}
MCRank == [u \in MCUnits |-> IF u = high THEN 0 ELSE 1]

\* Both units yield to a game; high's work displaces low.
MCPriority == [u \in MCUnits |-> IF u = high THEN 60 ELSE 50]

\* high is placed above the games.
MCPriorityAbove == [u \in MCUnits |-> IF u = high THEN 110 ELSE 50]

=============================================================================
