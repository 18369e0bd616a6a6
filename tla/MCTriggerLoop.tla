--------------------------- MODULE MCTriggerLoop ----------------------------
EXTENDS TriggerLoop

CONSTANTS a, b, c   \* requests; c names a unit the daemon does not manage

=============================================================================
