----------------------------- MODULE MCSyncCycle -----------------------------
(* Small instances of the sync cycle: two producers in registration order.  *)
EXTENDS SyncCycle

CONSTANTS Tasks, Usage    \* codex.tasks, and a producer that never drops

MCProducers == {Tasks, Usage}
MCRank == [p \in MCProducers |-> IF p = Tasks THEN 1 ELSE 2]
MCSources == [p \in MCProducers |-> 1]

=============================================================================
