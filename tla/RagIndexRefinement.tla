------------------------- MODULE RagIndexRefinement -------------------------
(***************************************************************************)
(* The coordinator with its callers implements IndexLock.  The coordinator *)
(* counts its writers and knows none of them: who holds a lease is seen    *)
(* from where the writers stand, so a count that is wrong by one lets a    *)
(* migration in among them, or none ever again.                            *)
(***************************************************************************)
EXTENDS RagIndex

Lock == INSTANCE IndexLock
          WITH writing <- Holders, migrating <- lock.migration,
               waiting <- lock.writerWaiters, queue <- lock.migrationWaiters

\* Whatever the callers do, fail to do or delete past it, the coordinator gives its leases as
\* IndexLock promises: a release serves the migration that waits before the writers that came
\* after it, and never leaves somebody waiting for nobody.
ImplementsIndexLock == Lock!Spec
=============================================================================
