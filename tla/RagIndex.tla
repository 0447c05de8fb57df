------------------------------ MODULE RagIndex ------------------------------
(***************************************************************************)
(* The vector index of the knowledge base and of the memories, and the     *)
(* migration of it to another embedding profile.  Writers (RagService,     *)
(* MemoryVectorIndex) share the index; activateRagConnection and           *)
(* retryActiveRagIndexRebuild migrate it alone.  RagIndexCoordinator keeps *)
(* the two apart.  A chunk is known by the profile its vector belongs to.  *)
(***************************************************************************)
EXTENDS Integers, FiniteSets, Sequences

CONSTANTS
    Writers,    \* the concurrent calls that index or remove documents
    Admins,     \* the concurrent calls that activate a connection or retry a rebuild
    Chunks,     \* the rows of chunk_embeddings
    Owners,     \* the agents that own them
    OwnerOf,    \* [Chunks -> Owners]
    Profiles,   \* embedding profile ids
    BatchSize,  \* REBUILD_CHECKPOINT_BATCH_SIZE
    None        \* no profile (the row is absent), no holder

ASSUME ProcessAssumption ==
    /\ IsFiniteSet(Writers)
    /\ None \notin Admins /\ None \notin Profiles
ASSUME DataAssumption ==
    /\ IsFiniteSet(Chunks) /\ OwnerOf \in [Chunks -> Owners]
    /\ BatchSize \in Nat \ {0}

VARIABLES
    lock,       \* the fields of RagIndexCoordinator
    index,      \* the profile of each row of chunk_embeddings
    profile,    \* getActiveEmbeddingProfileId(): the settings, which persist
    writer,     \* the calls that write: where they stand, their route and rows
    admin,      \* the calls that migrate: where they stand, their route and work
    activating, \* activationInProgress
    rebuilding, \* RagIndexRebuildService.rebuildInProgress
    outcome     \* what the settings panel was told last

vars == <<lock, index, profile, writer, admin, activating, rebuilding, outcome>>

-----------------------------------------------------------------------------
(***************************************************************************)
(* RagIndexCoordinator.  A promise it has not resolved is a waiter.        *)
(***************************************************************************)
FreeLock == [writers |-> 0, migration |-> None, writerWaiters |-> {},
             migrationWaiters |-> << >>]

\* Mutant of AcquireWriter.
EntersBeforeWaiters(l, w) ==
    IF l.migration = None THEN [l EXCEPT !.writers = @ + 1]
                          ELSE [l EXCEPT !.writerWaiters = @ \cup {w}]
AcquireWriter(l, w) ==
    IF l.migration = None /\ l.migrationWaiters = << >>
      THEN [l EXCEPT !.writers = @ + 1]
      ELSE [l EXCEPT !.writerWaiters = @ \cup {w}]

\* Mutant of AcquireMigration.
EntersAmongWriters(l, a) ==
    IF l.migration = None
      THEN [l EXCEPT !.migration = a]
      ELSE [l EXCEPT !.migrationWaiters = Append(@, a)]
AcquireMigration(l, a) ==
    IF l.migration = None /\ l.writers = 0
      THEN [l EXCEPT !.migration = a]
      ELSE [l EXCEPT !.migrationWaiters = Append(@, a)]

DrainWaiters(l) ==
    IF l.migration # None THEN l
    ELSE IF l.writers = 0 /\ l.migrationWaiters # << >>
      THEN [l EXCEPT !.migration = Head(l.migrationWaiters), !.migrationWaiters = Tail(@)]
    ELSE IF l.migrationWaiters = << >> /\ l.writerWaiters # {}
      THEN [l EXCEPT !.writers = @ + Cardinality(l.writerWaiters), !.writerWaiters = {}]
    ELSE l

ReleaseWriter(l) == DrainWaiters([l EXCEPT !.writers = IF @ > 0 THEN @ - 1 ELSE 0])
ReleaseMigration(l, a) ==
    DrainWaiters([l EXCEPT !.migration = IF @ = a THEN None ELSE @])

-----------------------------------------------------------------------------
(***************************************************************************)
(* The writers: "add" is RagService.indexDocument and indexFact, "replace" *)
(* indexSummary, "remove" the deletions.                                   *)
(***************************************************************************)
Jobs == {"add", "replace", "remove"}
IdleWriter == [at |-> "idle", job |-> "remove", route |-> None, rows |-> {}]

Granted(w) == writer[w].at = "acquiring" /\ w \notin lock.writerWaiters
Inside(w) == writer[w].at \in {"encoding", "removing", "storing"}
Holds(w) == Granted(w) \/ Inside(w)
Holders == {w \in Writers : Holds(w)}

WriterOnly == UNCHANGED <<profile, admin, activating, rebuilding, outcome>>

AskToWrite(w, job, rows) ==
    /\ writer[w].at = "idle"
    /\ writer' = [writer EXCEPT ![w] = [at |-> "acquiring", job |-> job,
                                        route |-> None, rows |-> rows]]
    /\ lock' = AcquireWriter(lock, w)
    /\ UNCHANGED index /\ WriterOnly

\* The lease is there: the route is resolved under it.
BeginWriting(w) ==
    /\ Granted(w)
    /\ writer' = IF writer[w].job = "remove"
                   THEN [writer EXCEPT ![w].at = "removing"]
                   ELSE [writer EXCEPT ![w].at = "encoding", ![w].route = profile]
    /\ UNCHANGED <<lock, index>> /\ WriterOnly

Leave(w) == /\ writer' = [writer EXCEPT ![w] = IdleWriter]
            /\ lock' = ReleaseWriter(lock)

\* The vectors are there; the profile is compared before anything is stored.
Embedded(w) ==
    /\ writer[w].at = "encoding"
    /\ profile = writer[w].route
    /\ writer' = [writer EXCEPT ![w].at =
                     IF writer[w].job = "replace" THEN "removing" ELSE "storing"]
    /\ UNCHANGED <<lock, index>> /\ WriterOnly

Without(rows) == [c \in Chunks |-> IF c \in rows THEN None ELSE index[c]]

RowsRemoved(w) ==
    /\ writer[w].at = "removing"
    /\ index' = Without(writer[w].rows)
    /\ IF writer[w].job = "remove"
         THEN Leave(w)
         ELSE writer' = [writer EXCEPT ![w].at = "storing"] /\ UNCHANGED lock
    /\ WriterOnly

\* An INSERT: a row that exists makes it fail.
RowStored(w, c) ==
    /\ writer[w].at = "storing" /\ c \in writer[w].rows
    /\ index[c] = None
    /\ index' = [index EXCEPT ![c] = writer[w].route]
    /\ IF writer[w].rows = {c} \/ profile # writer[w].route
         THEN Leave(w)
         ELSE writer' = [writer EXCEPT ![w].rows = @ \ {c}] /\ UNCHANGED lock
    /\ WriterOnly

\* The embedding service or the database fails, or the profile has changed.
WriteFails(w) ==
    /\ Inside(w)
    /\ Leave(w)
    /\ UNCHANGED index /\ WriterOnly

-----------------------------------------------------------------------------
(***************************************************************************)
(* activateRagConnection, retryActiveRagIndexRebuild and rebuildAll.       *)
(***************************************************************************)
IdleAdmin == [at |-> "idle", job |-> "retry", route |-> None, changes |-> FALSE,
              owners |-> {}, stale |-> {}, batch |-> {}]

HasMigration(a) == admin[a].at = "acquiring" /\ lock.migration = a
Migrating(a) == admin[a].at \in {"discovering", "visiting", "embedding", "updating"}

AdminOnly == UNCHANGED writer

Busy == activating \/ rebuilding

\* testing is the connection test before anything changes; the panel may have run it.
Activate(a, p, testing) ==
    /\ admin[a].at = "idle" /\ ~Busy
    /\ activating' = TRUE
    /\ outcome' = "running"
    /\ testing => p # profile
    /\ admin' = [admin EXCEPT ![a] = [IdleAdmin EXCEPT
                    !.at = IF testing THEN "testing" ELSE "acquiring",
                    !.job = "activate", !.route = p, !.changes = (p # profile)]]
    /\ lock' = IF testing THEN lock ELSE AcquireMigration(lock, a)
    /\ UNCHANGED <<index, profile, rebuilding>> /\ AdminOnly

ConnectionTested(a) ==
    /\ admin[a].at = "testing" /\ ~rebuilding
    /\ admin' = [admin EXCEPT ![a].at = "acquiring"]
    /\ lock' = AcquireMigration(lock, a)
    /\ UNCHANGED <<index, profile, activating, rebuilding, outcome>> /\ AdminOnly

ConnectionTestFails(a) ==
    /\ admin[a].at = "testing"
    /\ admin' = [admin EXCEPT ![a] = IdleAdmin]
    /\ activating' = FALSE
    /\ outcome' = "failed"
    /\ UNCHANGED <<lock, index, profile, rebuilding>> /\ AdminOnly

\* The finally blocks of rebuildAll and of activateRagConnection.
Finish(a, result) ==
    /\ admin' = [admin EXCEPT ![a] = IdleAdmin]
    /\ lock' = ReleaseMigration(lock, a)
    /\ rebuilding' = FALSE
    /\ activating' = IF admin[a].job = "activate" THEN FALSE ELSE activating
    /\ outcome' = result

\* Mutant of MaySwitch.
SwitchesUnprotected(a) == admin[a].at = "acquiring"
MaySwitch(a) == HasMigration(a)

\* The settings are stored under the lease, and the rebuild starts under the same one.
\* (The second looks at isRunning, here and after the test, never find a rebuild: Busy.)
SwitchProfile(a) ==
    /\ MaySwitch(a) /\ admin[a].job = "activate" /\ ~rebuilding
    /\ profile' = admin[a].route
    /\ IF admin[a].changes
         THEN /\ admin' = [admin EXCEPT ![a].at = "discovering"]
              /\ rebuilding' = TRUE
              /\ UNCHANGED <<lock, activating, outcome>>
         ELSE Finish(a, "applied")
    /\ UNCHANGED index /\ AdminOnly

\* The route of a retry is resolved before the wait for the lease.
Retry(a) ==
    /\ admin[a].at = "idle" /\ ~Busy
    /\ rebuilding' = TRUE
    /\ outcome' = "running"
    /\ admin' = [admin EXCEPT ![a] = [IdleAdmin EXCEPT
                    !.at = "acquiring", !.job = "retry", !.route = profile]]
    /\ lock' = AcquireMigration(lock, a)
    /\ UNCHANGED <<index, profile, activating>> /\ AdminOnly

BeginRetry(a) ==
    /\ HasMigration(a) /\ admin[a].job = "retry"
    /\ IF admin[a].route = profile
         THEN /\ admin' = [admin EXCEPT ![a].at = "discovering"]
              /\ UNCHANGED <<lock, activating, rebuilding, outcome>>
         ELSE Finish(a, "failed")
    /\ UNCHANGED <<index, profile>> /\ AdminOnly

\* On to the next batch, the next agent, or the end.
Proceed(a, owners, stale) ==
    IF owners = {} /\ stale = {}
      THEN Finish(a, "rebuilt")
      ELSE /\ admin' = [admin EXCEPT ![a] = [@ EXCEPT
                            !.at = IF stale = {} THEN "visiting" ELSE "embedding",
                            !.owners = owners, !.stale = stale, !.batch = {}]]
           /\ UNCHANGED <<lock, activating, rebuilding, outcome>>

AgentsListed(a) ==
    /\ admin[a].at = "discovering" /\ admin[a].route = profile
    /\ Proceed(a, {OwnerOf[c] : c \in {d \in Chunks : index[d] # None}}, {})
    /\ UNCHANGED <<index, profile>> /\ AdminOnly

\* Mutant of StaleRows.
NothingStale(o, p) == {}
StaleRows(o, p) == {c \in Chunks : OwnerOf[c] = o /\ index[c] \notin {None, p}}

ChunksListed(a, o) ==
    /\ admin[a].at = "visiting" /\ o \in admin[a].owners /\ admin[a].route = profile
    /\ Proceed(a, admin[a].owners \ {o}, StaleRows(o, admin[a].route))
    /\ UNCHANGED <<index, profile>> /\ AdminOnly

IsBatch(rows, stale) ==
    /\ rows \subseteq stale /\ rows # {} /\ Cardinality(rows) <= BatchSize
    /\ rows = stale \/ Cardinality(rows) = BatchSize

BatchEmbedded(a, rows) ==
    /\ admin[a].at = "embedding" /\ IsBatch(rows, admin[a].stale)
    /\ admin[a].route = profile
    /\ admin' = [admin EXCEPT ![a].at = "updating", ![a].batch = rows]
    /\ UNCHANGED <<lock, index, profile, activating, rebuilding, outcome>> /\ AdminOnly

\* One transaction per batch; a row that is gone rolls it back (RebuildFails).
BatchUpdated(a) ==
    /\ admin[a].at = "updating"
    /\ \A c \in admin[a].batch : index[c] # None
    /\ index' = [c \in Chunks |-> IF c \in admin[a].batch THEN admin[a].route ELSE index[c]]
    /\ Proceed(a, admin[a].owners, admin[a].stale \ admin[a].batch)
    /\ UNCHANGED profile /\ AdminOnly

RebuildFails(a) ==
    /\ Migrating(a)
    /\ Finish(a, "failed")
    /\ UNCHANGED <<index, profile>> /\ AdminOnly

-----------------------------------------------------------------------------
(***************************************************************************)
(* What does not ask the coordinator: the deletion of a memory, of an      *)
(* agent or of all vectors on the Rust side, and the end of the program.   *)
(***************************************************************************)
DeletedDirectly(rows) ==
    /\ index' = Without(rows)
    /\ UNCHANGED <<lock, profile, writer, admin, activating, rebuilding, outcome>>

Restart ==
    /\ lock' = FreeLock
    /\ writer' = [w \in Writers |-> IdleWriter]
    /\ admin' = [a \in Admins |-> IdleAdmin]
    /\ activating' = FALSE /\ rebuilding' = FALSE
    /\ outcome' = "none"
    /\ UNCHANGED <<index, profile>>

Init ==
    /\ lock = FreeLock
    /\ index = [c \in Chunks |-> None]
    /\ profile \in Profiles
    /\ writer = [w \in Writers |-> IdleWriter]
    /\ admin = [a \in Admins |-> IdleAdmin]
    /\ activating = FALSE /\ rebuilding = FALSE
    /\ outcome = "none"

Write(w) == \/ BeginWriting(w) \/ Embedded(w) \/ RowsRemoved(w)
            \/ \E c \in Chunks : RowStored(w, c)
            \/ WriteFails(w)

Migrate(a) == \/ ConnectionTested(a) \/ ConnectionTestFails(a)
              \/ SwitchProfile(a) \/ BeginRetry(a) \/ AgentsListed(a)
              \/ \E o \in Owners : ChunksListed(a, o)
              \/ \E rows \in SUBSET Chunks : BatchEmbedded(a, rows)
              \/ BatchUpdated(a) \/ RebuildFails(a)

Documents == {{c} : c \in Chunks} \cup {{c \in Chunks : OwnerOf[c] = o} : o \in Owners}

Next ==
    \/ \E w \in Writers, job \in Jobs, rows \in Documents \ {{}} : AskToWrite(w, job, rows)
    \/ \E w \in Writers : Write(w)
    \/ \E a \in Admins, p \in Profiles, testing \in BOOLEAN : Activate(a, p, testing)
    \/ \E a \in Admins : Retry(a) \/ Migrate(a)
    \/ \E rows \in Documents : DeletedDirectly(rows)
    \/ Restart

\* Every wait ends: the HTTP calls time out, and the database answers.
Fairness == /\ \A w \in Writers : WF_vars(Write(w))
            /\ \A a \in Admins : WF_vars(Migrate(a))

Spec == Init /\ [][Next]_vars
FairSpec == Spec /\ Fairness

-----------------------------------------------------------------------------
\* The type invariant of the index, its coordinator and their users.
TypeOK ==
    /\ lock \in [writers : Nat, migration : Admins \cup {None},
                 writerWaiters : SUBSET Writers, migrationWaiters : Seq(Admins)]
    /\ index \in [Chunks -> Profiles \cup {None}]
    /\ profile \in Profiles
    /\ writer \in [Writers -> [at : {"idle", "acquiring", "encoding", "removing", "storing"},
                               job : Jobs, route : Profiles \cup {None}, rows : SUBSET Chunks]]
    /\ admin \in [Admins -> [at : {"idle", "testing", "acquiring", "discovering", "visiting",
                                   "embedding", "updating"},
                             job : {"activate", "retry"}, route : Profiles \cup {None},
                             changes : BOOLEAN, owners : SUBSET Owners,
                             stale : SUBSET Chunks, batch : SUBSET Chunks]]
    /\ activating \in BOOLEAN /\ rebuilding \in BOOLEAN
    /\ outcome \in {"none", "running", "failed", "applied", "rebuilt"}

\* RagIndexCoordinator.ts:4-7: a migration holds its lease alone.  The count the
\* coordinator keeps could drift from the leases that are out, and let it in early.
MigrationIsExclusive == lock.migration # None => Holders = {}

\* The comparisons of the profile inside the writers and the rebuild are a second line
\* of defence: under the leases, the route of a call that works is the active one.
RouteStaysActive ==
    /\ \A w \in Writers : Inside(w) /\ writer[w].job # "remove" => writer[w].route = profile
    /\ \A a \in Admins : Migrating(a) => admin[a].route = profile

\* A retry resolves its route before it waits; no activation slips in between, so
\* the check at RagIndexRebuildService.ts:113 never turns a retry away.
RetryKeepsItsRoute ==
    \A a \in Admins : admin[a].at = "acquiring" /\ admin[a].job = "retry"
                        => admin[a].route = profile

\* After a rebuild that reports success every row belongs to the active profile,
\* also after failed attempts, restarts and rows deleted meanwhile.
RebuiltIndexIsUniform ==
    outcome = "rebuilt" => \A c \in Chunks : index[c] \in {None, profile}

\* A batch that is stored stays stored: what a failed rebuild has migrated, a retry need
\* not do again.  Nothing is ever stored in another space than the active one.
CheckpointsLast ==
    [][\A c \in Chunks : index'[c] # index[c] => index'[c] \in {None, profile}
                          /\ (index[c] = profile => index'[c] = None)]_vars

\* Whoever waits for a lease gets it: neither a migration behind the writers nor the
\* writers behind one migration after the other wait for ever.
LeasesAreGranted ==
    /\ \A w \in Writers : (writer[w].at = "acquiring") ~> (writer[w].at # "acquiring")
    /\ \A a \in Admins : (admin[a].at = "acquiring") ~> (admin[a].at # "acquiring")
=============================================================================
