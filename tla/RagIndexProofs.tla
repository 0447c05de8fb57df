--------------------------- MODULE RagIndexProofs ---------------------------
(***************************************************************************)
(* What holds of the vector index for every number of writers, migrations, *)
(* chunks, agents and profiles.                                            *)
(***************************************************************************)
EXTENDS RagIndexRefinement, FiniteSetTheorems, TLAPS

-----------------------------------------------------------------------------
(***************************************************************************)
(* The inductive invariant.  MigrationIsExclusive says too little of the   *)
(* count to be inductive, and the properties of a rebuild rest on there    *)
(* being one migration at a time, which the two flags ensure.              *)
(***************************************************************************)
\* The count of the coordinator is that of the leases that are out.
LeasesCounted ==
    /\ lock.writers = Cardinality(Holders)
    /\ lock.migration # None => lock.writers = 0
    /\ \A w \in lock.writerWaiters : writer[w].at = "acquiring"

\* A call that stores vectors has a route, and it is the active one.
WritersFollow ==
    /\ \A w \in Writers : Inside(w) /\ writer[w].job # "remove" => writer[w].route = profile
    /\ \A w \in Writers : writer[w].at \in {"encoding", "storing"} => writer[w].job # "remove"

\* One migration at a time, announced by its flag.
OneMigration ==
    /\ \A a, b \in Admins : admin[a].at # "idle" /\ admin[b].at # "idle" => a = b
    /\ \A a \in Admins : admin[a].at # "idle" =>
          /\ outcome = "running"
          /\ IF admin[a].job = "activate" THEN activating ELSE rebuilding
          /\ admin[a].route \in Profiles
          /\ admin[a].job = "retry" => admin[a].route = profile

\* A rebuild holds the lease and works for the active profile; a row that belongs to
\* another one is still on its list.
Pending(a, c) == OwnerOf[c] \in admin[a].owners \/ c \in admin[a].stale
RebuildCovers ==
    \A a \in Admins : Migrating(a) =>
        /\ lock.migration = a
        /\ admin[a].route = profile
        /\ admin[a].at = "visiting" => admin[a].stale = {}
        /\ admin[a].at # "discovering" =>
              \A c \in Chunks : index[c] \in {None, profile} \/ Pending(a, c)

IndexInv == /\ TypeOK /\ LeasesCounted /\ WritersFollow /\ OneMigration /\ RebuildCovers
            /\ RebuiltIndexIsUniform

-----------------------------------------------------------------------------
(***************************************************************************)
(* The coordinator on its own: what its operations do to the leases.       *)
(***************************************************************************)
Locks == [writers : Nat, migration : Admins \cup {None},
          writerWaiters : SUBSET Writers, migrationWaiters : Seq(Admins)]

\* The lock l is in order when the writers of H hold leases.
Sound(l, H) == /\ l.writers = Cardinality(H)
               /\ l.migration # None => l.writers = 0
               /\ H \cap l.writerWaiters = {}

\* Draining the waiters grants leases to a migration or to writers, and keeps order.
LEMMA DrainKeepsOrder ==
    ASSUME NEW l \in Locks, NEW H \in SUBSET Writers, Sound(l, H)
    PROVE  LET d == DrainWaiters(l)
           IN  /\ d \in Locks
               /\ d.writerWaiters \subseteq l.writerWaiters
               /\ Sound(d, H \cup (l.writerWaiters \ d.writerWaiters))
               /\ l.migration # None => d = l
<1> DEFINE d == DrainWaiters(l)
<1>0. IsFiniteSet(H) /\ IsFiniteSet(l.writerWaiters)
  BY ProcessAssumption, FS_Subset DEF Locks
<1>1. Cardinality(H) \in Nat /\ Cardinality(l.writerWaiters) \in Nat
  BY <1>0, FS_CardinalityType
<1>2. CASE l.migration # None
  <2>1. d = l
    BY <1>2 DEF DrainWaiters
  <2>2. H \cup (l.writerWaiters \ l.writerWaiters) = H
    OBVIOUS
  <2> QED BY <2>1, <2>2
<1>3. CASE l.migration = None /\ l.writers = 0 /\ l.migrationWaiters # << >>
  <2>1. d = [l EXCEPT !.migration = Head(l.migrationWaiters), !.migrationWaiters = Tail(@)]
    BY <1>3 DEF DrainWaiters
  <2>2. Head(l.migrationWaiters) \in Admins /\ Tail(l.migrationWaiters) \in Seq(Admins)
    BY <1>3 DEF Locks
  <2>3. d \in Locks /\ d.writerWaiters = l.writerWaiters /\ d.writers = l.writers
    BY <2>1, <2>2 DEF Locks
  <2>4. H \cup (l.writerWaiters \ d.writerWaiters) = H
    BY <2>3
  <2> QED BY <1>3, <2>3, <2>4 DEF Sound
<1>4. CASE /\ l.migration = None /\ ~(l.writers = 0 /\ l.migrationWaiters # << >>)
           /\ l.migrationWaiters = << >> /\ l.writerWaiters # {}
  <2>1. d = [l EXCEPT !.writers = @ + Cardinality(l.writerWaiters), !.writerWaiters = {}]
    BY <1>4 DEF DrainWaiters
  <2> DEFINE n == l.writers + Cardinality(l.writerWaiters)
  <2>0. n \in Nat
    BY <1>1 DEF Locks
  <2>2. d \in Locks /\ d.writerWaiters = {} /\ d.migration = None /\ d.writers = n
    <3> HIDE DEF n, d
    <3>1. d = [l EXCEPT !.writers = n, !.writerWaiters = {}]
      BY <2>1 DEF n
    <3> QED BY <2>0, <3>1, <1>4 DEF Locks
  <2>3. Cardinality(H \cup l.writerWaiters)
          = Cardinality(H) + Cardinality(l.writerWaiters) - Cardinality(H \cap l.writerWaiters)
    BY <1>0, FS_Union
  <2>4. Cardinality(H \cap l.writerWaiters) = 0
    BY FS_EmptySet DEF Sound
  <2>5. H \cup (l.writerWaiters \ d.writerWaiters) = H \cup l.writerWaiters
    BY <2>2
  <2>6. d.writers = Cardinality(H \cup l.writerWaiters)
    BY <1>1, <2>2, <2>3, <2>4 DEF Sound
  <2> QED BY <1>4, <2>2, <2>5, <2>6 DEF Sound
<1>5. CASE /\ l.migration = None /\ ~(l.writers = 0 /\ l.migrationWaiters # << >>)
           /\ ~(l.migrationWaiters = << >> /\ l.writerWaiters # {})
  <2>1. d = l
    BY <1>5 DEF DrainWaiters
  <2>2. H \cup (l.writerWaiters \ l.writerWaiters) = H
    OBVIOUS
  <2> QED BY <2>1, <2>2
<1> QED BY <1>2, <1>3, <1>4, <1>5

\* A writer lets go of its lease.
LEMMA ReleaseWriterKeepsOrder ==
    ASSUME NEW l \in Locks, NEW H \in SUBSET Writers, Sound(l, H), NEW w \in H
    PROVE  LET d == ReleaseWriter(l)
           IN  /\ d \in Locks
               /\ d.writerWaiters \subseteq l.writerWaiters
               /\ Sound(d, (H \ {w}) \cup (l.writerWaiters \ d.writerWaiters))
<1> DEFINE k == [l EXCEPT !.writers = IF @ > 0 THEN @ - 1 ELSE 0]
<1>1. IsFiniteSet(H)
  BY ProcessAssumption, FS_Subset
<1>2. Cardinality(H \ {w}) = Cardinality(H) - 1 /\ IsFiniteSet(H \ {w})
  BY <1>1, FS_RemoveElement
<1>3. Cardinality(H) \in Nat /\ Cardinality(H \ {w}) \in Nat
  BY <1>1, <1>2, FS_CardinalityType
<1>4. k \in Locks /\ k.writers = Cardinality(H \ {w}) /\ k.migration = l.migration
      /\ k.writerWaiters = l.writerWaiters
  BY <1>2, <1>3 DEF Locks, Sound
<1>5. Sound(k, H \ {w})
  BY <1>2, <1>3, <1>4 DEF Sound
<1>6. H \ {w} \in SUBSET Writers
  OBVIOUS
<1> QED BY <1>4, <1>5, <1>6, DrainKeepsOrder DEF ReleaseWriter

\* A migration lets go of its lease.
LEMMA ReleaseMigrationKeepsOrder ==
    ASSUME NEW l \in Locks, NEW H \in SUBSET Writers, Sound(l, H), NEW a \in Admins
    PROVE  LET d == ReleaseMigration(l, a)
           IN  /\ d \in Locks
               /\ d.writerWaiters \subseteq l.writerWaiters
               /\ Sound(d, H \cup (l.writerWaiters \ d.writerWaiters))
<1> DEFINE k == [l EXCEPT !.migration = IF @ = a THEN None ELSE @]
<1>1. k \in Locks /\ k.writers = l.writers /\ k.writerWaiters = l.writerWaiters
      /\ (k.migration # None => l.migration # None)
  BY DEF Locks
<1>2. Sound(k, H)
  BY <1>1 DEF Sound
<1> QED BY <1>1, <1>2, DrainKeepsOrder DEF ReleaseMigration

\* A writer asks: it gets its lease at once or waits.
LEMMA AcquireWriterKeepsOrder ==
    ASSUME NEW l \in Locks, NEW H \in SUBSET Writers, Sound(l, H),
           NEW w \in Writers, w \notin H, w \notin l.writerWaiters
    PROVE  LET d == AcquireWriter(l, w)
           IN  /\ d \in Locks
               /\ d.migration = l.migration
               /\ \/ /\ d.writerWaiters = l.writerWaiters
                     /\ Sound(d, H \cup {w})
                  \/ /\ d.writerWaiters = l.writerWaiters \cup {w}
                     /\ Sound(d, H)
<1> DEFINE d == AcquireWriter(l, w)
<1>1. IsFiniteSet(H)
  BY ProcessAssumption, FS_Subset
<1>2. Cardinality(H) \in Nat
  BY <1>1, FS_CardinalityType
<1>3. Cardinality(H \cup {w}) = Cardinality(H) + 1
  BY <1>1, FS_AddElement
<1>4. CASE l.migration = None /\ l.migrationWaiters = << >>
  <2>1. d \in Locks /\ d.migration = None /\ d.writerWaiters = l.writerWaiters
        /\ d.writers = l.writers + 1
    BY <1>4 DEF AcquireWriter, Locks
  <2> QED BY <1>2, <1>3, <1>4, <2>1 DEF Sound
<1>5. CASE ~(l.migration = None /\ l.migrationWaiters = << >>)
  <2>1. d \in Locks /\ d.migration = l.migration /\ d.writers = l.writers
        /\ d.writerWaiters = l.writerWaiters \cup {w}
    BY <1>5 DEF AcquireWriter, Locks
  <2> QED BY <2>1 DEF Sound
<1> QED BY <1>4, <1>5

\* A migration asks: it gets its lease at once or waits.
LEMMA AcquireMigrationKeepsOrder ==
    ASSUME NEW l \in Locks, NEW H \in SUBSET Writers, Sound(l, H), NEW a \in Admins
    PROVE  LET d == AcquireMigration(l, a)
           IN  /\ d \in Locks
               /\ d.writerWaiters = l.writerWaiters
               /\ Sound(d, H)
<1> DEFINE d == AcquireMigration(l, a)
<1>1. CASE l.migration = None /\ l.writers = 0
  BY <1>1 DEF AcquireMigration, Locks, Sound
<1>2. CASE ~(l.migration = None /\ l.writers = 0)
  <2>1. Append(l.migrationWaiters, a) \in Seq(Admins)
    BY DEF Locks
  <2> QED BY <1>2, <2>1 DEF AcquireMigration, Locks, Sound
<1> QED BY <1>1, <1>2

-----------------------------------------------------------------------------
(***************************************************************************)
(* The coordinator with its writers: each kind of step keeps the count.    *)
(***************************************************************************)
LockOK == lock \in Locks /\ LeasesCounted

\* In a state of the system the lock is in order with its holders.
LEMMA HoldersInOrder ==
    ASSUME LockOK
    PROVE  Holders \in SUBSET Writers /\ Sound(lock, Holders)
BY DEF LockOK, LeasesCounted, Holders, Holds, Granted, Inside, Sound

\* A writer that asks is counted exactly if it does not have to wait.
LEMMA AskKeepsCount ==
    ASSUME LockOK, TypeOK, NEW w \in Writers, NEW job \in Jobs,
           NEW rows \in SUBSET Chunks, AskToWrite(w, job, rows)
    PROVE  /\ LockOK'
           /\ \/ lock'.writerWaiters = lock.writerWaiters /\ Holders' = Holders \cup {w}
              \/ lock'.writerWaiters = lock.writerWaiters \cup {w} /\ Holders' = Holders
<1>1. w \notin Holders /\ w \notin lock.writerWaiters
  BY DEF LockOK, LeasesCounted, AskToWrite, Holders, Holds, Granted, Inside
<1>2. lock' = AcquireWriter(lock, w)
  BY DEF AskToWrite
<1>3. /\ lock' \in Locks
      /\ \/ lock'.writerWaiters = lock.writerWaiters /\ Sound(lock', Holders \cup {w})
         \/ lock'.writerWaiters = lock.writerWaiters \cup {w} /\ Sound(lock', Holders)
  BY <1>1, <1>2, HoldersInOrder, AcquireWriterKeepsOrder DEF LockOK
<1>4. /\ writer'[w].at = "acquiring"
      /\ \A v \in Writers \ {w} : writer'[v] = writer[v]
  BY DEF AskToWrite, TypeOK
<1>5. lock.writerWaiters \subseteq Writers
  BY DEF LockOK, Locks
<1>6. CASE lock'.writerWaiters = lock.writerWaiters /\ Sound(lock', Holders \cup {w})
  <2>1. Holders' = Holders \cup {w}
    BY <1>1, <1>4, <1>6 DEF Holders, Holds, Granted, Inside
  <2> QED BY <1>3, <1>4, <1>5, <1>6, <2>1 DEF LockOK, LeasesCounted, Sound
<1>7. CASE lock'.writerWaiters = lock.writerWaiters \cup {w} /\ Sound(lock', Holders)
  <2>1. Holders' = Holders
    BY <1>1, <1>4, <1>7 DEF Holders, Holds, Granted, Inside
  <2> QED BY <1>3, <1>4, <1>5, <1>7, <2>1 DEF LockOK, LeasesCounted, Sound
<1> QED BY <1>3, <1>6, <1>7

\* The finally block of a writer, and the waiters it lets in.
LEMMA LeaveKeepsCount ==
    ASSUME LockOK, TypeOK, NEW w \in Writers, Inside(w), Leave(w)
    PROVE  /\ LockOK'
           /\ Holders' = (Holders \ {w}) \cup (lock.writerWaiters \ lock'.writerWaiters)
<1>1. w \in Holders /\ w \notin lock.writerWaiters
  BY DEF LockOK, LeasesCounted, Holders, Holds, Inside
<1>2. /\ lock' \in Locks
      /\ lock'.writerWaiters \subseteq lock.writerWaiters
      /\ Sound(lock', (Holders \ {w}) \cup (lock.writerWaiters \ lock'.writerWaiters))
  BY <1>1, HoldersInOrder, ReleaseWriterKeepsOrder DEF LockOK, Leave
<1>3. /\ writer'[w].at = "idle"
      /\ \A v \in Writers \ {w} : writer'[v] = writer[v]
  BY DEF Leave, IdleWriter, TypeOK
<1>4. lock.writerWaiters \subseteq Writers
  BY DEF LockOK, Locks
<1>5. Holders' = (Holders \ {w}) \cup (lock.writerWaiters \ lock'.writerWaiters)
  BY <1>1, <1>2, <1>3, <1>4 DEF LockOK, LeasesCounted, Holders, Holds, Granted, Inside
<1> QED BY <1>1, <1>2, <1>3, <1>4, <1>5 DEF LockOK, LeasesCounted, Sound

\* A writer at work keeps its lease.
LEMMA WorkKeepsCount ==
    ASSUME LockOK, NEW w \in Writers, Holds(w), UNCHANGED lock,
           Inside(w)', \A v \in Writers \ {w} : writer'[v] = writer[v]
    PROVE  LockOK' /\ Holders' = Holders
<1>1. w \notin lock.writerWaiters
  BY DEF LockOK, LeasesCounted, Holds, Granted, Inside
<1>2. lock.writerWaiters \subseteq Writers
  BY DEF LockOK, Locks
<1>3. Holders' = Holders
  BY DEF Holders, Holds, Granted, Inside
<1> QED BY <1>1, <1>2, <1>3 DEF LockOK, LeasesCounted

\* A migration that asks does not change who holds a writer's lease.
LEMMA MigrationAsksKeepsCount ==
    ASSUME LockOK, NEW a \in Admins, lock' = AcquireMigration(lock, a), UNCHANGED writer
    PROVE  LockOK' /\ Holders' = Holders
<1>1. /\ lock' \in Locks /\ lock'.writerWaiters = lock.writerWaiters
      /\ Sound(lock', Holders)
  BY HoldersInOrder, AcquireMigrationKeepsOrder DEF LockOK
<1>2. Holders' = Holders
  BY <1>1 DEF Holders, Holds, Granted, Inside
<1> QED BY <1>1, <1>2 DEF LockOK, LeasesCounted, Sound

\* The end of a migration lets the waiting writers in.
LEMMA MigrationEndsKeepsCount ==
    ASSUME LockOK, NEW a \in Admins, lock' = ReleaseMigration(lock, a), UNCHANGED writer
    PROVE  /\ LockOK'
           /\ Holders' = Holders \cup (lock.writerWaiters \ lock'.writerWaiters)
<1>1. /\ lock' \in Locks
      /\ lock'.writerWaiters \subseteq lock.writerWaiters
      /\ Sound(lock', Holders \cup (lock.writerWaiters \ lock'.writerWaiters))
  BY HoldersInOrder, ReleaseMigrationKeepsOrder DEF LockOK
<1>2. lock.writerWaiters \subseteq Writers
  BY DEF LockOK, Locks
<1>3. Holders' = Holders \cup (lock.writerWaiters \ lock'.writerWaiters)
  BY <1>1, <1>2 DEF LockOK, LeasesCounted, Holders, Holds, Granted, Inside
<1> QED BY <1>1, <1>2, <1>3 DEF LockOK, LeasesCounted, Sound

\* Nothing happens to the leases.
LEMMA IdleKeepsCount ==
    ASSUME LockOK, UNCHANGED <<lock, writer>>
    PROVE  LockOK' /\ Holders' = Holders
BY DEF LockOK, LeasesCounted, Holders, Holds, Granted, Inside

\* Nobody holds a lease when the program starts again.
LEMMA RestartKeepsCount ==
    ASSUME Restart
    PROVE  LockOK' /\ Holders' = {}
<1>1. Holders' = {}
  BY DEF Restart, Holders, Holds, Granted, Inside, IdleWriter
<1>2. Cardinality({}) = 0
  BY FS_EmptySet
<1>3. << >> \in Seq(Admins)
  OBVIOUS
<1> QED BY <1>1, <1>2, <1>3 DEF Restart, LockOK, LeasesCounted, Locks, FreeLock

-----------------------------------------------------------------------------
(***************************************************************************)
(* The steps of the writers.                                               *)
(***************************************************************************)
WriterStates == [at : {"idle", "acquiring", "encoding", "removing", "storing"},
                 job : Jobs, route : Profiles \cup {None}, rows : SUBSET Chunks]

\* The parts of TypeOK and LeasesCounted are those of LockOK.
LEMMA InvGivesLockOK ==
    ASSUME IndexInv PROVE LockOK
BY DEF IndexInv, TypeOK, LockOK, Locks

\* While a writer holds a lease, no migration is at work.
LEMMA WriterKeepsMigrationsOut ==
    ASSUME IndexInv, NEW w \in Writers, Holds(w)
    PROVE  lock.migration = None /\ \A a \in Admins : ~Migrating(a)
<1>1. w \in Holders /\ Holders \in SUBSET Writers
  BY DEF Holders
<1>2. IsFiniteSet(Holders)
  BY <1>1, ProcessAssumption, FS_Subset
<1>3. Cardinality(Holders) # 0
  BY <1>1, <1>2, FS_EmptySet
<1>4. lock.migration = None
  BY <1>3 DEF IndexInv, LeasesCounted
<1> QED BY <1>4, ProcessAssumption DEF IndexInv, RebuildCovers

\* What the step of a writer that holds a lease has to show.
LEMMA HolderStep ==
    ASSUME IndexInv, NEW w \in Writers, Holds(w), WriterOnly, LockOK',
           writer' \in [Writers -> WriterStates], WritersFollow',
           index' \in [Chunks -> Profiles \cup {None}],
           \A c \in Chunks : index'[c] \in {None, index[c], profile}
    PROVE  IndexInv'
<1>1. TypeOK'
  BY DEF IndexInv, TypeOK, LockOK, Locks, WriterStates, WriterOnly
<1>2. OneMigration'
  BY DEF IndexInv, OneMigration, WriterOnly
<1>3. RebuildCovers'
  BY WriterKeepsMigrationsOut DEF RebuildCovers, Migrating, WriterOnly
<1>4. RebuiltIndexIsUniform'
  BY DEF IndexInv, RebuiltIndexIsUniform, WriterOnly
<1> QED BY <1>1, <1>2, <1>3, <1>4 DEF IndexInv, LockOK

\* A call asks for a lease: nothing else changes.
LEMMA AskToWriteInvariant ==
    ASSUME IndexInv, NEW w \in Writers, NEW job \in Jobs, NEW rows \in SUBSET Chunks,
           AskToWrite(w, job, rows)
    PROVE  IndexInv'
<1>1. LockOK'
  BY InvGivesLockOK, AskKeepsCount DEF IndexInv
<1>2. lock'.migration = lock.migration
  BY DEF AskToWrite, AcquireWriter, IndexInv, TypeOK
<1>3. writer' \in [Writers -> WriterStates]
  BY DEF AskToWrite, IndexInv, TypeOK, WriterStates
<1>4. TypeOK'
  BY <1>1, <1>3 DEF IndexInv, TypeOK, LockOK, Locks, WriterStates, WriterOnly, AskToWrite
<1>5. WritersFollow'
  BY DEF AskToWrite, IndexInv, TypeOK, WritersFollow, Inside, WriterOnly
<1>6. OneMigration'
  BY DEF IndexInv, OneMigration, WriterOnly, AskToWrite
<1>7. RebuildCovers'
  BY <1>2 DEF IndexInv, RebuildCovers, Migrating, Pending, WriterOnly, AskToWrite
<1>8. RebuiltIndexIsUniform'
  BY DEF IndexInv, RebuiltIndexIsUniform, WriterOnly, AskToWrite
<1> QED BY <1>1, <1>4, <1>5, <1>6, <1>7, <1>8 DEF IndexInv, LockOK

\* A writer leaves, whatever it has done to the index in that step.
LEMMA LeaveInvariant ==
    ASSUME IndexInv, NEW w \in Writers, Inside(w), Leave(w), WriterOnly,
           index' \in [Chunks -> Profiles \cup {None}],
           \A c \in Chunks : index'[c] \in {None, index[c], profile}
    PROVE  IndexInv'
<1>1. LockOK'
  BY InvGivesLockOK, LeaveKeepsCount DEF IndexInv
<1>2. writer' \in [Writers -> WriterStates]
  BY DEF Leave, IdleWriter, Jobs, IndexInv, TypeOK, WriterStates
<1>3. WritersFollow'
  BY DEF Leave, IdleWriter, IndexInv, TypeOK, WritersFollow, Inside, WriterOnly
<1> QED BY <1>1, <1>2, <1>3, HolderStep DEF Holds

\* A writer goes on under its lease, with the route it has or resolves now.
LEMMA WorkInvariant ==
    ASSUME IndexInv, NEW w \in Writers, Holds(w), WriterOnly, UNCHANGED lock,
           NEW r \in WriterStates, writer' = [writer EXCEPT ![w] = r],
           r.at \in {"encoding", "removing", "storing"},
           r.job # "remove" => r.route = profile,
           r.at # "removing" => r.job # "remove",
           index' \in [Chunks -> Profiles \cup {None}],
           \A c \in Chunks : index'[c] \in {None, index[c], profile}
    PROVE  IndexInv'
<1>1. writer \in [Writers -> WriterStates]
  BY DEF IndexInv, TypeOK, WriterStates
<1>2. /\ writer'[w] = r
      /\ \A v \in Writers \ {w} : writer'[v] = writer[v]
  BY <1>1
<1>3. LockOK'
  BY <1>2, InvGivesLockOK, WorkKeepsCount DEF Inside
<1>4. writer' \in [Writers -> WriterStates]
  BY <1>1
<1>5. WritersFollow'
  BY <1>2 DEF IndexInv, WritersFollow, Inside, WriterOnly
<1> QED BY <1>3, <1>4, <1>5, HolderStep

\* Every step of a writer keeps the invariant.
LEMMA WriteInvariant ==
    ASSUME IndexInv, NEW w \in Writers, Write(w)
    PROVE  IndexInv'
<1>1. /\ writer \in [Writers -> WriterStates] /\ writer[w] \in WriterStates
      /\ index \in [Chunks -> Profiles \cup {None}] /\ profile \in Profiles
  BY DEF IndexInv, TypeOK, WriterStates
<1>2. Inside(w) /\ writer[w].job # "remove" => writer[w].route = profile
  BY DEF IndexInv, WritersFollow
<1>3. writer[w].at \in {"encoding", "storing"} => writer[w].job # "remove"
  BY DEF IndexInv, WritersFollow
<1>4. CASE BeginWriting(w)
  <2> DEFINE r == IF writer[w].job = "remove"
                    THEN [writer[w] EXCEPT !.at = "removing"]
                    ELSE [writer[w] EXCEPT !.at = "encoding", !.route = profile]
  <2>1. writer' = [writer EXCEPT ![w] = r]
    BY <1>1, <1>4 DEF BeginWriting, WriterStates
  <2>2. /\ r \in WriterStates /\ r.at \in {"encoding", "removing", "storing"}
        /\ r.job # "remove" => r.route = profile
        /\ r.at # "removing" => r.job # "remove"
    BY <1>1 DEF WriterStates
  <2> QED BY <1>1, <1>4, <2>1, <2>2, WorkInvariant DEF BeginWriting, Holds
<1>5. CASE Embedded(w)
  <2> DEFINE r == [writer[w] EXCEPT !.at =
                      IF writer[w].job = "replace" THEN "removing" ELSE "storing"]
  <2>1. writer' = [writer EXCEPT ![w] = r]
    BY <1>1, <1>5 DEF Embedded, WriterStates
  <2>2. /\ r \in WriterStates /\ r.at \in {"encoding", "removing", "storing"}
        /\ r.job # "remove" => r.route = profile
        /\ r.at # "removing" => r.job # "remove"
    BY <1>1, <1>3, <1>5 DEF WriterStates, Embedded
  <2> QED BY <1>1, <1>5, <2>1, <2>2, WorkInvariant DEF Embedded, Holds, Inside
<1>6. CASE RowsRemoved(w)
  <2>1. /\ index' \in [Chunks -> Profiles \cup {None}]
        /\ \A c \in Chunks : index'[c] \in {None, index[c], profile}
    BY <1>1, <1>6 DEF RowsRemoved, Without
  <2>2. CASE writer[w].job = "remove"
    BY <1>6, <2>1, <2>2, LeaveInvariant DEF RowsRemoved, Inside
  <2>3. CASE writer[w].job # "remove"
    <3> DEFINE r == [writer[w] EXCEPT !.at = "storing"]
    <3>1. writer' = [writer EXCEPT ![w] = r]
      BY <1>1, <1>6, <2>3 DEF RowsRemoved, WriterStates
    <3>2. /\ r \in WriterStates /\ r.at \in {"encoding", "removing", "storing"}
          /\ r.job # "remove" => r.route = profile
          /\ r.at # "removing" => r.job # "remove"
      BY <1>1, <1>2, <1>6, <2>3 DEF WriterStates, RowsRemoved, Inside
    <3> QED BY <1>6, <2>1, <2>3, <3>1, <3>2, WorkInvariant DEF RowsRemoved, Holds, Inside
  <2> QED BY <2>2, <2>3
<1>7. ASSUME NEW c \in Chunks, RowStored(w, c)
      PROVE  IndexInv'
  <2>1. writer[w].job # "remove" /\ writer[w].route = profile
    BY <1>2, <1>3, <1>7 DEF RowStored, Inside
  <2>2. /\ index' \in [Chunks -> Profiles \cup {None}]
        /\ \A d \in Chunks : index'[d] \in {None, index[d], profile}
    BY <1>1, <1>7, <2>1 DEF RowStored
  <2>3. CASE writer[w].rows = {c} \/ profile # writer[w].route
    BY <1>7, <2>2, <2>3, LeaveInvariant DEF RowStored, Inside
  <2>4. CASE ~(writer[w].rows = {c} \/ profile # writer[w].route)
    <3> DEFINE r == [writer[w] EXCEPT !.rows = @ \ {c}]
    <3>1. writer' = [writer EXCEPT ![w] = r]
      BY <1>1, <1>7, <2>4 DEF RowStored, WriterStates
    <3>2. /\ r \in WriterStates /\ r.at \in {"encoding", "removing", "storing"}
          /\ r.job # "remove" => r.route = profile
          /\ r.at # "removing" => r.job # "remove"
      BY <1>1, <1>7, <2>1 DEF WriterStates, RowStored
    <3> QED BY <1>7, <2>2, <2>4, <3>1, <3>2, WorkInvariant DEF RowStored, Holds, Inside
  <2> QED BY <2>3, <2>4
<1>8. CASE WriteFails(w)
  BY <1>1, <1>8, LeaveInvariant DEF WriteFails
<1> QED BY <1>4, <1>5, <1>6, <1>7, <1>8 DEF Write

-----------------------------------------------------------------------------
(***************************************************************************)
(* The steps of a migration.                                               *)
(***************************************************************************)
AdminStates == [at : {"idle", "testing", "acquiring", "discovering", "visiting",
                      "embedding", "updating"},
                job : {"activate", "retry"}, route : Profiles \cup {None},
                changes : BOOLEAN, owners : SUBSET Owners,
                stale : SUBSET Chunks, batch : SUBSET Chunks]

FlagOf(r) == IF r.job = "activate" THEN activating ELSE rebuilding

\* The holder of the migration lease is alone with the index.
LEMMA MigrationIsAlone ==
    ASSUME IndexInv, NEW a \in Admins, lock.migration = a
    PROVE  \A w \in Writers : ~Holds(w)
BY WriterKeepsMigrationsOut, ProcessAssumption

\* A migration begins, or asks for its lease after the connection test.
LEMMA StartStep ==
    ASSUME IndexInv, NEW a \in Admins, NEW r \in AdminStates,
           \A b \in Admins \ {a} : admin[b].at = "idle",
           admin' = [admin EXCEPT ![a] = r], r.at \in {"testing", "acquiring"},
           r.route \in Profiles, r.job = "retry" => r.route = profile,
           lock' = lock \/ lock' = AcquireMigration(lock, a),
           activating' \in BOOLEAN, rebuilding' \in BOOLEAN, (IF r.job = "activate" THEN activating' ELSE rebuilding'),
           outcome' = "running", UNCHANGED <<writer, index, profile>>
    PROVE  IndexInv'
<1>1. /\ admin \in [Admins -> AdminStates]
      /\ admin'[a] = r /\ \A b \in Admins \ {a} : admin'[b] = admin[b]
  BY DEF IndexInv, TypeOK, AdminStates
<1>2. LockOK'
  BY InvGivesLockOK, MigrationAsksKeepsCount, IdleKeepsCount
<1>3. TypeOK'
  BY <1>1, <1>2 DEF IndexInv, TypeOK, LockOK, Locks, AdminStates
<1>4. WritersFollow'
  BY DEF IndexInv, WritersFollow, Inside
<1>5. OneMigration'
  BY <1>1 DEF OneMigration, FlagOf
<1>6. RebuildCovers'
  BY <1>1 DEF RebuildCovers, Migrating
<1>7. RebuiltIndexIsUniform'
  BY DEF RebuiltIndexIsUniform
<1> QED BY <1>2, <1>3, <1>4, <1>5, <1>6, <1>7 DEF IndexInv, LockOK

\* A migration works on under its lease.
LEMMA MigrationWork ==
    ASSUME IndexInv, NEW a \in Admins, admin[a].at # "idle", lock.migration = a,
           NEW r \in AdminStates, admin' = [admin EXCEPT ![a] = r],
           r.at \in {"discovering", "visiting", "embedding", "updating"},
           UNCHANGED <<lock, writer>>, profile' \in Profiles, r.route = profile',
           index' \in [Chunks -> Profiles \cup {None}],
           activating' \in BOOLEAN, rebuilding' \in BOOLEAN, (IF r.job = "activate" THEN activating' ELSE rebuilding'),
           outcome' = "running",
           r.at = "visiting" => r.stale = {},
           r.at # "discovering" => \A c \in Chunks : \/ index'[c] \in {None, profile'}
                                                     \/ OwnerOf[c] \in r.owners
                                                     \/ c \in r.stale
    PROVE  IndexInv'
<1>1. /\ admin \in [Admins -> AdminStates]
      /\ admin'[a] = r /\ \A b \in Admins \ {a} : admin'[b] = admin[b]
  BY DEF IndexInv, TypeOK, AdminStates
<1>2. \A b \in Admins \ {a} : admin'[b].at = "idle"
  BY <1>1 DEF IndexInv, OneMigration
<1>3. LockOK'
  BY InvGivesLockOK, IdleKeepsCount
<1>4. TypeOK'
  BY <1>1, <1>3 DEF IndexInv, TypeOK, LockOK, Locks, AdminStates
<1>5. WritersFollow'
  BY MigrationIsAlone DEF IndexInv, WritersFollow, Holds, Inside
<1>6. OneMigration'
  BY <1>1, <1>2 DEF OneMigration, FlagOf
<1>7. RebuildCovers'
  BY <1>1, <1>2 DEF RebuildCovers, Migrating, Pending
<1>8. RebuiltIndexIsUniform'
  BY DEF RebuiltIndexIsUniform
<1> QED BY <1>3, <1>4, <1>5, <1>6, <1>7, <1>8 DEF IndexInv, LockOK

\* A migration ends and lets the lease go.
LEMMA FinishStep ==
    ASSUME IndexInv, NEW a \in Admins, admin[a].at # "idle", lock.migration = a,
           NEW result \in {"failed", "applied", "rebuilt"}, Finish(a, result),
           UNCHANGED writer, profile' \in Profiles,
           index' \in [Chunks -> Profiles \cup {None}],
           result = "rebuilt" => \A c \in Chunks : index'[c] \in {None, profile'}
    PROVE  IndexInv'
<1>1. /\ admin \in [Admins -> AdminStates] /\ IdleAdmin \in AdminStates
      /\ admin'[a] = IdleAdmin /\ \A b \in Admins \ {a} : admin'[b] = admin[b]
  BY DEF IndexInv, TypeOK, AdminStates, Finish, IdleAdmin
<1>2. \A b \in Admins : admin'[b].at = "idle"
  BY <1>1 DEF IndexInv, OneMigration, IdleAdmin
<1>3. LockOK'
  BY InvGivesLockOK, MigrationEndsKeepsCount DEF Finish
<1>4. TypeOK'
  <2>1. admin' \in [Admins -> AdminStates]
    BY <1>1 DEF Finish
  <2>2. rebuilding' \in BOOLEAN /\ activating' \in BOOLEAN
    BY DEF Finish, IndexInv, TypeOK
  <2> QED BY <1>3, <2>1, <2>2 DEF IndexInv, TypeOK, LockOK, Locks, AdminStates, Finish
<1>5. WritersFollow'
  BY MigrationIsAlone DEF IndexInv, WritersFollow, Holds, Inside
<1>6. OneMigration'
  BY <1>2 DEF OneMigration
<1>7. RebuildCovers'
  BY <1>2 DEF RebuildCovers, Migrating
<1>8. RebuiltIndexIsUniform'
  BY DEF RebuiltIndexIsUniform, Finish
<1> QED BY <1>3, <1>4, <1>5, <1>6, <1>7, <1>8 DEF IndexInv, LockOK

\* A call starts to migrate: no other one is under way.
LEMMA StartInvariant ==
    ASSUME IndexInv, NEW a \in Admins,
           \/ \E p \in Profiles, testing \in BOOLEAN : Activate(a, p, testing)
           \/ Retry(a)
    PROVE  IndexInv'
<1>1. \A b \in Admins : admin[b].at = "idle"
  BY DEF IndexInv, OneMigration, Activate, Retry, Busy
<1>2. profile \in Profiles /\ activating \in BOOLEAN /\ rebuilding \in BOOLEAN
  BY DEF IndexInv, TypeOK
<1>3. ASSUME NEW p \in Profiles, NEW testing \in BOOLEAN, Activate(a, p, testing)
      PROVE  IndexInv'
  <2> DEFINE r == [IdleAdmin EXCEPT !.at = IF testing THEN "testing" ELSE "acquiring",
                       !.job = "activate", !.route = p, !.changes = (p # profile)]
  <2>1. r \in AdminStates /\ r.at \in {"testing", "acquiring"} /\ r.job = "activate"
        /\ r.route \in Profiles
    BY DEF IdleAdmin, AdminStates
  <2>2. (IF r.job = "activate" THEN activating' ELSE rebuilding')
    BY <1>3, <2>1 DEF FlagOf, Activate
  <2>3. admin' = [admin EXCEPT ![a] = r]
    BY <1>3 DEF Activate
  <2>4. /\ lock' = lock \/ lock' = AcquireMigration(lock, a)
        /\ activating' \in BOOLEAN /\ rebuilding' \in BOOLEAN
        /\ outcome' = "running" /\ UNCHANGED <<writer, index, profile>>
    BY <1>2, <1>3 DEF Activate, AdminOnly
  <2>5. \A b \in Admins \ {a} : admin[b].at = "idle"
    BY <1>1
  <2>6. r.job = "retry" => r.route = profile
    BY <2>1
  <2> HIDE DEF r
  <2> QED BY <2>1, <2>2, <2>3, <2>4, <2>5, <2>6, StartStep
<1>4. CASE Retry(a)
  <2> DEFINE r == [IdleAdmin EXCEPT !.at = "acquiring", !.job = "retry", !.route = profile]
  <2>1. r \in AdminStates /\ r.at = "acquiring" /\ r.job = "retry" /\ r.route = profile
    BY <1>2 DEF IdleAdmin, AdminStates
  <2>2. (IF r.job = "activate" THEN activating' ELSE rebuilding')
    BY <1>4, <2>1 DEF FlagOf, Retry
  <2>3. admin' = [admin EXCEPT ![a] = r]
    BY <1>4 DEF Retry
  <2>4. /\ lock' = AcquireMigration(lock, a)
        /\ activating' \in BOOLEAN /\ rebuilding' \in BOOLEAN
        /\ outcome' = "running" /\ UNCHANGED <<writer, index, profile>>
    BY <1>2, <1>4 DEF Retry, AdminOnly
  <2>5. \A b \in Admins \ {a} : admin[b].at = "idle"
    BY <1>1
  <2> HIDE DEF r
  <2> QED BY <1>2, <2>1, <2>2, <2>3, <2>4, <2>5, StartStep
<1> QED BY <1>3, <1>4

\* The connection test before the lease.
LEMMA TestInvariant ==
    ASSUME IndexInv, NEW a \in Admins, ConnectionTested(a) \/ ConnectionTestFails(a)
    PROVE  IndexInv'
<1>1. /\ admin \in [Admins -> AdminStates] /\ admin[a] \in AdminStates
      /\ activating \in BOOLEAN /\ rebuilding \in BOOLEAN
  BY DEF IndexInv, TypeOK, AdminStates
<1>2. admin[a].at = "testing"
  BY DEF ConnectionTested, ConnectionTestFails
<1>3. /\ \A b \in Admins \ {a} : admin[b].at = "idle"
      /\ outcome = "running" /\ FlagOf(admin[a])
      /\ admin[a].route \in Profiles
      /\ admin[a].job = "retry" => admin[a].route = profile
  BY <1>2 DEF IndexInv, OneMigration, FlagOf
<1>4. CASE ConnectionTested(a)
  <2> DEFINE r == [admin[a] EXCEPT !.at = "acquiring"]
  <2>1. r \in AdminStates /\ r.at = "acquiring" /\ r.job = admin[a].job
        /\ r.route = admin[a].route
    BY <1>1 DEF AdminStates
  <2>2. admin' = [admin EXCEPT ![a] = r]
    BY <1>1, <1>4 DEF ConnectionTested, AdminStates
  <2>3. (IF r.job = "activate" THEN activating' ELSE rebuilding')
    BY <1>3, <1>4, <2>1 DEF FlagOf, ConnectionTested
  <2> HIDE DEF r
  <2> QED BY <1>1, <1>3, <1>4, <2>1, <2>2, <2>3, StartStep DEF ConnectionTested, AdminOnly
<1>5. CASE ConnectionTestFails(a)
  <2>1. /\ IdleAdmin \in AdminStates /\ admin'[a] = IdleAdmin
        /\ admin' \in [Admins -> AdminStates]
        /\ \A b \in Admins : admin'[b].at = "idle"
    BY <1>1, <1>3, <1>5 DEF ConnectionTestFails, AdminStates, IdleAdmin
  <2>2. LockOK'
    BY <1>5, InvGivesLockOK, IdleKeepsCount DEF ConnectionTestFails, AdminOnly
  <2>3. TypeOK'
    BY <1>5, <2>1, <2>2 DEF ConnectionTestFails, AdminOnly, IndexInv, TypeOK, LockOK, Locks,
                            AdminStates
  <2>4. WritersFollow'
    BY <1>5 DEF ConnectionTestFails, AdminOnly, IndexInv, WritersFollow, Inside
  <2>5. OneMigration' /\ RebuildCovers'
    BY <2>1 DEF OneMigration, RebuildCovers, Migrating
  <2>6. RebuiltIndexIsUniform'
    BY <1>5 DEF ConnectionTestFails, RebuiltIndexIsUniform
  <2> QED BY <2>2, <2>3, <2>4, <2>5, <2>6 DEF IndexInv, LockOK
<1> QED BY <1>4, <1>5

\* The lease is granted: the settings are stored, or the retry begins.
LEMMA BeginInvariant ==
    ASSUME IndexInv, NEW a \in Admins, SwitchProfile(a) \/ BeginRetry(a)
    PROVE  IndexInv'
<1>1. /\ admin \in [Admins -> AdminStates] /\ admin[a] \in AdminStates
      /\ activating \in BOOLEAN /\ rebuilding \in BOOLEAN
      /\ index \in [Chunks -> Profiles \cup {None}] /\ profile \in Profiles
  BY DEF IndexInv, TypeOK, AdminStates
<1>2. admin[a].at = "acquiring" /\ lock.migration = a
  BY DEF SwitchProfile, MaySwitch, BeginRetry, HasMigration
<1>3. outcome = "running" /\ FlagOf(admin[a]) /\ admin[a].route \in Profiles
  BY <1>2 DEF IndexInv, OneMigration, FlagOf
<1> DEFINE r == [admin[a] EXCEPT !.at = "discovering"]
<1>4. r \in AdminStates /\ r.at = "discovering" /\ r.job = admin[a].job
      /\ r.route = admin[a].route
  BY <1>1 DEF AdminStates
<1>5. CASE SwitchProfile(a)
  <2>1. profile' \in Profiles /\ profile' = admin[a].route
    BY <1>3, <1>5 DEF SwitchProfile
  <2>2. CASE admin[a].changes
    <3>1. admin' = [admin EXCEPT ![a] = r]
      BY <1>1, <1>5, <2>2 DEF SwitchProfile, AdminStates
    <3>2. (IF r.job = "activate" THEN activating' ELSE rebuilding')
      BY <1>3, <1>4, <1>5, <2>2 DEF FlagOf, SwitchProfile
    <3>3. /\ UNCHANGED <<lock, writer>> /\ index' \in [Chunks -> Profiles \cup {None}]
          /\ activating' \in BOOLEAN /\ rebuilding' \in BOOLEAN /\ outcome' = "running"
      BY <1>1, <1>3, <1>5, <2>2 DEF SwitchProfile, AdminOnly
    <3>4. r.route = profile'
      BY <1>4, <2>1
    <3>5. admin[a].at # "idle"
      BY <1>2
    <3> HIDE DEF r
    <3> QED BY <1>2, <1>4, <2>1, <3>1, <3>2, <3>3, <3>4, <3>5, MigrationWork
  <2>3. CASE ~admin[a].changes
    BY <1>1, <1>2, <1>5, <2>1, <2>3, FinishStep DEF SwitchProfile, AdminOnly
  <2> QED BY <2>2, <2>3
<1>6. CASE BeginRetry(a)
  <2>1. CASE admin[a].route = profile
    <3>1. admin' = [admin EXCEPT ![a] = r]
      BY <1>1, <1>6, <2>1 DEF BeginRetry, AdminStates
    <3>2. (IF r.job = "activate" THEN activating' ELSE rebuilding')
      BY <1>3, <1>4, <1>6, <2>1 DEF FlagOf, BeginRetry
    <3> HIDE DEF r
    <3> QED BY <1>1, <1>2, <1>3, <1>4, <1>6, <2>1, <3>1, <3>2, MigrationWork
              DEF BeginRetry, AdminOnly
  <2>2. CASE admin[a].route # profile
    BY <1>1, <1>2, <1>6, <2>2, FinishStep DEF BeginRetry, AdminOnly
  <2> QED BY <2>1, <2>2
<1> QED BY <1>5, <1>6

\* A migration that works is the one that holds the lease.
LEMMA MigratingHolds ==
    ASSUME IndexInv, NEW a \in Admins, Migrating(a)
    PROVE  /\ admin[a] \in AdminStates /\ admin[a].at # "idle" /\ lock.migration = a
           /\ admin \in [Admins -> AdminStates]
           /\ index \in [Chunks -> Profiles \cup {None}] /\ profile \in Profiles
           /\ activating \in BOOLEAN /\ rebuilding \in BOOLEAN
           /\ outcome = "running" /\ FlagOf(admin[a])
           /\ admin[a].route = profile
BY DEF IndexInv, TypeOK, AdminStates, RebuildCovers, OneMigration, FlagOf, Migrating

\* The next batch, the next agent or the end: nothing that is stale gets lost.
LEMMA ProceedInvariant ==
    ASSUME IndexInv, NEW a \in Admins, Migrating(a),
           NEW owners \in SUBSET Owners, NEW stale \in SUBSET Chunks,
           Proceed(a, owners, stale), UNCHANGED <<writer, profile>>,
           index' \in [Chunks -> Profiles \cup {None}],
           \A c \in Chunks : \/ index'[c] \in {None, profile}
                             \/ OwnerOf[c] \in owners \/ c \in stale
    PROVE  IndexInv'
<1>1. /\ admin[a] \in AdminStates /\ admin[a].at # "idle" /\ lock.migration = a
      /\ admin \in [Admins -> AdminStates] /\ profile \in Profiles
      /\ activating \in BOOLEAN /\ rebuilding \in BOOLEAN
      /\ outcome = "running" /\ FlagOf(admin[a]) /\ admin[a].route = profile
  BY MigratingHolds
<1>2. CASE owners = {} /\ stale = {}
  <2>1. Finish(a, "rebuilt")
    BY <1>2 DEF Proceed
  <2>2. profile' \in Profiles /\ \A c \in Chunks : index'[c] \in {None, profile'}
    BY <1>1, <1>2
  <2> QED BY <1>1, <2>1, <2>2, FinishStep
<1>3. CASE ~(owners = {} /\ stale = {})
  <2> DEFINE r == [admin[a] EXCEPT !.at = IF stale = {} THEN "visiting" ELSE "embedding",
                                   !.owners = owners, !.stale = stale, !.batch = {}]
  <2>1. admin' = [admin EXCEPT ![a] = r]
    BY <1>3 DEF Proceed
  <2>2. /\ r \in AdminStates /\ r.at \in {"visiting", "embedding"}
        /\ r.job = admin[a].job /\ r.route = profile'
        /\ r.owners = owners /\ r.stale = stale
        /\ r.at = "visiting" => r.stale = {}
    BY <1>1 DEF AdminStates
  <2>3. UNCHANGED <<lock, activating, rebuilding, outcome>>
    BY <1>3 DEF Proceed
  <2>4. IF r.job = "activate" THEN activating' ELSE rebuilding'
    BY <1>1, <2>2, <2>3 DEF FlagOf
  <2>5. \A c \in Chunks : \/ index'[c] \in {None, profile'}
                          \/ OwnerOf[c] \in r.owners \/ c \in r.stale
    BY <2>2
  <2>6. /\ profile' \in Profiles /\ activating' \in BOOLEAN /\ rebuilding' \in BOOLEAN
        /\ outcome' = "running" /\ UNCHANGED <<lock, writer>>
    BY <1>1, <2>3
  <2> HIDE DEF r
  <2> QED BY <1>1, <2>1, <2>2, <2>4, <2>5, <2>6, MigrationWork
<1> QED BY <1>2, <1>3

\* The lists: the agents that own rows, and the rows of an agent that are stale.
LEMMA ListInvariant ==
    ASSUME IndexInv, NEW a \in Admins,
           AgentsListed(a) \/ \E o \in Owners : ChunksListed(a, o)
    PROVE  IndexInv'
<1>1. Migrating(a)
  BY DEF AgentsListed, ChunksListed, Migrating
<1>2. /\ admin[a] \in AdminStates /\ admin[a].route = profile
      /\ index \in [Chunks -> Profiles \cup {None}]
  BY <1>1, MigratingHolds
<1>3. CASE AgentsListed(a)
  <2> DEFINE owners == {OwnerOf[c] : c \in {d \in Chunks : index[d] # None}}
  <2>1. owners \in SUBSET Owners
    BY DataAssumption
  <2>2. \A c \in Chunks : index'[c] \in {None, profile} \/ OwnerOf[c] \in owners
    BY <1>3 DEF AgentsListed
  <2>3. Proceed(a, owners, {}) /\ UNCHANGED <<writer, profile, index>>
    BY <1>3 DEF AgentsListed, AdminOnly
  <2> HIDE DEF owners
  <2> QED BY <1>1, <1>2, <2>1, <2>2, <2>3, ProceedInvariant
<1>4. ASSUME NEW o \in Owners, ChunksListed(a, o)
      PROVE  IndexInv'
  <2> DEFINE owners == admin[a].owners \ {o}
             stale == StaleRows(o, profile)
  <2>1. owners \in SUBSET Owners /\ stale \in SUBSET Chunks
    BY <1>2 DEF AdminStates, StaleRows
  <2>2. Proceed(a, owners, stale) /\ UNCHANGED <<writer, profile, index>>
    BY <1>2, <1>4 DEF ChunksListed, AdminOnly
  <2>3. \A c \in Chunks : index[c] \in {None, profile} \/ OwnerOf[c] \in admin[a].owners
    BY <1>4 DEF ChunksListed, IndexInv, RebuildCovers, Migrating, Pending
  <2>4. \A c \in Chunks : \/ index'[c] \in {None, profile}
                          \/ OwnerOf[c] \in owners \/ c \in stale
    BY <2>2, <2>3 DEF StaleRows
  <2> HIDE DEF owners, stale
  <2> QED BY <1>1, <1>2, <2>1, <2>2, <2>4, ProceedInvariant
<1> QED BY <1>3, <1>4

\* A batch is embedded, and stored.
LEMMA BatchInvariant ==
    ASSUME IndexInv, NEW a \in Admins,
           BatchUpdated(a) \/ \E rows \in SUBSET Chunks : BatchEmbedded(a, rows)
    PROVE  IndexInv'
<1>1. Migrating(a) /\ admin[a].at \in {"embedding", "updating"}
  BY DEF BatchUpdated, BatchEmbedded, Migrating
<1>2. /\ admin[a] \in AdminStates /\ admin[a].at # "idle" /\ lock.migration = a
      /\ admin \in [Admins -> AdminStates]
      /\ index \in [Chunks -> Profiles \cup {None}] /\ profile \in Profiles
      /\ activating \in BOOLEAN /\ rebuilding \in BOOLEAN
      /\ outcome = "running" /\ FlagOf(admin[a]) /\ admin[a].route = profile
  BY <1>1, MigratingHolds
<1>3. \A c \in Chunks : index[c] \in {None, profile} \/ Pending(a, c)
  BY <1>1 DEF IndexInv, RebuildCovers
<1>4. CASE BatchUpdated(a)
  <2>1. /\ index' = [c \in Chunks |-> IF c \in admin[a].batch THEN profile ELSE index[c]]
        /\ Proceed(a, admin[a].owners, admin[a].stale \ admin[a].batch)
        /\ UNCHANGED <<writer, profile>>
    BY <1>2, <1>4 DEF BatchUpdated, AdminOnly
  <2>2. index' \in [Chunks -> Profiles \cup {None}]
    BY <1>2, <2>1
  <2>3. \A c \in Chunks : \/ index'[c] \in {None, profile} \/ OwnerOf[c] \in admin[a].owners
                          \/ c \in admin[a].stale \ admin[a].batch
    BY <1>3, <2>1 DEF Pending
  <2>4. /\ admin[a].owners \in SUBSET Owners
        /\ admin[a].stale \ admin[a].batch \in SUBSET Chunks
    BY <1>2 DEF AdminStates
  <2> QED BY <1>1, <2>1, <2>2, <2>3, <2>4, ProceedInvariant
<1>5. ASSUME NEW rows \in SUBSET Chunks, BatchEmbedded(a, rows)
      PROVE  IndexInv'
  <2> DEFINE r == [admin[a] EXCEPT !.at = "updating", !.batch = rows]
  <2>1. admin' = [admin EXCEPT ![a] = r]
    BY <1>2, <1>5 DEF BatchEmbedded, AdminStates
  <2>2. /\ r \in AdminStates /\ r.at = "updating" /\ r.job = admin[a].job
        /\ r.route = profile /\ r.owners = admin[a].owners /\ r.stale = admin[a].stale
    BY <1>2 DEF AdminStates
  <2>3. UNCHANGED <<lock, writer, index, profile, activating, rebuilding, outcome>>
    BY <1>5 DEF BatchEmbedded, AdminOnly
  <2>4. IF r.job = "activate" THEN activating' ELSE rebuilding'
    BY <1>2, <2>2, <2>3 DEF FlagOf
  <2>5. \A c \in Chunks : \/ index'[c] \in {None, profile'}
                          \/ OwnerOf[c] \in r.owners \/ c \in r.stale
    BY <1>3, <2>2, <2>3 DEF Pending
  <2> HIDE DEF r
  <2> QED BY <1>2, <2>1, <2>2, <2>3, <2>4, <2>5, MigrationWork
<1> QED BY <1>4, <1>5

\* Every step of a migration keeps the invariant.
LEMMA MigrateInvariant ==
    ASSUME IndexInv, NEW a \in Admins, Migrate(a)
    PROVE  IndexInv'
<1>1. CASE RebuildFails(a)
  <2>1. /\ Migrating(a) /\ Finish(a, "failed") /\ UNCHANGED <<writer, index, profile>>
    BY <1>1 DEF RebuildFails, AdminOnly
  <2> QED BY <2>1, MigratingHolds, FinishStep
<1> QED BY <1>1, TestInvariant, BeginInvariant, ListInvariant, BatchInvariant DEF Migrate

-----------------------------------------------------------------------------
(***************************************************************************)
(* The theorems.                                                           *)
(***************************************************************************)
\* The program starts with nothing under way.
LEMMA InitInvariant == Init => IndexInv
<1> SUFFICES ASSUME Init PROVE IndexInv
  OBVIOUS
<1>1. TypeOK
  <2>1. FreeLock \in Locks
    BY DEF FreeLock, Locks
  <2>2. IdleWriter \in WriterStates /\ IdleAdmin \in AdminStates
    BY DEF IdleWriter, IdleAdmin, WriterStates, AdminStates, Jobs
  <2> QED BY <2>1, <2>2 DEF Init, TypeOK, Locks, WriterStates, AdminStates
<1>2. LeasesCounted
  <2>1. Holders = {}
    BY DEF Init, Holders, Holds, Granted, Inside, IdleWriter
  <2> QED BY <2>1, FS_EmptySet DEF Init, LeasesCounted, FreeLock
<1>3. WritersFollow /\ OneMigration /\ RebuildCovers /\ RebuiltIndexIsUniform
  BY DEF Init, WritersFollow, OneMigration, RebuildCovers, RebuiltIndexIsUniform, Inside,
         Migrating, IdleWriter, IdleAdmin
<1> QED BY <1>1, <1>2, <1>3 DEF IndexInv

\* The deletions that ask nobody only remove rows.
LEMMA DirectDeletionInvariant ==
    ASSUME IndexInv, NEW rows, DeletedDirectly(rows)
    PROVE  IndexInv'
<1>1. /\ UNCHANGED <<lock, profile, writer, admin, activating, rebuilding, outcome>>
      /\ index' \in [Chunks -> Profiles \cup {None}]
      /\ \A c \in Chunks : index'[c] \in {None, index[c]}
  BY DEF DeletedDirectly, Without, IndexInv, TypeOK
<1>2. LockOK'
  BY <1>1, InvGivesLockOK, IdleKeepsCount
<1>3. TypeOK'
  BY <1>1 DEF IndexInv, TypeOK
<1>4. WritersFollow' /\ OneMigration'
  BY <1>1 DEF IndexInv, WritersFollow, OneMigration, Inside
<1>5. RebuildCovers'
  BY <1>1 DEF IndexInv, RebuildCovers, Migrating, Pending
<1>6. RebuiltIndexIsUniform'
  BY <1>1 DEF IndexInv, RebuiltIndexIsUniform
<1> QED BY <1>2, <1>3, <1>4, <1>5, <1>6 DEF IndexInv, LockOK

\* The end of the program keeps the settings and the rows.
LEMMA RestartInvariant ==
    ASSUME IndexInv, Restart
    PROVE  IndexInv'
<1>1. LockOK'
  BY RestartKeepsCount
<1>2. TypeOK'
  BY <1>1 DEF IndexInv, TypeOK, Restart, IdleWriter, IdleAdmin, Jobs, LockOK, Locks
<1>3. WritersFollow' /\ OneMigration' /\ RebuildCovers' /\ RebuiltIndexIsUniform'
  BY DEF Restart, WritersFollow, OneMigration, RebuildCovers, RebuiltIndexIsUniform, Inside,
         Migrating, IdleWriter, IdleAdmin
<1> QED BY <1>1, <1>2, <1>3 DEF IndexInv, LockOK

\* Every step keeps the invariant.
LEMMA NextInvariant == IndexInv /\ [Next]_vars => IndexInv'
<1> SUFFICES ASSUME IndexInv, [Next]_vars PROVE IndexInv'
  OBVIOUS
<1>1. ASSUME NEW w \in Writers, NEW job \in Jobs, NEW rows \in Documents \ {{}},
             AskToWrite(w, job, rows)
      PROVE  IndexInv'
  <2>1. rows \in SUBSET Chunks
    BY DEF Documents
  <2> QED BY <1>1, <2>1, AskToWriteInvariant
<1>2. ASSUME NEW w \in Writers, Write(w) PROVE IndexInv'
  BY <1>2, WriteInvariant
<1>3. ASSUME NEW a \in Admins, NEW p \in Profiles, NEW testing \in BOOLEAN,
             Activate(a, p, testing)
      PROVE  IndexInv'
  BY <1>3, StartInvariant
<1>4. ASSUME NEW a \in Admins, Retry(a) PROVE IndexInv'
  BY <1>4, StartInvariant
<1>5. ASSUME NEW a \in Admins, Migrate(a) PROVE IndexInv'
  BY <1>5, MigrateInvariant
<1>6. ASSUME NEW rows \in Documents, DeletedDirectly(rows) PROVE IndexInv'
  BY <1>6, DirectDeletionInvariant
<1>7. CASE Restart
  BY <1>7, RestartInvariant
<1>8. CASE UNCHANGED vars
  <2>1. LockOK'
    BY <1>8, InvGivesLockOK, IdleKeepsCount DEF vars
  <2>2. TypeOK'
    BY <1>8 DEF vars, IndexInv, TypeOK
  <2>3. WritersFollow' /\ OneMigration' /\ RebuildCovers' /\ RebuiltIndexIsUniform'
    BY <1>8 DEF vars, IndexInv, WritersFollow, OneMigration, RebuildCovers, Pending,
                RebuiltIndexIsUniform, Inside, Migrating
  <2> QED BY <2>1, <2>2, <2>3 DEF IndexInv, LockOK
<1>9. CASE Next
  <2>1. \A w \in Writers, job \in Jobs, rows \in Documents \ {{}} :
           AskToWrite(w, job, rows) => IndexInv'
    BY <1>1
  <2>2. \A a \in Admins, p \in Profiles, testing \in BOOLEAN :
           Activate(a, p, testing) => IndexInv'
    BY <1>3
  <2>3. \A a \in Admins : Retry(a) \/ Migrate(a) => IndexInv'
    BY <1>4, <1>5
  <2> QED BY <1>2, <1>6, <1>7, <1>9, <2>1, <2>2, <2>3 DEF Next
<1> QED BY <1>8, <1>9

\* The invariant of the index holds in every state the program reaches.
THEOREM Invariance == Spec => []IndexInv
BY InitInvariant, NextInvariant, PTL DEF Spec

\* Every variable of the index and its coordinator keeps its type.
THEOREM TypeCorrect == Spec => []TypeOK
<1>1. IndexInv => TypeOK
  BY DEF IndexInv
<1> QED BY <1>1, Invariance, PTL

\* A migration never runs while a writer holds a lease (RagIndexCoordinator).
THEOREM MigrationHoldsAlone == Spec => []MigrationIsExclusive
<1>1. IndexInv => MigrationIsExclusive
  <2> SUFFICES ASSUME IndexInv, lock.migration # None PROVE Holders = {}
    BY DEF MigrationIsExclusive
  <2>1. lock.migration \in Admins
    BY DEF IndexInv, TypeOK
  <2> QED BY <2>1, MigrationIsAlone DEF Holders
<1> QED BY <1>1, Invariance, PTL

\* What a writer or a rebuild stores belongs to the active profile: it cannot change
\* under their leases.
THEOREM RouteNeverStale == Spec => []RouteStaysActive
<1>1. IndexInv => RouteStaysActive
  BY DEF IndexInv, WritersFollow, RebuildCovers, RouteStaysActive
<1> QED BY <1>1, Invariance, PTL

\* A retry that waits for its lease keeps the route it resolved before.
THEOREM RetryNeverTurnedAway == Spec => []RetryKeepsItsRoute
<1>1. IndexInv => RetryKeepsItsRoute
  BY DEF IndexInv, OneMigration, RetryKeepsItsRoute
<1> QED BY <1>1, Invariance, PTL

\* A rebuild that reports success leaves no row of another profile behind.
THEOREM RebuildIsComplete == Spec => []RebuiltIndexIsUniform
<1>1. IndexInv => RebuiltIndexIsUniform
  BY DEF IndexInv
<1> QED BY <1>1, Invariance, PTL

\* The only steps that change the index remove rows or store the active profile's vectors.
LEMMA IndexSteps ==
    ASSUME IndexInv, [Next]_vars, NEW c \in Chunks, index'[c] # index[c]
    PROVE  index'[c] \in {None, profile} /\ (index[c] = profile => index'[c] = None)
<1>1. profile # None
  BY ProcessAssumption DEF IndexInv, TypeOK
<1>2. index \in [Chunks -> Profiles \cup {None}]
  BY DEF IndexInv, TypeOK
<1>3. ASSUME NEW w \in Writers, Write(w)
      PROVE  index'[c] \in {None, profile} /\ (index[c] = profile => index'[c] = None)
  <2>1. \/ RowsRemoved(w) \/ \E d \in Chunks : RowStored(w, d)
    BY <1>3 DEF Write, BeginWriting, Embedded, WriteFails
  <2>2. CASE RowsRemoved(w)
    BY <2>2 DEF RowsRemoved, Without
  <2>3. ASSUME NEW d \in Chunks, RowStored(w, d)
        PROVE  index'[c] \in {None, profile} /\ (index[c] = profile => index'[c] = None)
    <3>1. Inside(w) /\ writer[w].job # "remove"
      BY <2>3 DEF RowStored, Inside, IndexInv, WritersFollow
    <3>2. writer[w].route = profile
      BY <3>1 DEF IndexInv, WritersFollow
    <3> QED BY <1>1, <1>2, <2>3, <3>2 DEF RowStored
  <2> QED BY <2>1, <2>2, <2>3
<1>4. ASSUME NEW a \in Admins, Retry(a) \/ Migrate(a)
      PROVE  index'[c] \in {None, profile} /\ (index[c] = profile => index'[c] = None)
  <2>1. BatchUpdated(a)
    BY <1>4 DEF Retry, Migrate, ConnectionTested, ConnectionTestFails, SwitchProfile,
                BeginRetry, AgentsListed, ChunksListed, BatchEmbedded, RebuildFails
  <2>2. admin[a].route = profile
    BY <2>1, MigratingHolds DEF BatchUpdated, Migrating
  <2> QED BY <2>1, <2>2 DEF BatchUpdated
<1>5. ASSUME NEW rows \in Documents, DeletedDirectly(rows)
      PROVE  index'[c] \in {None, profile} /\ (index[c] = profile => index'[c] = None)
  BY <1>5 DEF DeletedDirectly, Without
<1>6. \/ \E w \in Writers : Write(w)
      \/ \E a \in Admins : Retry(a) \/ Migrate(a)
      \/ \E rows \in Documents : DeletedDirectly(rows)
  BY DEF Next, vars, AskToWrite, Activate, Restart
<1> QED BY <1>3, <1>4, <1>5, <1>6

\* What a rebuild has stored stays stored until it is deleted, and nothing is stored in
\* another space than the active one: a retry finds the work of the attempt that failed.
THEOREM CheckpointsStay == Spec => CheckpointsLast
<1>1. IndexInv /\ [Next]_vars =>
        [\A c \in Chunks : index'[c] # index[c] => index'[c] \in {None, profile}
                           /\ (index[c] = profile => index'[c] = None)]_vars
  BY IndexSteps
<1> QED BY <1>1, Invariance, PTL DEF Spec, CheckpointsLast

-----------------------------------------------------------------------------
(***************************************************************************)
(* The leases are given as IndexLock promises.  That a step leaves nobody  *)
(* waiting in vain rests on the same being true before it: a migration     *)
(* that finds no writer and no migration at work finds no other waiting.   *)
(***************************************************************************)
\* In the lock l every waiter waits for somebody.
Served(l) ==
    /\ l.migrationWaiters # << >> => l.migration # None \/ l.writers # 0
    /\ l.writerWaiters # {} => l.migration # None \/ l.migrationWaiters # << >>

\* What draining the waiters gives away: nothing, the next migration its lease, or all the
\* waiting writers theirs.  Nobody is left who waits in vain.
LEMMA DrainServes ==
    ASSUME NEW l \in Locks
    PROVE  LET d == DrainWaiters(l)
           IN  /\ Served(d)
               /\ \/ d = l
                  \/ /\ l.migration = None /\ l.migrationWaiters # << >>
                     /\ d.migration = Head(l.migrationWaiters)
                     /\ d.migrationWaiters = Tail(l.migrationWaiters)
                     /\ d.writerWaiters = l.writerWaiters
                  \/ /\ l.migration = None /\ l.migrationWaiters = << >>
                     /\ d.writerWaiters = {} /\ d.migration = None
                     /\ d.migrationWaiters = << >>
<1>1. CASE l.migration = None /\ l.writers = 0 /\ l.migrationWaiters # << >>
  <2>1. Head(l.migrationWaiters) \in Admins
    BY <1>1 DEF Locks
  <2>2. /\ DrainWaiters(l).migration = Head(l.migrationWaiters)
        /\ DrainWaiters(l).migrationWaiters = Tail(l.migrationWaiters)
        /\ DrainWaiters(l).writerWaiters = l.writerWaiters
    BY <1>1 DEF DrainWaiters, Locks
  <2> QED BY <1>1, <2>1, <2>2, ProcessAssumption DEF Served
<1>2. CASE /\ l.migration = None /\ ~(l.writers = 0 /\ l.migrationWaiters # << >>)
           /\ l.migrationWaiters = << >> /\ l.writerWaiters # {}
  BY <1>2 DEF DrainWaiters, Locks, Served
<1>3. CASE \/ l.migration # None
           \/ /\ ~(l.writers = 0 /\ l.migrationWaiters # << >>)
              /\ ~(l.migrationWaiters = << >> /\ l.writerWaiters # {})
  BY <1>3 DEF DrainWaiters, Served
<1> QED BY <1>1, <1>2, <1>3

\* The invariant, and with it what is promised of every state.
LeasesInv == IndexInv /\ Served(lock)

\* The count is zero exactly when no writer holds a lease.
LEMMA NoHolders ==
    ASSUME LockOK PROVE Holders = {} <=> lock.writers = 0
<1>1. IsFiniteSet(Holders)
  BY HoldersInOrder, ProcessAssumption, FS_Subset
<1> QED BY <1>1, FS_EmptySet DEF LockOK, LeasesCounted

\* A migration has the index alone, and nobody waits in vain.
LEMMA PromisesKept == LeasesInv => Lock!Exclusive /\ Lock!NobodyWaitsInVain
<1> SUFFICES ASSUME LeasesInv PROVE Lock!Exclusive /\ Lock!NobodyWaitsInVain
  OBVIOUS
<1>1. LockOK
  BY InvGivesLockOK DEF LeasesInv
<1>2. lock.migration # None => lock.writers = 0
  BY <1>1 DEF LockOK, LeasesCounted
<1> QED BY <1>1, <1>2, NoHolders DEF LeasesInv, Served, Lock!Exclusive, Lock!NobodyWaitsInVain

\* A writer asks.
LEMMA AskServes ==
    ASSUME LeasesInv, NEW w \in Writers, NEW job \in Jobs, NEW rows \in SUBSET Chunks,
           AskToWrite(w, job, rows)
    PROVE  Served(lock') /\ Lock!AskToWrite(w)
<1>1. lock \in Locks /\ LockOK /\ TypeOK /\ Served(lock)
  BY InvGivesLockOK DEF LeasesInv, LockOK, IndexInv
<1>2. w \notin Holders \cup lock.writerWaiters
  BY <1>1 DEF LockOK, LeasesCounted, AskToWrite, Holders, Holds, Granted, Inside
<1>3. \/ lock'.writerWaiters = lock.writerWaiters /\ Holders' = Holders \cup {w}
      \/ lock'.writerWaiters = lock.writerWaiters \cup {w} /\ Holders' = Holders
  BY <1>1, AskKeepsCount
<1>4. lock' = AcquireWriter(lock, w)
  BY DEF AskToWrite
<1>5. CASE lock.migration = None /\ lock.migrationWaiters = << >>
  <2>1. /\ lock'.migration = lock.migration /\ lock'.migrationWaiters = << >>
        /\ lock'.writerWaiters = lock.writerWaiters
    BY <1>1, <1>4, <1>5 DEF AcquireWriter, Locks
  <2>2. Holders' = Holders \cup {w}
    BY <1>2, <1>3, <2>1
  <2> QED BY <1>1, <1>2, <1>5, <2>1, <2>2 DEF Served, Lock!AskToWrite
<1>6. CASE ~(lock.migration = None /\ lock.migrationWaiters = << >>)
  <2>1. /\ lock'.migration = lock.migration /\ lock'.migrationWaiters = lock.migrationWaiters
        /\ lock'.writerWaiters = lock.writerWaiters \cup {w} /\ lock'.writers = lock.writers
    BY <1>1, <1>4, <1>6 DEF AcquireWriter, Locks
  <2>2. Holders' = Holders
    BY <1>2, <1>3, <2>1
  <2> QED BY <1>1, <1>2, <1>6, <2>1, <2>2 DEF Served, Lock!AskToWrite
<1> QED BY <1>5, <1>6

\* A writer leaves.
LEMMA LeaveServes ==
    ASSUME LeasesInv, NEW w \in Writers, Inside(w), Leave(w)
    PROVE  Served(lock') /\ Lock!StopWriting(w)
<1> DEFINE k == [lock EXCEPT !.writers = IF @ > 0 THEN @ - 1 ELSE 0]
<1>1. lock \in Locks /\ LockOK /\ TypeOK
  BY InvGivesLockOK DEF LeasesInv, LockOK, IndexInv
<1>2. w \in Holders /\ Holders' = (Holders \ {w}) \cup (lock.writerWaiters \ lock'.writerWaiters)
  BY <1>1, LeaveKeepsCount DEF Holders, Holds
<1>3. /\ k \in Locks /\ k.migration = lock.migration
      /\ k.writerWaiters = lock.writerWaiters /\ k.migrationWaiters = lock.migrationWaiters
  BY <1>1 DEF Locks
<1>4. lock' = DrainWaiters(k)
  BY DEF Leave, ReleaseWriter
<1> HIDE DEF k
<1>5. /\ Served(lock')
      /\ \/ lock' = k
         \/ /\ k.migration = None /\ k.migrationWaiters # << >>
            /\ lock'.migration = Head(k.migrationWaiters)
            /\ lock'.migrationWaiters = Tail(k.migrationWaiters)
            /\ lock'.writerWaiters = k.writerWaiters
         \/ /\ k.migration = None /\ k.migrationWaiters = << >>
            /\ lock'.writerWaiters = {} /\ lock'.migration = None
            /\ lock'.migrationWaiters = << >>
  BY <1>3, <1>4, DrainServes
<1>6. Lock!PassOn(Holders \ {w}, lock.migration)
  BY <1>2, <1>3, <1>5 DEF Lock!PassOn
<1> QED BY <1>2, <1>5, <1>6 DEF Lock!StopWriting

\* A migration asks: one that gets its lease at once finds no other waiting.
LEMMA MigrationAskServes ==
    ASSUME LeasesInv, NEW a \in Admins, lock' = AcquireMigration(lock, a), UNCHANGED writer
    PROVE  Served(lock') /\ Lock!AskToMigrate(a)
<1>1. lock \in Locks /\ LockOK /\ Served(lock)
  BY InvGivesLockOK DEF LeasesInv, LockOK
<1>2. Holders' = Holders
  BY <1>1, MigrationAsksKeepsCount
<1>3. CASE lock.migration = None /\ lock.writers = 0
  <2>1. /\ lock'.migration = a /\ lock'.migrationWaiters = lock.migrationWaiters
        /\ lock'.writerWaiters = lock.writerWaiters
    BY <1>1, <1>3 DEF AcquireMigration, Locks
  <2> QED BY <1>1, <1>2, <1>3, <2>1, ProcessAssumption DEF Served, Lock!AskToMigrate
<1>4. CASE ~(lock.migration = None /\ lock.writers = 0)
  <2>1. /\ lock'.migration = lock.migration /\ lock'.writers = lock.writers
        /\ lock'.migrationWaiters = Append(lock.migrationWaiters, a)
        /\ lock'.writerWaiters = lock.writerWaiters
    BY <1>1, <1>4 DEF AcquireMigration, Locks
  <2>2. Append(lock.migrationWaiters, a) # << >>
    BY <1>1 DEF Locks
  <2> QED BY <1>2, <1>4, <2>1, <2>2 DEF Served, Lock!AskToMigrate
<1> QED BY <1>3, <1>4

\* A migration ends.
LEMMA MigrationEndServes ==
    ASSUME LeasesInv, NEW a \in Admins, lock.migration = a,
           lock' = ReleaseMigration(lock, a), UNCHANGED writer
    PROVE  Served(lock') /\ Lock!StopMigrating
<1> DEFINE k == [lock EXCEPT !.migration = IF @ = a THEN None ELSE @]
<1>1. lock \in Locks /\ LockOK
  BY InvGivesLockOK DEF LeasesInv, LockOK
<1>2. Holders' = Holders \cup (lock.writerWaiters \ lock'.writerWaiters)
  BY <1>1, MigrationEndsKeepsCount
<1>3. /\ k \in Locks /\ k.migration = None
      /\ k.writerWaiters = lock.writerWaiters /\ k.migrationWaiters = lock.migrationWaiters
  BY <1>1 DEF Locks
<1>4. lock' = DrainWaiters(k)
  BY DEF ReleaseMigration
<1> HIDE DEF k
<1>5. /\ Served(lock')
      /\ \/ lock' = k
         \/ /\ k.migration = None /\ k.migrationWaiters # << >>
            /\ lock'.migration = Head(k.migrationWaiters)
            /\ lock'.migrationWaiters = Tail(k.migrationWaiters)
            /\ lock'.writerWaiters = k.writerWaiters
         \/ /\ k.migration = None /\ k.migrationWaiters = << >>
            /\ lock'.writerWaiters = {} /\ lock'.migration = None
            /\ lock'.migrationWaiters = << >>
  BY <1>3, <1>4, DrainServes
<1>6. Lock!PassOn(Holders, None)
  BY <1>2, <1>3, <1>5 DEF Lock!PassOn
<1>7. lock.migration # None
  BY ProcessAssumption
<1> QED BY <1>5, <1>6, <1>7 DEF Lock!StopMigrating

\* A step that leaves the leases alone.
LEMMA IdleServes ==
    ASSUME LeasesInv, UNCHANGED lock, Holders' = Holders
    PROVE  Served(lock') /\ UNCHANGED Lock!vars
BY DEF LeasesInv, Lock!vars

\* The writers: what a step of theirs does to the leases.
LEMMA WriteServes ==
    ASSUME LeasesInv, NEW w \in Writers, Write(w)
    PROVE  Served(lock') /\ (Lock!StopWriting(w) \/ UNCHANGED Lock!vars)
<1>1. LockOK /\ writer \in [Writers -> WriterStates]
  BY InvGivesLockOK DEF LeasesInv, IndexInv, TypeOK, WriterStates
<1>2. \/ Inside(w) /\ Leave(w)
      \/ /\ Holds(w) /\ UNCHANGED lock
         /\ \E r \in WriterStates : /\ writer' = [writer EXCEPT ![w] = r]
                                    /\ r.at \in {"encoding", "removing", "storing"}
  <2>1. CASE BeginWriting(w)
    <3> DEFINE r == IF writer[w].job = "remove"
                      THEN [writer[w] EXCEPT !.at = "removing"]
                      ELSE [writer[w] EXCEPT !.at = "encoding", !.route = profile]
    <3>1. r \in WriterStates /\ r.at \in {"encoding", "removing"}
      <4>1. profile \in Profiles /\ writer[w] \in WriterStates
        BY <1>1 DEF LeasesInv, IndexInv, TypeOK
      <4> QED BY <4>1 DEF WriterStates
    <3>2. writer' = [writer EXCEPT ![w] = r]
      BY <1>1, <2>1 DEF BeginWriting, WriterStates
    <3> HIDE DEF r
    <3> QED BY <2>1, <3>1, <3>2 DEF BeginWriting, Holds
  <2>2. CASE Embedded(w)
    <3> DEFINE r == [writer[w] EXCEPT !.at =
                       IF writer[w].job = "replace" THEN "removing" ELSE "storing"]
    <3>1. r \in WriterStates /\ r.at \in {"removing", "storing"}
      BY <1>1 DEF WriterStates
    <3>2. writer' = [writer EXCEPT ![w] = r]
      BY <1>1, <2>2 DEF Embedded, WriterStates
    <3> HIDE DEF r
    <3> QED BY <2>2, <3>1, <3>2 DEF Embedded, Holds, Inside
  <2>3. CASE RowsRemoved(w)
    <3>1. CASE writer[w].job = "remove"
      BY <2>3, <3>1 DEF RowsRemoved, Inside
    <3>2. CASE writer[w].job # "remove"
      <4> DEFINE r == [writer[w] EXCEPT !.at = "storing"]
      <4>1. r \in WriterStates /\ r.at = "storing"
        BY <1>1 DEF WriterStates
      <4>2. writer' = [writer EXCEPT ![w] = r]
        BY <1>1, <2>3, <3>2 DEF RowsRemoved, WriterStates
      <4> HIDE DEF r
      <4> QED BY <2>3, <3>2, <4>1, <4>2 DEF RowsRemoved, Holds, Inside
    <3> QED BY <3>1, <3>2
  <2>4. ASSUME NEW c \in Chunks, RowStored(w, c)
        PROVE  <1>2!:
    <3>1. CASE writer[w].rows = {c} \/ profile # writer[w].route
      BY <2>4, <3>1 DEF RowStored, Inside
    <3>2. CASE ~(writer[w].rows = {c} \/ profile # writer[w].route)
      <4> DEFINE r == [writer[w] EXCEPT !.rows = @ \ {c}]
      <4>1. r \in WriterStates /\ r.at = "storing"
        BY <1>1, <2>4 DEF WriterStates, RowStored
      <4>2. writer' = [writer EXCEPT ![w] = r]
        BY <1>1, <2>4, <3>2 DEF RowStored, WriterStates
      <4> HIDE DEF r
      <4> QED BY <2>4, <3>2, <4>1, <4>2 DEF RowStored, Holds, Inside
    <3> QED BY <3>1, <3>2
  <2>5. CASE WriteFails(w)
    BY <2>5 DEF WriteFails
  <2> QED BY <2>1, <2>2, <2>3, <2>4, <2>5 DEF Write
<1>3. CASE Inside(w) /\ Leave(w)
  BY <1>3, LeaveServes
<1>4. ASSUME Holds(w), UNCHANGED lock, NEW r \in WriterStates,
             writer' = [writer EXCEPT ![w] = r], r.at \in {"encoding", "removing", "storing"}
      PROVE  Served(lock') /\ UNCHANGED Lock!vars
  <2>1. writer'[w] = r /\ \A v \in Writers \ {w} : writer'[v] = writer[v]
    BY <1>1, <1>4
  <2>2. Holders' = Holders
    BY <1>1, <1>4, <2>1, WorkKeepsCount DEF Inside
  <2> QED BY <1>4, <2>2, IdleServes
<1> QED BY <1>2, <1>3, <1>4

\* The migrations: what a step of theirs does to the leases.
LEMMA MigrateServes ==
    ASSUME LeasesInv, NEW a \in Admins,
           \/ Migrate(a) \/ Retry(a)
           \/ \E p \in Profiles, testing \in BOOLEAN : Activate(a, p, testing)
    PROVE  Served(lock') /\ (Lock!AskToMigrate(a) \/ Lock!StopMigrating \/ UNCHANGED Lock!vars)
<1>1. LockOK
  BY InvGivesLockOK DEF LeasesInv
<1>2. \/ UNCHANGED lock
      \/ lock' = AcquireMigration(lock, a)
      \/ lock.migration = a /\ lock' = ReleaseMigration(lock, a)
  <2>1. Migrating(a) => lock.migration = a
    BY DEF LeasesInv, IndexInv, RebuildCovers
  <2>2. CASE Retry(a) \/ \E p \in Profiles, testing \in BOOLEAN : Activate(a, p, testing)
    BY <2>2 DEF Retry, Activate
  <2>3. CASE ConnectionTested(a) \/ ConnectionTestFails(a)
    BY <2>3 DEF ConnectionTested, ConnectionTestFails
  <2>4. CASE SwitchProfile(a) \/ BeginRetry(a)
    BY <2>4 DEF SwitchProfile, BeginRetry, MaySwitch, HasMigration, Finish
  <2>5. CASE AgentsListed(a) \/ (\E o \in Owners : ChunksListed(a, o)) \/ BatchUpdated(a)
    <3>1. Migrating(a)
      BY <2>5 DEF AgentsListed, ChunksListed, BatchUpdated, Migrating
    <3>2. \E owners, stale : Proceed(a, owners, stale)
      BY <2>5 DEF AgentsListed, ChunksListed, BatchUpdated
    <3> QED BY <2>1, <3>1, <3>2 DEF Proceed, Finish
  <2>6. CASE RebuildFails(a) \/ \E rows \in SUBSET Chunks : BatchEmbedded(a, rows)
    BY <2>1, <2>6 DEF RebuildFails, BatchEmbedded, Finish
  <2> QED BY <2>2, <2>3, <2>4, <2>5, <2>6 DEF Migrate
<1>3. UNCHANGED writer
  BY DEF Migrate, Retry, Activate, ConnectionTested, ConnectionTestFails, SwitchProfile, BeginRetry,
         AgentsListed, ChunksListed, BatchEmbedded, BatchUpdated, RebuildFails, AdminOnly
<1>4. CASE UNCHANGED lock
  BY <1>1, <1>3, <1>4, IdleKeepsCount, IdleServes
<1>5. CASE lock' = AcquireMigration(lock, a)
  BY <1>3, <1>5, MigrationAskServes
<1>6. CASE lock.migration = a /\ lock' = ReleaseMigration(lock, a)
  BY <1>3, <1>6, MigrationEndServes
<1> QED BY <1>2, <1>4, <1>5, <1>6

\* The end of the program takes all leases.
LEMMA RestartServes ==
    ASSUME Restart PROVE Served(lock') /\ Lock!Crash
BY RestartKeepsCount DEF Restart, FreeLock, Served, Lock!Crash, Lock!Empty

\* Every step of the callers is a step of IndexLock or leaves its variables alone.
LEMMA StepServes ==
    ASSUME LeasesInv, [Next]_vars
    PROVE  /\ Served(lock')
           /\ \/ \E w \in Writers : Lock!AskToWrite(w) \/ Lock!StopWriting(w)
              \/ \E a \in Admins : Lock!AskToMigrate(a)
              \/ Lock!StopMigrating \/ Lock!Crash \/ UNCHANGED Lock!vars
<1>1. LockOK
  BY InvGivesLockOK DEF LeasesInv
<1>2. CASE \E w \in Writers, job \in Jobs, rows \in Documents \ {{}} : AskToWrite(w, job, rows)
  <2>1. Documents \subseteq SUBSET Chunks
    BY DEF Documents
  <2> QED BY <1>2, <2>1, AskServes
<1>3. CASE \E w \in Writers : Write(w)
  BY <1>3, WriteServes
<1>4. CASE \/ \E a \in Admins, p \in Profiles, testing \in BOOLEAN : Activate(a, p, testing)
           \/ \E a \in Admins : Retry(a) \/ Migrate(a)
  <2>1. PICK a \in Admins : \/ Migrate(a) \/ Retry(a)
                            \/ \E p \in Profiles, testing \in BOOLEAN : Activate(a, p, testing)
    BY <1>4
  <2> QED BY <2>1, MigrateServes
<1>5. CASE UNCHANGED vars \/ \E rows \in Documents : DeletedDirectly(rows)
  <2>1. UNCHANGED <<lock, writer>>
    BY <1>5 DEF vars, DeletedDirectly
  <2> QED BY <1>1, <2>1, IdleKeepsCount, IdleServes
<1>6. CASE Restart
  BY <1>6, RestartServes
<1> QED BY <1>2, <1>3, <1>4, <1>5, <1>6 DEF Next

\* The coordinator, with whatever its callers do, is the lock IndexLock describes: exclusive for a
\* migration, in order, and without a lost wake-up (RagIndexCoordinator.ts, drainWaiters).
THEOREM LeasesAreInOrder == Spec => ImplementsIndexLock
<1>1. Init => LeasesInv
  BY InitInvariant DEF LeasesInv, Init, FreeLock, Served
<1>2. LeasesInv /\ [Next]_vars => LeasesInv'
  BY NextInvariant, StepServes DEF LeasesInv
<1>3. Init => Lock!Empty
  BY DEF Init, Lock!Empty, Holders, Holds, Granted, Inside, IdleWriter, FreeLock
<1>4. LeasesInv' => Lock!Exclusive' /\ Lock!NobodyWaitsInVain'
  BY PromisesKept, PTL
<1>5. LeasesInv /\ [Next]_vars => [Lock!Next]_Lock!vars
  <2> SUFFICES ASSUME LeasesInv, [Next]_vars PROVE [Lock!Next]_Lock!vars
    OBVIOUS
  <2> QED BY <1>2, <1>4, StepServes DEF Lock!Next
<1> QED BY <1>1, <1>2, <1>3, <1>5, PTL DEF Spec, ImplementsIndexLock, Lock!Spec
=============================================================================
