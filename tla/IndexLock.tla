------------------------------ MODULE IndexLock ------------------------------
(***************************************************************************)
(* What the coordinator of the vector index promises those who ask it for  *)
(* a lease: writers share the index and a migration has it alone; who asks *)
(* while a migration waits comes after that migration; migrations come in  *)
(* the order in which they asked; and nobody is kept waiting for nothing.  *)
(***************************************************************************)
EXTENDS Sequences

CONSTANTS Writers, Admins, None

VARIABLES
    writing,    \* the writers that hold a lease
    migrating,  \* the migration that holds the lease, or None
    waiting,    \* the writers that wait
    queue       \* the migrations that wait, in the order in which they asked

vars == <<writing, migrating, waiting, queue>>

Empty == writing = {} /\ migrating = None /\ waiting = {} /\ queue = << >>

Exclusive == migrating # None => writing = {}

\* A migration waits for somebody who holds a lease, a writer for a migration.
NobodyWaitsInVain ==
    /\ queue # << >> => migrating # None \/ writing # {}
    /\ waiting # {} => migrating # None \/ queue # << >>

AskToWrite(w) ==
    /\ w \notin writing \cup waiting
    /\ \/ queue = << >> /\ writing' = writing \cup {w} /\ UNCHANGED waiting
       \/ waiting' = waiting \cup {w} /\ UNCHANGED writing
    /\ UNCHANGED <<migrating, queue>>

AskToMigrate(a) ==
    /\ \/ migrating = None /\ queue = << >> /\ migrating' = a /\ UNCHANGED queue
       \/ queue' = Append(queue, a) /\ UNCHANGED migrating
    /\ UNCHANGED <<writing, waiting>>

\* The leases that are left, and those that are given: to the next migration, or, when none
\* waits, to all writers.
PassOn(left, migration) ==
    \/ writing' = left /\ migrating' = migration /\ UNCHANGED <<waiting, queue>>
    \/ /\ migration = None /\ queue # << >>
       /\ migrating' = Head(queue) /\ queue' = Tail(queue)
       /\ writing' = left /\ UNCHANGED waiting
    \/ /\ migration = None /\ queue = << >>
       /\ writing' = left \cup waiting /\ waiting' = {}
       /\ migrating' = None /\ UNCHANGED queue

StopWriting(w) == w \in writing /\ PassOn(writing \ {w}, migrating)

StopMigrating == migrating # None /\ PassOn(writing, None)

Crash == Empty'

\* Which of its alternatives a step takes is up to what is promised of the state it leads to.
Next ==
    /\ \/ \E w \in Writers : AskToWrite(w) \/ StopWriting(w)
       \/ \E a \in Admins : AskToMigrate(a)
       \/ StopMigrating
       \/ Crash
    /\ Exclusive' /\ NobodyWaitsInVain'

Spec == Empty /\ [][Next]_vars
=============================================================================
