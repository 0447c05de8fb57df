-------------------------------- MODULE Hitl --------------------------------
(* Human in the loop: pausing the Sub-Agents of one chat context, telling them     *)
(* something, and letting them go on (stores/hitlStore.ts).                        *)
(*                                                                                 *)
(* The store is keyed by context, not by Sub-Agent and not by task, and four       *)
(* parties write it: the operation bar (pause, resume), the Sub-Agent at the head  *)
(* of each step (isPaused, waitForResume), the abort signal of the task, and the   *)
(* two cleanups, of the Sub-Agent that leaves its loop and of the task that ends.  *)
(* A Sub-Agent whose LLM call throws leaves without the first of the two, and a    *)
(* task the user has stopped and overtaken ends without the second.                *)
(*                                                                                 *)
(* What runs between two external waits (a timer, an LLM or tool answer, a click)  *)
(* is one action: the awaits inside it resolve in microtasks.                      *)
EXTENDS Naturals, FiniteSets

CONSTANTS
    MaxTasks,       \* bound: planning tasks started in this context
    MaxAgents,      \* bound: Sub-Agents spawned, over all tasks
    Instructions,   \* what the user may type, each used at most once
    CallsFail,      \* may the LLM call of a step throw?
    Overtakes       \* may the cancellation watchdog expire before an aborted
                    \* Sub-Agent has returned, so that the next task gets a new service?

NoValue == "none"        \* no pre-resolved value
Empty   == "empty"       \* resumed without a message

ASSUME HitlAssumption ==
    /\ MaxTasks \in Nat /\ MaxAgents \in Nat
    /\ CallsFail \in BOOLEAN /\ Overtakes \in BOOLEAN
    /\ NoValue \notin Instructions /\ Empty \notin Instructions

Tasks  == 1..MaxTasks
Agents == 1..MaxAgents
Unsent == [to |-> 0, in |-> 0, got |-> 0]

VARIABLES
    task,       \* the latest task; 0 before the first
    owned,      \* contextUsageRunIdsRef still holds the latest task
    stopped,    \* the tasks whose abort signal has fired
    stage,      \* of each Sub-Agent: "unborn", "head", "working", "blocked", "gone"
    taskOf,     \* the task that spawned it
    running,    \* isSubAgentRunning: what the operation bar shows the pause button by
    paused,     \* pausedContexts has the context
    pre,        \* preResolvedMap (and preResolvedContexts) for the context
    resolver,   \* resolversMap: the Sub-Agent that resume() would wake, 0 if none
    letter      \* history: of each instruction, the Sub-Agent and the task it was
                \* sent to, and the Sub-Agent that received it

taskVars  == <<task, owned, stopped>>
agentVars == <<stage, taskOf, running>>
storeVars == <<paused, pre, resolver>>
hitlVars == <<taskVars, agentVars, storeVars, letter>>

Born    == {i \in Agents : stage[i] # "unborn"}
Newest  == Cardinality(Born)
Inside  == {i \in Agents : stage[i] \in {"head", "working", "blocked"}}
Aborted(i) == taskOf[i] \in stopped

HitlInit ==
    /\ task = 0 /\ owned = FALSE /\ stopped = {}
    /\ stage = [i \in Agents |-> "unborn"]
    /\ taskOf = [i \in Agents |-> 0]
    /\ running = FALSE
    /\ paused = FALSE /\ pre = NoValue /\ resolver = 0
    /\ letter = [m \in Instructions |-> Unsent]
-----------------------------------------------------------------------------
(* The store's operations.                                                         *)

\* Mutant of Cleanup: it forgets the resolver.
CleanupFlagsOnly == paused' = FALSE /\ pre' = NoValue /\ UNCHANGED resolver

\* cleanup(contextId): whoever calls it, everything the context has goes.
Cleanup == paused' = FALSE /\ pre' = NoValue /\ resolver' = 0

\* Mutant of IsPaused: the set that the bar subscribes to is not looked at.
SeesOnlyThePause == paused

IsPaused == paused \/ pre # NoValue

\* Mutant of Stored: without preResolvedMap an early resume is lost.
StoredNothing(m) == NoValue

\* A resume nobody waits for is kept; an empty one never replaces an instruction.
Stored(m) == IF m = Empty /\ pre \notin {NoValue, Empty} THEN pre ELSE m

\* What a Sub-Agent does with the value waitForResume gave it.
Receive(i, m) ==
    letter' = IF m \in Instructions THEN [letter EXCEPT ![m].got = i] ELSE letter

-----------------------------------------------------------------------------
(* Tasks.                                                                          *)

\* The user sends a request: the context is free, or its task was stopped, which
\* frees the send slot at once.  The new task takes over contextUsageRunIdsRef and
\* resets what the bar shows; the store it leaves as it is.
BeginTask ==
    /\ task < MaxTasks
    /\ ~owned \/ task \in stopped
    /\ task' = task + 1 /\ owned' = TRUE /\ running' = FALSE
    /\ UNCHANGED <<stopped, stage, taskOf, storeVars, letter>>

\* Whether the new task may get at a service: the earlier Sub-Agent has returned,
\* or its service was replaced after the watchdog.
ServiceIsFree ==
    \A j \in Inside : Overtakes /\ taskOf[j] # task /\ Aborted(j)

Spawn(i) ==
    /\ owned /\ task \notin stopped
    /\ stage[i] = "unborn" /\ i = Newest + 1
    /\ ServiceIsFree
    /\ stage' = [stage EXCEPT ![i] = "head"]
    /\ taskOf' = [taskOf EXCEPT ![i] = task]
    /\ running' = TRUE
    /\ UNCHANGED <<taskVars, storeVars, letter>>

\* The stop button.  A Sub-Agent blocked in waitForResume has the signal's listener:
\* it removes whatever resolver the context has, cleans up, and rejects.
Stop ==
    LET waiting == {i \in Agents : stage[i] = "blocked" /\ taskOf[i] = task} IN
    /\ owned /\ task \notin stopped
    /\ stopped' = stopped \union {task}
    /\ stage' = [i \in Agents |-> IF i \in waiting THEN "gone" ELSE stage[i]]
    /\ IF waiting # {} THEN Cleanup ELSE UNCHANGED storeVars
    /\ UNCHANGED <<task, owned, taskOf, running, letter>>

\* The finally block of the task that still owns the context.  A task that was
\* overtaken skips all of this, so it has no action.
EndTask ==
    /\ owned /\ \A i \in Inside : taskOf[i] # task
    /\ owned' = FALSE /\ running' = FALSE
    /\ Cleanup
    /\ UNCHANGED <<task, stopped, stage, taskOf, letter>>
-----------------------------------------------------------------------------
(* The loop of a Sub-Agent.                                                        *)

\* onSubAgentComplete and onSubAgentFail publish for the latest, unstopped task only.
RunningAfter(i) == IF Aborted(i) \/ taskOf[i] # task THEN running ELSE FALSE

Gone(i) == stage' = [stage EXCEPT ![i] = "gone"] /\ running' = RunningAfter(i)

\* The loop is left by one of its own exits, the abort checks included.
Leave(i) ==
    /\ stage[i] = "working" \/ (stage[i] = "head" /\ Aborted(i))
    /\ Gone(i)
    /\ Cleanup
    /\ UNCHANGED <<taskVars, taskOf, letter>>

\* callWithContext throws: the loop is left without its cleanup.
Throw(i) ==
    /\ CallsFail /\ stage[i] = "working"
    /\ Gone(i)
    /\ UNCHANGED <<taskVars, taskOf, storeVars, letter>>

StepDone(i) ==
    /\ stage[i] = "working"
    /\ stage' = [stage EXCEPT ![i] = "head"]
    /\ UNCHANGED <<taskVars, taskOf, running, storeVars, letter>>

\* The head of a step, where a pause is seen.
AtHead(i) == stage[i] = "head" /\ ~Aborted(i)

Proceed(i) ==
    /\ AtHead(i) /\ ~IsPaused
    /\ stage' = [stage EXCEPT ![i] = "working"]
    /\ UNCHANGED <<taskVars, taskOf, running, storeVars, letter>>

\* waitForResume finds that resume() came first.
TakePreResolved(i) ==
    /\ AtHead(i) /\ IsPaused /\ pre # NoValue
    /\ Receive(i, pre)
    /\ pre' = NoValue
    /\ stage' = [stage EXCEPT ![i] = "working"]
    /\ UNCHANGED <<taskVars, taskOf, running, paused, resolver>>

\* waitForResume blocks.
Block(i) ==
    /\ AtHead(i) /\ IsPaused /\ pre = NoValue
    /\ resolver' = i
    /\ stage' = [stage EXCEPT ![i] = "blocked"]
    /\ UNCHANGED <<taskVars, taskOf, running, paused, pre, letter>>
-----------------------------------------------------------------------------
(* The operation bar: a pause button while a Sub-Agent runs, and, once paused, the *)
(* field and the two ways to go on.  A pre-resolved context shows neither, and the *)
(* bar is part of the streaming message of a task that has spawned a Sub-Agent:    *)
(* it goes with the stop button.                                                   *)

BarShown ==
    /\ owned /\ task \notin stopped
    /\ \E i \in Born : taskOf[i] = task

Pause ==
    /\ BarShown /\ running /\ ~IsPaused
    /\ paused' = TRUE
    /\ UNCHANGED <<taskVars, agentVars, pre, resolver, letter>>

\* The bar shows how to resume.
ResumeShown == BarShown /\ paused /\ pre = NoValue

Posted(m) ==
    IF m \in Instructions
    THEN [letter EXCEPT ![m] = [to |-> Newest, in |-> task, got |-> resolver]]
    ELSE letter

Resume(m) ==
    /\ ResumeShown
    /\ m \in Instructions => letter[m] = Unsent
    /\ paused' = FALSE
    /\ letter' = Posted(m)
    /\ IF resolver # 0
       THEN /\ stage' = [stage EXCEPT ![resolver] = "working"]
            /\ resolver' = 0
            /\ UNCHANGED pre
       ELSE /\ pre' = Stored(m)
            /\ UNCHANGED <<stage, resolver>>
    /\ UNCHANGED <<taskVars, taskOf, running>>
-----------------------------------------------------------------------------
HitlNext ==
    \/ BeginTask \/ Stop \/ EndTask \/ Pause
    \/ \E m \in Instructions \union {Empty} : Resume(m)
    \/ \E i \in Agents : \/ Spawn(i) \/ Leave(i) \/ Throw(i) \/ StepDone(i)
                         \/ Proceed(i) \/ TakePreResolved(i) \/ Block(i)

HitlSpec == HitlInit /\ [][HitlNext]_hitlVars

\* LLM calls and tools have timeouts of their own, so a step returns; what the loop
\* does next, and the end of a task with nothing left to do, wait for nobody.
Returns(i)  == Leave(i) \/ Throw(i) \/ StepDone(i)
HeadMoves(i) == Proceed(i) \/ TakePreResolved(i) \/ Block(i) \/ (stage[i] = "head" /\ Leave(i))

FairSpec ==
    /\ HitlSpec /\ WF_hitlVars(EndTask)
    /\ \A i \in Agents : WF_hitlVars(Returns(i)) /\ WF_hitlVars(HeadMoves(i))
-----------------------------------------------------------------------------
(* Properties.                                                                     *)

\* A Sub-Agent that waits for the user can be reached by the user: the bar shows how
\* to resume, and resuming wakes this Sub-Agent.  (One whose resolver is gone waits
\* for ever, while the bar says that it runs.)
BlockedCanBeResumed ==
    \A i \in Agents : stage[i] = "blocked" => resolver = i /\ ResumeShown

\* The resolver the store holds is that of a Sub-Agent that still waits.
ResolverIsLive == resolver # 0 => stage[resolver] = "blocked"

\* An instruction sent to a running Sub-Agent is kept until that Sub-Agent has it:
\* only its end, or the end of the task, may drop it.
InstructionKept ==
    \A m \in Instructions :
        LET l == letter[m] IN
        l # Unsent /\ l.got = 0 =>
            \/ pre = m
            \/ stage[l.to] = "gone"
            \/ Aborted(l.to)

\* An instruction steers the task it was typed for, and no later one.  It does not hold when
\* a call throws in an overtaken task (README, "Divergences").
InstructionStaysInTask ==
    \A m \in Instructions :
        letter[m].got # 0 => taskOf[letter[m].got] = letter[m].in

\* When no task runs, nothing is left in the store that the next task would meet.
IdleIsClean == ~owned => ~IsPaused /\ resolver = 0

\* The store and the Sub-Agents agree: who waits can be woken, what can be woken waits, and
\* nothing is left over.
StoreFollowsAgents == BlockedCanBeResumed /\ ResolverIsLive /\ IdleIsClean

\* A resume that came too early does not stay pending for ever: a Sub-Agent takes it
\* at the head of a step, or the Sub-Agent or the task ends.
PreResolvedIsConsumed == (pre # NoValue) ~> (pre = NoValue)
=============================================================================
