# A formal model of AgentVis

AgentVis is a desktop application (a TypeScript front end in `src/src`, a Rust back end
in `src/src-tauri`) in which a user works with LLM agents. An agent answers directly, or
plans: a *master brain* decides, round by round, to answer, to ask, or to send out a
*sub-agent* that uses tools. Around this core are a knowledge base, memories, scheduled
tasks, chat-platform bridges, a review of file changes with its history, and a trash bin.

This directory holds TLA+ modules of the parts of it whose correctness depends on the
order of events, TLC configurations that check them on small instances, and proofs that
TLAPS checks for all values of the constants. `PROJECT.json` lists components, runs,
source lines, hazards and theorems. All paths below are relative to `src/src` unless they
say otherwise.

    tlc -config PlanningRun_limits.cfg MCPlanningRun     # a run
    tlapm PlanningRunProofs.tla                          # the proofs

## Inventory

| Part | State it keeps | Operations | Interacts with |
| --- | --- | --- | --- |
| Planning FSM (`services/planning/fsm`) | state, event queue, context with budget and no-progress counters | `step`, `send` | driven by the loop integration |
| Agent loop (`services/planning/agent-loop`) | shared state, governor counters, step count, cancel flag, abort controllers | `run`, `cancel`, one handler per FSM state | master brain and sub-agents (awaited), `AgentService` (caller) |
| AgentService (`services/planning/AgentService.ts`) | processing lock, cancel flag, watchdog timer, session, module-level cache | `processMessage`, `cancelProcessing`, `resetSession`, get/detach/destroy | hook, agent loop |
| Planning hook and send slot (`hooks/usePlanningMode.ts`, `stores/chatStore.ts`) | refs of the mounted view, slot and latest run per context | start, stop, publish, fail, finish | view, AgentService, database, IM bridge (events) |
| Human in the loop (`stores/hitlStore.ts`) | pauses, pre-resolved answers and resolvers per context | `pause`, `resume`, `waitForResume`, `isPaused`, `cleanup` | operation bar, sub-agent loop, abort signal, end of a task |
| Sub-agent runner (`services/planning/sub-agents`) | budgets of steps and calls, counters of repetitions, message history, approvals | one turn: request, answer, checkpoint, tools, reset of the context | tools, LLM, master brain (checkpoints), hitlStore |
| Vector index (`services/rag`, `services/memory/MemoryVectorIndex.ts`) | leases, active profile, rows of `chunk_embeddings` | index, replace, delete, activate, rebuild | embedding service, SQLite, settings |
| Memory (`services/memory`) | buffers and turn counters | extraction, consolidation, retrieval | LLM, vector index |
| IM bridge and progress tracker (`services/im-channel`) | active task and tracker per bot, watchdogs, queue of card updates, ids already seen | message, navigation, start, progress, end, abort, disconnect | events to and from the chat view, chat platform |
| Cron (`services/cron`, `stores/cronStore.ts`) | poll interval, executing set, enabled jobs | poll, execute, refresh | database, chat view |
| Visual enhancement (`services/planning/visual-enhancer`) | job queue per context | queue, cancel | LLM, messages |
| Trash bin (`src-tauri/src/commands/trash_*.rs`) | a store of files, a manifest file that says how far each move is | move, restore, purge, reconcile | file system |
| Review of file changes (`stores/diffStore.ts`) | per context: active file, entries, statuses, history stacks, generations; `diff_records` | load, accept, reject, select, delete, restore; rollback, undo, redo | agent's file tools, file system, SQLite |
| Fast apply (`services/fast-apply`) | none | match, diff | diff store |
| Preview, network authorisation, updates, skills, sandbox, LLM gateway, UI | see `PROJECT.json` | | |

What makes it hard:

* **Interleaving at awaits.** There are no threads in the front end, but everything waits:
  for the LLM, for tools, for SQLite behind IPC. What was checked before an await may be
  false after it (cancelled, overtaken, withdrawn, unmounted, another profile).
* **Stopping.** A stop may come at any moment of a run, frees the input at once, and must
  work although the LLM owes no answer. The old run then ends next to its successor.
* **State by context.** Pauses, services and slots are keyed by chat context and outlive
  runs and views, so a late clean-up of one run may hit another.
* **Two counters for one thing.** Rounds, progress and steps are counted by the governor
  and by the FSM, from different limits.
* **Partial failure and restarts.** A profile migration of thousands of rows fails in the
  middle; only the settings and the rows survive the end of the program. A deletion across
  volumes is a dozen file operations with five states of its record in between.
* **Late replies.** Loads of diffs, writes of files and updates of cards are issued in one
  order and take effect in another; generations and queues have to keep the newest on top.

What has to hold, part by part:

* *Agent loop*: bounded rounds, nothing spawned after a cancel, a cancel is reported and
  ends the run, what is dispatched is what was decided.
* *Tasks of a context*: one run at a time inside a service and its session, answers in
  the order of the requests, none for a withdrawn one, every stop is honoured and every
  slot returned.
* *Human in the loop*: whoever is blocked can be woken, instructions reach the sub-agent
  they were typed for, nothing is left for the next task.
* *Vector index*: migration excludes writers, rows of two spaces never mix under one
  profile, a finished rebuild is complete, nobody waits for ever.
* *Sub-agent runner*: its work is bounded, nothing risky runs unapproved, the conversation
  stays well-formed, an abort stops it, and it ends.
* *Review of file changes*: no diff is lost, a deleted file does not come back, decisions
  stand, and the file on disk is what the panel says.
* *Trash bin*: no item lost or overwritten, whatever step the program stopped at.
* *IM bridge, cron*: a task is started once, its end is told, and a bot does not stay busy.

## The modules

`MC*.tla` modules instantiate a specification for TLC, `*_*.cfg` give the constants
values.

### PlanningRun: one run of the agent loop

`PlanningRun.tla` models `AgentLoop.run()` (`runWithFSM`), `AgentLoopFSMIntegration.run`
with its handlers (`StateHandlers.ts`), the FSM's transition table and actions,
`DecisionMapper`, the outcome of `SubAgentDispatcher`, and `LoopGovernor.evaluate`.

| Variable | Code |
| --- | --- |
| `phase` | where `runWithFSM` and `integration.run()` stand; the waits are `persisting` (avatar), `handler` in `MASTER_DECISION` and `DISPATCH`, `returning` (second retrieval) |
| `fsm`, `event`, `ctx` | `FSMEngine.state`, its queue (one event at a time), `FSMContext` |
| `governor` | budget, consecutive rounds without progress, sub-agents |
| `shared` | the fields `syncSharedState` copies: reason, pending spec, spawn counter, progress of the round |
| `steps` | `stepCount` of `integration.run()` |
| `cancelled`, `aborted` | the integration's flag, and `runAbortController` |

`LoopStep` is one turn of the `while` loop of `integration.run()`; each handler is an
action that leaves one event. `Cancel` is a task of the event loop, so it comes only
where the run waits for the outside world; awaits that resolve in microtasks are part of
the surrounding action. The master brain's answer and the sub-agent's outcome are inputs.
Left out: prompts, artifacts, history compression, the wording of the answer, and the
events `CONTEXT_ERROR`, `AGENT_OUTPUT` and `AGENT_ERROR`, which nothing sends.

`DecisionRounds.tla` is the promise to the caller: decide and act alternately, for a
bounded number of rounds, and do neither after a stop. `PlanningRefinement.tla` maps
`PlanningRun` to it; the bound is `Min(MbBudget, FsmBudget + 1)`.

### PlanningTasks: the tasks of a chat context

`PlanningTasks.tla` models the executions of `usePlanningMode`, the send slot of
`chatStore` they share with Chat runs, `AgentService` and its cache, and a user who
starts, stops, withdraws messages and changes views. All state of the code is keyed by
context, so one context is the general case. A run is named by its place in the order of
starts; a service after the run that created it. `stage[r]` is where the closure of
`executePlanningTask` stands; `service[s]` holds the fields of an `AgentService`
(`activeRun` is the processing lock, `timer` the cancellation watchdog, `replace` the mark
that it timed out, `session` whose history the session holds). `refs[v]` are the refs of
the hook, one set for each time the view is mounted: `Remount` forgets them while the
closures of the old view go on. `LoopSettles` stands for a whole `PlanningRun`, of which
it uses that a cancelled loop settles (`CancelSettles`) and never as an error.

### Hitl: pause, instruct, resume

`Hitl.tla` models all operations of `hitlStore`, the points where the sub-agent loop
(`SubAgentRunner.runAtomicEventLoop`), the abort listener and the end of a task use it,
and the operation bar that decides which of them the user can reach: it is shown while
the latest task is not stopped and has spawned a sub-agent. The guard with which `resume`
keeps an earlier message is modelled but not reachable through the bar. `CallsFail` lets
LLM calls throw past the clean-up; `Overtakes` lets the watchdog of `AgentService` expire
before an aborted sub-agent has returned.

### RagIndex: the vector index, its lock and its migration

`RagIndex.tla` models `RagIndexCoordinator` field by field (`lock`), the writers
(`RagService.indexDocument`, `deleteDocumentIndex`, `deleteAgentIndex`, `MemoryVectorIndex`),
`activateRagConnection`, `retryActiveRagIndexRebuild` and `RagIndexRebuildService.rebuildAll`,
the Rust-side deletions that take no lease (`memory.rs`, `agent_repo.rs`, `hub_repo.rs`,
`data_management.rs`), and the end of the program. A row is known by the profile of its
vector, so `isChunkStale` is a comparison of profiles. A promise the coordinator has not
resolved is a waiter; a resolved one is a lease from that moment on (`Granted`), although
its owner continues only later. `Restart` keeps `index` and `profile`, nothing else.
Left out: BM25 and caches, content, dimensions, the data import.

`IndexLock.tla` is the promise of the coordinator to its callers, without its counter and its
`drainWaiters`: who holds leases and who waits are sets and a queue of names, and a step may
give leases in any way that is in order and leaves nobody waiting in vain.
`RagIndexRefinement.tla` maps `RagIndex` to it. The writers that hold a lease are known from
where they stand, so the counter has to be right for the mapping to work. The flags of
the callers let in one migration at a time, so the queue of `IndexLock` is never longer than
one in this system.

### SubAgentLoop: how a sub-agent works

`SubAgentLoop.tla` models `SubAgentRunner.runAtomicEventLoop` with its checkpoints and
budgets. `pc` is where the loop stands; a value in `Awaiting` is an await, the only place
where an abort can come. The model's answer is any of: an error of the API, a cut-off
answer, nothing, a text, a summary, the signal of completion, or one of the `Offers` of
tool calls. What the messages say is reduced to `big` (too long) and `unanswered` (calls
without a result); the counters of repeated failures, unchanged writes and equal commands
are the code's. A checkpoint ends in what the master brain may decide: end, go on, adjust,
extend by a few steps, or approve. The pause between two turns is `Hitl`'s.

### DiffReview: loads, decisions, deletion, restore

`DiffReview.tla` models one context of `diffStore` from `loadModificationsForContext` to
`loadPersistedDiffs`. A version is named by its place in the order of the agent's writes;
the text of a file is a version with a set of changes taken back. `Shown(d)` is what the
store keeps for a file, at the top level for the active one and in `fileEntries` for the
others, as in the code; `gen` and `activeGen` are the generations that make an older load
stale. A load goes through the awaits of the code (`diff`, `record`, `recorded`, `probe`,
`clean`, `commit`); a decision sets the panel first and then writes the file, a snapshot and
the record (`review`); `UserDeletes`, `Discard` and `DiscardRecords` are the deletion of a file.

What was decided is kept in two places: in the `diff_record` (`records`), and in a snapshot of
the text the decision left (`newest`), which the file's pending records are tied to afterwards
(`marks`, `active_snapshot_id`). `Restart` keeps files, records and snapshots. A restored file
goes through two diffs. `RestoreNext` loads the newest pending record of each file, with the
snapshot's statuses rather than the record's and the snapshot's text rather than the disk's
(`SavedStatuses`, `RestoredText`). When that load is over, `Project` puts the diff of the
snapshot in its place (`applySnapshotDiffProjection`): the diff of the one record that wrote the
snapshot's text, with the snapshot's statuses, or, if `findUniqueSnapshotSourceRecord` has none,
the whole file against the snapshot before, with nothing decided (`whole`), or no diff at all if
the two texts are equal. After a partial reject there is no such record, since no version has
that text. The projection was computed before the load, and its awaits leave room for a
decision, a deletion or a new version (`RestoreCurrent`).

 In a *calm* session the user decides and deletes only
when no load and no projection is under way, and does not use the switch of modes to change files;
otherwise at any moment.

### DiffHistory: undo, redo, rollback

`DiffHistory.tla` models one file: history operations that capture the panel, wait, write
and commit unless they were superseded, and the repair that follows a superseded write
(`compensateSupersededFileWrite`). Writes reach the disk in any order, their replies are
handled in the order in which they were carried out.

### ImTasks: tasks of the chat platforms

`ImTasks.tla` models the handler of a message with its waits (chat file, first card,
navigation, listener, watchdog), the events between bridge and view, the tracker with its
queue of card updates, aborts and disconnections, and the runs of the agents as far as the
bridge sees them (`StartOther` for the desktop's own runs). A task is named by the delivery
it was made from; several deliveries may carry the same id. The memory of ids is the code's:
first in, first out (`Recorded`), here with `MaxProcessed` ids instead of 200, and messages
that make no task (`OtherMessage`) push ids out of it too. It ends with the process, and the
model is one life of the process; every message has an id.

A run here is what `PlanningTasks` models in full, seen from outside: it prepares, enters its
loop, ends. A stop of the view that started it frees the agent's send slot at once
(`usePlanningMode.ts:2363-2368`), so a new run may begin beside the old one; the old one is
then silent (`:1743-1747`, `:2174-2182`), as is one that fails after its request was withdrawn
(`:2186-2195`) and one that is stopped before its loop (`Outcomes`). `run` holds the latest run of
an agent only: what an overtaken one still does is not visible to the bridge. Simplified: a
run reports, ends and frees the slot in one step; progress goes on as long as the tracker takes
it, whichever run it is from, with one update on its way at a time.

### TrashBin: delete, reconcile, restore, purge

`TrashBin.tla` models every operation on the manifest and on the files: one step for one
file operation or one write of the manifest. `src`, `payload`, `claim`, `candidate` and
`staging` are the places an item can be at; `op`, `at` and `todo` are the section that holds
the manifest lock, at a step, with the entries it has still to visit. `CallFails`, `Crash`
and `SaveFails` may come at every step and leave the object under work half done
(`Halfway`: `Torn`). `tidied` says that a reconciliation succeeded in the life of the
process, which restore and purge require. One assumption about the environment: once the
claim was compared for the last time, an open handle does not write to it any more.

## What the runs check

| Run | Question | Bounds |
| --- | --- | --- |
| `planning_limits` | a recorded cancel is reported and settles, a spec belongs to its decision, the governor gives up only stalled loops, refinement of `DecisionRounds` | budgets of 8, step limit 40 and three rounds without progress, so that step limit, breaker and the governor's budget are all reached (with the code's constants the breaker is dead code; the FSM's budget is reached in `planning_budgets`) |
| `planning_budgets` | a finding, see below | the constants of the code, and an agent set to twelve rounds |
| `tasks_context` | the session under a live loop is its own and the lock is held around it, order of messages, one live loop, the slot comes back, stops honoured and settled, nothing published after withdrawal | three runs (planning, Chat, planning): one to be stopped, one in between, one that overtakes; two mounts of the view, so that the hook loses its refs once |
| `hitl_store` | a blocked sub-agent can be resumed, instructions kept, idle context clean, an early resume is consumed | two tasks, three sub-agents (two of one task and one of the next), two instructions; calls may throw, no overtaking |
| `subagent_loop` | bounded work, calls have results, approvals, limited turns, aborts, end | three steps extended twice by one, five calls, two tools a step, two repetitions: every limit is reached within a few answers |
| `diff_hurried` | a stale load brings back neither a deleted file nor an older version | two files, two versions, one deletion or restart, decisions at any moment |
| `diff_calm` | no diff lost, the review survives a crash, decisions stand | two files, two changes each, two versions, one deletion or restart, so that a review of one change is restored and projected; with two restarts a projection also finds two equal texts and closes the diff, and that case is only covered by the proofs |
| `diff_history` | disk follows panel, the agent's text is kept, the stacks fit | two operations, two versions, one decision, stacks of two, three attempts of a repair as in the code |
| `im_tasks` | a copy of a message is taken up only after its id was pushed out; started once, last card last, what ended stays ended; a running task has a run; a busy bot is freed | two bots and agents, two deliveries of one message and any others between them, a memory of two ids, and one act of the desktop (a run, a stop, a withdrawal, a disconnection) |
| `rag_leases` | routes never stale, complete rebuilds, checkpoints last, leases granted, refinement of `IndexLock` | two writers, two migrations, two agents with a row each, two profiles, batches of one |
| `trash_recover` | nothing lost, nothing listed before it is whole, nothing overwritten, what comes back is what went | two entries, a path on either volume, three versions, three crashes or failures |
| `trash_recreated` | a finding, see below | two entries, two versions, two mishaps |

The bounds are the smallest at which the interesting case happens: a second actor that
overtakes, a third where one has to stand between two, two profiles so that one is stale,
batches smaller than the stale set so that a rebuild can stop in the middle, two mishaps
for a recovery that is itself interrupted and a third for the one after it, two files so
that one is active and one is not. `planning_limits` has no bound of its own: the code's
budgets make it finite. The other bounds (`Max...`) are counters in guards and end
behaviours. So `Hitl`, `DiffReview` and `DiffHistory` come to a halt when nothing is left
to happen, and `SubAgentLoop` when its run has ended: their configurations do not check for
deadlock. The others do (`PlanningRun` stutters once settled, a user of `PlanningTasks` can
always press stop, of `ImTasks` look at another agent, of `TrashBin` reconcile).
Files, changes, messages and bots with their agents are interchangeable, so `DiffReview`
and `ImTasks` are checked up to symmetry; neither has a liveness property. Every property
was seen to fail under a plausible change of the code, the mutants of `PROJECT.json`.

### Fairness

* `PlanningRun`: steps that need nobody else (`Internal`), and a wait that is over because
  the run was aborted (`AbortSettlesWait`). Nothing makes an LLM or a sub-agent answer.
* `PlanningTasks`: the awaits of a run other than its loop end (database, IPC, embeddings
  with their own timeout), and a loop that was cancelled settles. One that nobody cancels
  may take for ever.
* `Hitl`: a step of a sub-agent returns (LLM calls and tools time out), the head of a step
  goes on unless it is paused, and a task without sub-agents ends. The user owes nothing.
* `SubAgentLoop`: what the runner waits for comes to an end: requests to the model and
  tools have time-outs, delays are timers. The end is promised only for models that at some
  point stop answering with nothing or with another summary (`RunEnds`).
* `RagIndex`: a writer and a migration go on. Embedding calls time out after 18 s
  (`EmbeddingService.ts:24-25`) and the database answers.

Fairness is always weak, and only on what the program itself drives. `DiffReview`,
`DiffHistory`, `ImTasks` and `TrashBin` are checked for safety only.

### Findings

`planning_budgets`: the settings of an agent offer 3 to 20 decision rounds, "increase it for very
long, multi-step programming tasks" (`en-US.ts:148`), and `AgentLoopFSMIntegration.ts:123` calls
the number the per-agent maximum. Only the governor is given it. The FSM counts the same rounds
down from its own constant 8 and ends the loop after the ninth, whatever the governor says
(`FSMDefinitions.ts:269-273`), so every setting above nine means nine. `GovernorDecidesRounds`, "when
the governor says CONTINUE the loop goes on", fails; for budgets of at most nine it is proved
(`GovernorDecides`).

`trash_recreated`: the program dies (or its writes fail) after an original was renamed to
its claim and before the manifest says so, and then something is created at the path again.
The next reconciliation takes the entry for one that was never begun and drops it
(`src-tauri/src/commands/trash_bin.rs:1160-1175`); the claim, a hidden file that nothing
refers to any more, is the only copy. The comment at `trash_bin.rs:5056` promises a record
that can be found from the first write on. `trash_recover` has the same bin without that
coincidence (`Recreates = FALSE`), and there nothing is lost.

### Divergences

Where a property was expected and does not hold, it is kept in its module under
"Properties" although no configuration has it; adding it to the configuration named here
shows the counterexample.

| Property | Configuration | What happens |
| --- | --- | --- |
| `PlanningRun.EveryCancelIsReported` | `PlanningRun_limits.cfg` | a cancel while the avatar is written is wiped by `reset()`, the run is not reported as cancelled (nothing is spawned all the same) |
| `PlanningTasks.EveryStopReaches` | `PlanningTasks_context.cfg` | a stop in a view mounted after the run started is forgotten if the run still prepares |
| `PlanningTasks.StopNotifiesIm` | `PlanningTasks_context.cfg` | a run stopped before its loop does not tell its IM task |
| `Hitl.InstructionStaysInTask` | `Hitl_store.cfg` | after an LLM call that throws, an instruction can reach the next task |
| `Hitl.StoreFollowsAgents` | `Hitl_store.cfg` with `Overtakes = TRUE` | a sub-agent that returns late deletes the resolver of the next task's sub-agent, which then waits for ever |
| `DiffReview.ReviewStaysClosed` | `DiffReview_calm.cfg` | `rejectModification` and `rejectAll` close one of several pending records (`find`, while accepting uses `filter`); the finished review is back after a restart |
| `DiffReview.PartialReviewComesBack` | `DiffReview_calm.cfg` | `diffStore.ts:2301` and `:2450` persist the status of each block of a partial review so that it is "restored exactly after a restart" ("确保重启后精确恢复"); after a reject the snapshot's text is no record's (`:887-905`), so the restart shows the whole file with everything pending again (`:1478-1495`), although the record keeps the decision |
| `DiffReview.DecisionsStand` | `DiffReview_hurried.cfg` | `setMode` changes to another file without saving the decisions on the current one; a decision made while a restore awaits its projection is put back (`:1454`, `:1478`) |
| `ImTasks.AbortIsOwn` | `ImTasks_tasks.cfg` | the listener of `im:abort_task` ignores which bot it is from and stops the run on screen, contrary to `ImTaskBridge.ts:8` |

Observed on the way:

* *Agent loop.* A sub-agent that fails after partial progress counts as progress for the
  governor and as none for the FSM, which ends the loop after the second
  (`SubAgentDispatcher.ts:465-466` intends otherwise); an invalid decision ends as
  `text_response`; `forceTerminationContent` is erased by `syncSharedState`;
  `maxIterations` is not derived from the planning budget.
* *Tasks.* A service that timed out is used again if it was fetched before the watchdog
  fired; a withdrawn request may still get an error message.
* *Vector index.* After a crash between the switch of the profile and its rebuild nothing
  resumes the rebuild, and activating the same profile again does not rebuild either, so
  only the user's retry does.
* *Sub-agent.* Empty answers reset the count of texts without calls
  (`SubAgentRunner.ts:1608`), so a model that answers nothing never ends the run. Added
  instructions and the request for a summary are cleared after a call that failed and is
  retried without them. API retries count towards the mechanical reset. After an extension
  the periodic checkpoint can fall within an interval that `types.ts:206` says never
  triggers. A budget checkpoint that is aborted is followed by one more request; approval
  of one call approves every name of that answer; the calls of the first step are never
  brought before the master brain.
* *Review of changes.* Accepting writes the shown version over a newer one the agent has
  written meanwhile; `isLoading` may stay set; the second set of `acceptModification` can put
  statuses on another file that became active; the fallback of `rejectModification` sets a
  context it captured before an await; a restore can supersede a fresh load; a write of a
  rollback under way can create a deleted file again.
* *IM.* Of two overlapping messages of one bot the second takes the place of the first,
  whose run then completes the second with its answer; an abort may override a task that
  has completed; a desktop run without a bot ends the one active IM task.
* *Trash.* An interrupted purge leaves a torn payload that is listed as ready; an entry
  with neither its original nor its payload is kept for ever, and so is one whose path was
  taken during an interrupted restore.
* *Cron.* A timer of 60 s that compares minutes may skip or repeat one
  (`CronScheduler.ts:52`); of two jobs due in one minute for different agents the first loses its
  event to the second's navigation and is recorded as successful (`CronExecutor.ts:168`); a
  one-shot job that the user reschedules while it runs is switched off
  (`CronScheduler.ts:179`).
* *Smaller ones*, not modelled: the counters reset by `MemoryTriggerManager.ts:161`, the queue
  of `VisualEnhancementJobManager.ts:132`, the probe of `PortAllocator.ts:57`.

## What is proved

TLAPS checks the following for every value of the constants that satisfies the `ASSUME`s.

**`PlanningRunProofs`** (budgets and limits are positive, the retries any natural number).
The properties are not inductive. The invariant `IInv` adds where the run stands
(`Control`: which event a handler may have left for which state), the equation between
`steps`, the FSM's budget and the place in the round (`StepCount`), that the governor is
not asked with an empty budget (`GovernorBudget`), when a spec may be pending
(`SpecPending`) and where the two cancel flags may differ (`CancelFlags`). One lemma per
group of actions shows that each part survives; then:

* `TypeCorrect`: no counter of the run leaves its range.
* `StepLimitNeverReached`: `SafetyValveUnused`, by `StepCount`: a round costs five steps
  and one unit of the FSM's budget.
* `DispatchHonoursDecision`: `DecisionHonoured`, by `SpecPending`.
* `RecordedCancelIsReported`: `CancelIsReported`.
* `CancelStopsSpawning`: the action property `NoSpawnAfterCancel`, by `CancelFlags`.

`RoundInv` and `ActingFlags` come on top of it, for what compares the two budgets and the run
with its abstraction. `RoundInv`: as long as the loop has not been told to stop, the governor's
budget is `MbBudget` less the rounds the FSM has paid (and the one the governor has just been
asked about), and it counts at most one sub-agent a round. `ActingFlags`: past the decision, a
run that was aborted knows it.

* `GovernorStopsStalled`: the action property `GovernorStopsOnlyStalledLoops`; the other two
  conditions of the governor never stop a loop first.
* `GovernorDecides`: `GovernorDecidesRounds`, for `MbBudget <= FsmBudget + 1`. With a larger
  `mbDecisionBudget` it does not hold (`planning_budgets`), so the bound is exact.
* `RunImplementsRounds`: the refinement, `Spec => ImplementsDecisionRounds`. Each handler is a
  step of `DecisionRounds` under the mapping of `PlanningRefinement`, or a stutter.

**`RagIndexProofs`** (finitely many writers and chunks, `None` is neither a profile nor a
migration). `MigrationIsExclusive` says nothing of the number the coordinator keeps, so
`IndexInv` has that number equal to the number of leases that are out (`LeasesCounted`),
besides what writers and rebuilds do under their leases (`WritersFollow`,
`RebuildCovers`: a row of another profile is still on the list of the rebuild) and that
the two flags let in one migration at a time (`OneMigration`). The coordinator's
operations are dealt with on their own first (`DrainKeepsOrder` and its
followers, with the facts on cardinality), then as steps of the system
(`LeaveKeepsCount`, `HolderStep`, ...), so the lemmas on actions need no counting.

* `RouteNeverStale`, `RebuildIsComplete`: the invariants of `rag_leases`.
* `TypeCorrect`, `MigrationHoldsAlone` (`MigrationIsExclusive`), `RetryNeverTurnedAway`
  (`RetryKeepsItsRoute`): proved only.
* `CheckpointsStay`: the action property `CheckpointsLast`.
* `LeasesAreInOrder`: the refinement, `Spec => ImplementsIndexLock`. It needs `Served` besides
  `IndexInv`: whoever waits, waits for somebody. A migration that finds neither a writer nor a
  migration at work takes the lease without a look at the queue (`acquireMigration`); that
  it overtakes nobody then is a consequence of `Served`, not of a test in the code.

**`SubAgentProofs`**, first part: the loop of a sub-agent (limits are natural numbers, those
that bound a row of answers positive; the model may offer any sequences of calls). `Inv` is the conjunction of `Flags`
and `Numbers` (the types that the other parts need), `CallsInv` (outside the tools no call
lacks a result, inside as many as are queued), `WorkInv` (a step begins below both limits,
and within it calls and queue together stay below the hard limit and one step), `RiskInv`
(what is queued after the first step is harmless or approved), `TalksInv` (a budget that was
brought before the master brain is only brought again after an extension) and `LateInv`
(the request after an abort is the last). Each action preserves each part, then:

* `TypeCorrect`: no counter of the loop leaves its range.
* `BoundedWork`, `ResultsComplete`, `RiskApproved`, `LimitedTurns`, `FewLateRequests`: the
  invariants of `subagent_loop`.
* `NoLateTool`: the action property `NoToolAfterAbort`, proved only.

**`SubAgentProofs`**, second part: pausing and resuming (any numbers of tasks, sub-agents
and instructions; neither "nothing" nor "an empty resume" is an instruction). The module
extends `SubAgentLoop` and `Hitl`, whose variables are disjoint: what `Hitl` calls its
initial states, steps and behaviours has the prefix `Hitl` (`HitlInit`, `HitlNext`,
`HitlSpec`). The store knows contexts and no sub-agents, so everything rests on `OneInside`:
at most one sub-agent of a context is inside its loop. `InsideOwned` says that it belongs to
the owner of the context unless it was stopped, `StoreInv` what the store then holds,
`LetterInv` where an instruction is. `OneInside` is what the dispatcher achieves by waiting
for an aborted sub-agent and what the watchdog of `AgentService` gives up; hence the
assumption `Overtakes = FALSE`, without which the property fails ("Divergences").

* `HitlTypeCorrect`: proved only, with and without overtaking.
* `BlockedIsReachable` (`StoreFollowsAgents`) and `InstructionArrives` (`InstructionKept`), the
  invariants of `hitl_store`, without overtaking; LLM calls may throw.
* `InstructionsStay` (`InstructionStaysInTask`): proved only, without overtaking and with no
  call that throws past the clean-up. `PendingInv` is what such a call breaks: a pause or an
  early resume has a sub-agent inside that will meet it.

**`PlanningTasksProofs`** (any number of runs, any of them Chat runs, at least one view).
`LockInv`: a run between `processMessage` and its end holds the lock of its service and finds its
own session, and nobody has a service whose creator has not reached it. `OrderInv`: runs begin in
the order of their numbers, and what has published has ended. `SlotInv`: who holds the send slot
and whom a view follows; `TurnInv`: a run that lost the slot is `Halted`, that is, it will not
enter its loop or its loop was told to end. `MessagesInOrder` needs the last two: it holds
because a run that was overtaken has lost the right to publish.

* `LockIsSound`, `AnswersInOrder`, `TurnsAreTaken`: `LockGuardsSession`, `MessagesInOrder` and
  `RunsTakeTurns`, the invariants of `tasks_context`.
* `WithdrawnStaysSilent`: the action property `NoAnswerAfterWithdrawal`.
* `StopsAreHonoured` (`StopIsHonoured`): proved only, with `LatestIsFollowed` and `StoppedIsHalted`
  in addition. It is the safety half of `StopSettles`, and like it about the stops that reach
  their run (`stopped`, `Reaches`); in a second view a stop may reach nothing ("Divergences").

**`ImTasksProofs`** (any bots, agents, messages and acts of the desktop). `Stages` and `Once`
follow a message until its task is started: its task and its place as the active one come
together, and the event that starts it is there only between the watchdog and the start.
`Remembered` says where in the memory an id stands, by the number of those recorded since;
`Reported` which runs will report (`WillReport`).
`Freed` has, for an active task that does not run, the timer or the last card that will free the
bot; `CardOrder` says that progress is queued only behind the first card.

* `RunsReport` (`RunningIsReported`), `BotsAreFreed` (`BusyBotIsFreed`): the invariants of
  `im_tasks`.
* `EndsAreFinal` (`EndIsFinal`): taken up again only when `MaxProcessed` others came since, started
  once, what ended stays ended, the last card stays.

**`DiffHistoryProofs`** (any numbers of operations, versions and decisions, any depth of the
stacks and any number of attempts of a repair, both at least one). `DiskFollowsPanel` speaks of
the moment when nothing is under way. What leads there is `LastTended`: whoever wrote to the disk
last has its reply last in the queue, and either wrote what the panel will show (`Coming`) or
will find itself superseded and repair it; `Synced` is the same once the queue is empty. This
rests on what the newest operation may rely on (`OpInv`: the panel is as it was captured, or
the user decided since) and on what a repair has seen (`SeenInv`). That a decision never goes
unnoticed by an operation follows from the stacks (`Fits`: `HistoryFits`, and the same of the
pending mark): a decision pushes an entry, so the stacks tell the two states apart.

* `FileIsRepaired`, `AgentWins`, `StacksFit`: `DiskFollowsPanel`, `AgentTextKept` and
  `HistoryFits`, the invariants of `diff_history`.

**`DiffReviewProofs`** (any files, changes, numbers of versions and of faults; a "nothing" that is
no file). The invariant has two parts. `AnyInv` holds in sessions of any kind:

* `LoadInv`: the loads of one file begin in the order of its versions, the diff of an older
  version having come before, and each takes a generation above those of the loads before it.
* `RecordInv`: a version that has a record, or that a restore has on its list, has begun.
  Without it a restore could begin a version whose older sister has not begun yet.
* `NewestInv`: every load of a version below the one shown has a generation that is behind the
  file's. This is what `NewestLoadWins` lacks to be inductive: it says why the commit of an
  older version finds itself superseded, and it survives whatever raises generations.
* `PlanInv`: what a restore is about to project has begun, with a generation that is ahead of
  every older load of the file, so that the projection cannot bring an older version back either.
* `GoneInv`: since its deletion a file is missing or holds a newer version (`Replaced`), so a
  load past its preview is superseded or of a newer version (`LoadGonePart`); what is pending
  from before the deletion will be closed by the deletion, or by the load that has just recorded it
  and will see that it is superseded (`RecordsGonePart`).

`CalmInv` holds in calm sessions, in which nothing is written before a restore or a deletion
is over and a user decides when nothing is on its way (`Free`, `Settled`):

* `QuietInv`: who may be at work at the same time, and what each may rely on: a load on its way
  has found no file missing, its file is on the disk, and its version is not shown yet
  (`FreshPart`); a file under restore is neither shown nor on the list twice (`RestorePart`); a
  decision has its file and its marks on the panel (`ReviewPart`). What is to be projected has
  nobody else at its file, and undoes nothing that the load before it has put on the panel, unless
  it shows another version or the whole file (`PlanPart`).
* `LostInv`: the newest version of a file that was neither handled nor left by a restart is
  shown, or it is on the disk and its load waits or is the newest one (`Coming`). `NoDiffIsLost`
  is the case in which nothing is on its way.
* `KeptInv`: what is shown with something to decide has a pending record with its marks, unless
  the decision that changed them is still at work; a load that is past its record will
  show what record and snapshot have, and so will a projection (`PlanKept`). A whole-file diff has its
  record, not its marks: that is `PartialReviewComesBack` above.
* `MarksInv`: all pending records of a file are tied to one snapshot, except those written since.
  Without it, a projection that goes to the source of a snapshot (another record than the one it
  restores) could find other decisions there.
* `WholeInv`: the one change of a whole-file diff is decided as a whole.

The theorems:

* `ReviewInvariant`, `CalmInvariant`: `AnyInv` in any session, and both parts together.
* `DeletionsStay` (`DeletedStaysGone`) and `OlderLoadsLose` (the action property
  `NewestLoadWins`): the properties of `diff_hurried`, here for any session.
* `NewestIsShown` (`NoDiffIsLost`), `ReviewSurvives` (`CrashKeepsReview`) and
  `DecidedStaysDecided` (the action property `DecisionsStand`): those of `diff_calm`. The first two
  say "in a calm session" themselves; the third has it as its hypothesis, and does
  not hold without it ("Divergences"). `CrashKeepsReview` promises a record for every unfinished
  review, and the decisions for all but whole-file diffs; `DecisionsStand` is about one start of the
  program and one diff: it does not forbid that a restore replaces the agent's changes by a
  whole-file diff with everything pending, which the code does.

**`TrashBinProofs`** (any paths, any numbers of entries, items and mishaps; the marks for
"nothing", "torn" and so on are no items). `Lock` and `ListInv` describe the section that holds
the lock: at which step it is, and that its list of entries differs from the manifest only for
entries already visited. `ItemInv` (an item that was taken is in the store or in its claim),
`ClaimInv` (a claim that stands is that item, unless the record says that the payload was
verified) and `CommittedInv` say what records and files tell of each other; they hold at every
step, so also after every crash. `StepInv` is what the next step relies on. `KeptInv`, that
an entry with an item stays in the manifest, needs that no reconciliation takes it for one that
was never begun (`AbandonsNothing`), for which nothing may stand where a claim is not recorded
(`ClaimHides`, `RestoreAvoids`); this is where `Recreates = FALSE` is needed, and without it is
the finding above. The other theorems do not assume it.

* `TypeCorrect` (`TypeOK`): proved only.
* `ReadyItemsAreWhole`, `ItemsAreKept`: `ReadyIsWhole` and, for
  `Recreates = FALSE`, `NothingIsLost`, the invariants of `trash_recover`.
* `PathsAreRespected`, `RestoresAreExact`: the action properties `NothingIsOverwritten` and
  `RestoreGivesBack`.

The type invariants are proved, as theorems or as the first part of an inductive invariant, and
not checked as well.

Only model-checked: liveness (`CancelSettles`, `StopSettles`, `PreResolvedIsConsumed`,
`LeasesAreGranted`, `RunEnds`), which is out of reach of the installed provers like `ENABLED` and
induction over data. That `NothingIsLost` fails with `Recreates = TRUE` is a
counterexample and needs no proof.

## What is not modelled

The parts with status `not_modelled` in `PROJECT.json`, with a reason each. By size they are
most of the program: user interface and wording, text and data processing (prompts, JSON
repair, chunking, retrieval, matching, diffing, conversion of documents), and I/O at the
edge (LLM gateway, shell, sandbox, notifications, downloads, preview server). A property of
these would be about texts or about the operating system, not about an order of events.
What they do to the modelled parts is an input there: an answer that comes, fails or never
comes, a view that is mounted or not.

Within modelled parts: the checkpoint message a run updates while it works and the jobs it
leaves behind (memory, visual enhancement); the texts of requests and the compression of old
results of a sub-agent; older snapshots of a file than its newest and those its records are tied
to, and the deletion of snapshots; `skipModification` and `undoModification`, which nothing calls; attachments and connections of the chat platforms; the policies that decide
which shell commands are deletions, and the time-out of the manifest's lock.

The parts are checked one by one. Where one relies on another, the assumption is a property
checked of that other: `PlanningTasks` uses that a cancelled loop settles
(`PlanningRun.CancelSettles`), `PlanningRun` that a sub-agent ends (`SubAgentLoop.RunEnds`)
or is aborted, `Hitl` that a step of it returns; `ImTasks` has as its exceptions (`excused`) the
causes of a silent end, of which `PlanningTasks` shows the one before the loop
(`StopNotifiesIm`). `DiffHistory`
continues where a load of `DiffReview` has committed.

## Plan

Done: the agent loop, the tasks of a context, human in the loop, the vector index, the
sub-agent loop, the review of changes with its history, the IM tasks, the trash bin.

Proved: every safety property and action property that a passing run checks, that the agent loop
implements `DecisionRounds`, and that the coordinator of the vector index implements `IndexLock`.

What is left: the timer of `Cron` and the queue of visual enhancement, small, one hazard each.
