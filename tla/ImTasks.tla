------------------------------ MODULE ImTasks ------------------------------
(***************************************************************************)
(* The life of a task that a user of Feishu or Slack gives to an agent:    *)
(* services/im-channel/ImTaskBridge.ts with the card queue of its          *)
(* ImProgressTracker, and what AgentChatView.tsx and usePlanningMode.ts do *)
(* with its events.                                                        *)
(*                                                                         *)
(* A bot has one active task.  Its message handler waits several times     *)
(* (chat file, first card, navigation to the agent, registration of the    *)
(* listener), then emits an event; the view takes it only if it shows that *)
(* agent and nothing runs there.  Meanwhile the user of the desktop looks  *)
(* at other agents, starts and stops runs of his own and disconnects bots; *)
(* the user of the bot presses stop; timers fire.                          *)
(*                                                                         *)
(* A run that was stopped goes on for a while, but its agent is free at     *)
(* once: a newer run may overtake it, and from then on it is not heard of.   *)
(*                                                                         *)
(* A task is named by the delivery of the message it was made from: the    *)
(* platforms may deliver a message more than once, to any of the bots.     *)
(* The model is the life of one process; with it the memory of messages    *)
(* ends, and everything else here.  Hubs are left out: an agent is shown   *)
(* or it is not.                                                           *)
(***************************************************************************)
EXTENDS Naturals, FiniteSets, Sequences

CONSTANTS
    Bots,
    Agents,
    AgentOf,     \* the agent each bot is bound to
    Messages,     \* the messages that come
    Ids,          \* their ids (messageId): the same one for copies of a message
    None,
    MaxProcessed, \* MAX_PROCESSED_IDS
    MaxDesktop    \* bound on what the desktop does besides looking at agents: runs, stops,
                  \* withdrawals, disconnections

ASSUME ImAssumption ==
    /\ AgentOf \in [Bots -> Agents]
    /\ None \notin Bots \cup Agents \cup Messages \cup Ids
    /\ MaxProcessed \in Nat \ {0} /\ MaxDesktop \in Nat

VARIABLES
    processed,   \* the ids seen, oldest first (processedMessageIds); None is any other message's
    pc,          \* where the handler of each message waits
    bot,         \* the bot each message came to
    id,          \* its id
    status,      \* the status of each task, "none" before there is one
    active,      \* the active task of each bot (activeTasks, activeTrackers)
    timers,      \* the timers a stop of each task has set and that may still have something to do
    chain,       \* the card updates of each task's tracker; the first is on its way
    finalized,   \* the trackers that accept no more progress
    card,        \* whether the user sees a "last" card of a task or, before it, "progress"
    screen,      \* the agent whose view is mounted
    run,         \* the latest run of each agent
    desktop,     \* what the desktop did, counted
    events,      \* emitted and not yet delivered
    starts,      \* history: how often each task was started
    since,       \* history: per id, the messages recorded since it was, up to MaxProcessed
    excused      \* history: the running tasks whose run was stopped before its loop, overtaken, or
                 \* withdrawn with its request

handlers == <<processed, pc, bot, id>>
tasks == <<status, active>>
cards == <<chain, finalized, card>>
views == <<screen, run, desktop>>
ghosts == <<starts, since, excused>>
vars == <<handlers, tasks, timers, cards, views, events, ghosts>>

Terminal == {"completed", "failed", "cancelled"}
IsActive(m) == active[bot[m]] = m
\* A run holds the send slot of its agent (slot) until it ends or a stop takes it away.
NoRun == [pc |-> "none", slot |-> FALSE, bot |-> None, stopped |-> FALSE, withdrawn |-> FALSE]
NewRun(b) == [NoRun EXCEPT !.pc = "preparing", !.slot = TRUE, !.bot = b]
Event(type, m) == [type |-> type, task |-> m]

\* A task may be started as long as it is its bot's and has not ended.
ShouldStart(m) == IsActive(m) /\ status[m] \notin Terminal

\* A last card is queued; once it was sent the bot is cleaned up, if somebody waits for it.
LastCard(m, cleanup) ==
    /\ chain' = [chain EXCEPT ![m] = Append(@, [kind |-> "last", cleanup |-> cleanup])]
    /\ UNCHANGED card

\* The bot's active task, whichever that is, goes with its tracker and its timer.
CleanupBot(b) ==
    /\ active' = [active EXCEPT ![b] = None]
    /\ timers' = [m \in Messages |-> IF active[b] = m THEN {} ELSE timers[m]]
    /\ finalized' = [m \in Messages |-> finalized[m] \/ active[b] = m]

Init ==
    /\ processed = <<>> /\ pc = [m \in Messages |-> "none"]
    /\ bot \in [Messages -> Bots] /\ id \in [Messages -> Ids]
    /\ status = [m \in Messages |-> "none"] /\ active = [b \in Bots |-> None]
    /\ timers = [m \in Messages |-> {}]
    /\ chain = [m \in Messages |-> <<>>] /\ finalized = [m \in Messages |-> FALSE]
    /\ card = [m \in Messages |-> "progress"]
    /\ screen \in Agents /\ run = [a \in Agents |-> NoRun] /\ desktop = 0
    /\ events = {} /\ starts = [m \in Messages |-> 0] /\ excused = {}
    /\ since = [x \in Ids |-> MaxProcessed]

(***************************************************************************)
(* The handler of a message.                                               *)
(***************************************************************************)

\* recordProcessedMessage: the oldest id goes when there are too many.
ForgetsEarly(x) ==
    LET all == Append(processed, x) IN IF Len(all) < MaxProcessed THEN all ELSE Tail(all)
Recorded(x) ==
    LET all == Append(processed, x) IN IF Len(all) <= MaxProcessed THEN all ELSE Tail(all)

Record(x) ==
    /\ processed' = Recorded(x)
    /\ since' = [y \in Ids |-> IF y = x THEN 0 ELSE IF since[y] < MaxProcessed THEN since[y] + 1
                                                                           ELSE MaxProcessed]

Seen(m) == \E i \in DOMAIN processed : processed[i] = id[m]

\* A message is recorded at once, and skipped if it was seen.  A busy bot refuses it.
Deliver(m) ==
    /\ pc[m] = "none"
    /\ IF Seen(m) THEN UNCHANGED <<processed, since>> ELSE Record(id[m])
    /\ pc' = [pc EXCEPT ![m] = IF ~Seen(m) /\ active[bot[m]] = None THEN "chatInfo" ELSE "done"]
    /\ UNCHANGED <<bot, id, tasks, timers, cards, views, events, starts, excused>>

\* The messages that make no task, stop commands among them (Abort), are recorded as well; as a
\* bound, until the last of Messages has come.
OtherMessage ==
    /\ \E m \in Messages : pc[m] = "none"
    /\ Record(None)
    /\ UNCHANGED <<pc, bot, id, tasks, timers, cards, views, events, starts, excused>>

\* The chat file is written.  An agent at work refuses the message; whether the bot got a task
\* in the meantime is not looked at again.
CreateTask(m) ==
    /\ pc[m] = "chatInfo"
    /\ IF run[AgentOf[bot[m]]].slot
       THEN pc' = [pc EXCEPT ![m] = "done"] /\ UNCHANGED <<tasks, timers>>
       ELSE /\ pc' = [pc EXCEPT ![m] = "card"]
            /\ status' = [status EXCEPT ![m] = "pending"]
            /\ active' = [active EXCEPT ![bot[m]] = m]
            /\ timers' = [x \in Messages |-> IF active[bot[m]] = x THEN {} ELSE timers[x]]
    /\ UNCHANGED <<processed, bot, id, cards, views, events, ghosts>>

\* The first card is out; the agent is brought to the screen.
ShowAgent(m) ==
    /\ pc[m] = "card"
    /\ pc' = [pc EXCEPT ![m] = "listener"]
    /\ screen' = AgentOf[bot[m]]
    /\ UNCHANGED <<processed, bot, id, tasks, timers, cards, run, desktop, events, ghosts>>

EmitUnwatched(m) ==
    /\ pc[m] = "listener"
    /\ pc' = [pc EXCEPT ![m] = "done"]
    /\ events' = IF ShouldStart(m) THEN events \cup {Event("start", m)} ELSE events
    /\ UNCHANGED <<processed, bot, id, tasks, timers, cards, views, ghosts>>
\* The listener had its 800 ms: the task is handed over, and watched, unless it has ended.
Emit(m) ==
    /\ pc[m] = "listener"
    /\ pc' = [pc EXCEPT ![m] = IF ShouldStart(m) THEN "watched" ELSE "done"]
    /\ events' = IF ShouldStart(m) THEN events \cup {Event("start", m)} ELSE events
    /\ UNCHANGED <<processed, bot, id, tasks, timers, cards, views, ghosts>>

\* The event cannot be emitted.
EmitFails(m) ==
    /\ pc[m] = "listener" /\ ShouldStart(m)
    /\ pc' = [pc EXCEPT ![m] = "done"]
    /\ status' = [status EXCEPT ![m] = "failed"]
    /\ LastCard(m, TRUE)
    /\ finalized' = [finalized EXCEPT ![m] = TRUE]
    /\ UNCHANGED <<processed, bot, id, active, timers, views, events, ghosts>>

\* Ten seconds after the event: a task that nobody took fails.
Watchdog(m) ==
    /\ pc[m] = "watched" /\ IsActive(m) /\ status[m] = "pending"
    /\ status' = [status EXCEPT ![m] = "failed"]
    /\ CleanupBot(bot[m])
    /\ LastCard(m, FALSE)
    /\ UNCHANGED <<handlers, views, events, ghosts>>

(***************************************************************************)
(* The view and the runs.                                                  *)
(***************************************************************************)

\* The running task the run of an agent reports on.
Served(a) == {m \in Messages : /\ run[a].pc # "none" /\ run[a].bot = bot[m]
                               /\ IsActive(m) /\ status[m] = "running"}

\* A new run of an agent.  An older one that was stopped and has not ended is overtaken: it will
\* report nothing, and its progress is not forwarded any more.
NewRunOf(a, b, started) ==
    /\ ~run[a].slot
    /\ run' = [run EXCEPT ![a] = NewRun(b)]
    /\ excused' = (excused \cup Served(a)) \ started
    /\ status' = [m \in Messages |-> IF m \in started THEN "running" ELSE status[m]]

\* The view on the screen takes the event if it is for its agent and the agent is free; otherwise
\* the event is lost.
Takes(m) == screen = AgentOf[bot[m]] /\ ShouldStart(m) /\ ~run[AgentOf[bot[m]]].slot
Start(m) ==
    /\ Event("start", m) \in events
    /\ events' = events \ {Event("start", m)}
    /\ IF Takes(m)
       THEN /\ NewRunOf(AgentOf[bot[m]], bot[m], {m})
            /\ starts' = [starts EXCEPT ![m] = @ + 1]
       ELSE UNCHANGED <<run, status, starts, excused>>
    /\ UNCHANGED <<handlers, active, timers, cards, screen, desktop, since>>

ByDesktop == desktop < MaxDesktop /\ desktop' = desktop + 1

\* A run of the desktop, which knows no bot, or of a scheduled job, which is given the bot when
\* just one is bound to the agent; that bot's task is then marked as started.
StartOther(a, b) ==
    /\ ByDesktop /\ screen = a
    /\ b # None => {x \in Bots : AgentOf[x] = a} = {b}
    /\ NewRunOf(a, b, {m \in Messages : b # None /\ active[b] = m /\ status[m] \notin Terminal})
    /\ UNCHANGED <<handlers, active, timers, cards, screen, events, starts, since>>

\* The task a run reports on: its bot's active one; without a bot, the only active one.
OnlyTask(b) ==
    LET all == {x \in Bots : active[x] # None} IN
    IF Cardinality(all) = 1 THEN active[CHOOSE x \in all : TRUE] ELSE None
ReportedTask(b) ==
    IF b # None THEN active[b]
    ELSE LET all == {x \in Bots : active[x] # None} IN
         IF Cardinality(all) = 1 THEN active[CHOOSE x \in all : TRUE] ELSE None

\* The last check before the agent loop.
EnterLoop(a) ==
    /\ run[a].pc = "preparing" /\ ~run[a].stopped
    /\ run' = [run EXCEPT ![a].pc = "looping"]
    /\ UNCHANGED <<handlers, tasks, timers, cards, screen, desktop, events, ghosts>>

\* The throttle timer of a tracker fires: the progress noted so far becomes a card, also when its
\* run is over by now or the task is no longer the bot's, until the tracker is finalized.  Which
\* runs a tracker hears of is not followed; as a bound, no other update is on its way.
Progress(m) ==
    /\ status[m] # "none" /\ ~finalized[m] /\ chain[m] = <<>>
    /\ chain' = [chain EXCEPT ![m] = Append(@, [kind |-> "progress", cleanup |-> FALSE])]
    /\ UNCHANGED <<handlers, tasks, timers, finalized, card, views, events, ghosts>>

\* How a run may end.  A loop that was stopped is reported as a failure, unless it was over
\* already.  The latest run ends without an event only if it was stopped before its loop, or
\* fails after its request was withdrawn.
AnyStopIsSilent(r) ==
    {o \in {"completed", "failed", "silent"} :
        /\ o = "completed" => r.pc = "looping"
        /\ o = "silent" => r.withdrawn \/ r.stopped}
Outcomes(r) ==
    {o \in {"completed", "failed", "silent"} :
        /\ o = "completed" => r.pc = "looping"
        /\ o = "failed" => ~r.withdrawn \/ (r.pc = "looping" /\ r.stopped)
        /\ o = "silent" => r.withdrawn \/ (r.pc = "preparing" /\ r.stopped)}

RunEnds(a, outcome) ==
    /\ run[a].pc # "none" /\ outcome \in Outcomes(run[a])
    /\ run' = [run EXCEPT ![a] = NoRun]
    /\ LET m == ReportedTask(run[a].bot) IN
       events' = IF m = None \/ outcome = "silent" THEN events ELSE events \cup {Event(outcome, m)}
    /\ UNCHANGED <<handlers, tasks, timers, cards, screen, desktop, ghosts>>

\* stopPlanningTask of the view on the screen.  The view that started the run (own) frees the agent
\* at once; another one, mounted since, knows only the service of a run in its loop.
Stopped(r, own) ==
    IF r.pc = "looping" \/ (own /\ r.pc = "preparing")
    THEN [r EXCEPT !.stopped = TRUE, !.slot = @ /\ ~own] ELSE r
StopRun(own) ==
    /\ run' = [run EXCEPT ![screen] = Stopped(@, own)]
    /\ excused' = IF own /\ run[screen].pc = "preparing" THEN excused \cup Served(screen)
                                                        ELSE excused

\* The user of the desktop looks at another agent, stops the run he sees, or takes back its
\* request, which cancels the service of a run in its loop.
Switch(a) ==
    /\ a # screen /\ screen' = a
    /\ UNCHANGED <<handlers, tasks, timers, cards, run, desktop, events, ghosts>>
DesktopStop ==
    /\ run[screen].slot
    /\ ByDesktop
    /\ \E own \in BOOLEAN : StopRun(own)
    /\ UNCHANGED <<handlers, tasks, timers, cards, screen, events, starts, since>>
Withdrawn(r) == [r EXCEPT !.withdrawn = TRUE, !.stopped = @ \/ r.pc = "looping"]
Withdraw ==
    /\ run[screen].pc # "none" /\ ~run[screen].withdrawn
    /\ ByDesktop
    /\ run' = [run EXCEPT ![screen] = Withdrawn(@)]
    /\ excused' = excused \cup Served(screen)
    /\ UNCHANGED <<handlers, tasks, timers, cards, screen, events, starts, since>>

(***************************************************************************)
(* The ends of a task.                                                     *)
(***************************************************************************)

MayComplete(m) == IsActive(m) /\ status[m] \notin Terminal
TaskCompleted(m) ==
    /\ Event("completed", m) \in events
    /\ events' = events \ {Event("completed", m)}
    /\ IF MayComplete(m)
       THEN /\ status' = [status EXCEPT ![m] = "completed"]
            /\ finalized' = [finalized EXCEPT ![m] = TRUE]
            /\ LastCard(m, TRUE)
       ELSE UNCHANGED <<status, cards>>
    /\ UNCHANGED <<handlers, active, timers, views, ghosts>>

TaskFailed(m) ==
    /\ Event("failed", m) \in events
    /\ events' = events \ {Event("failed", m)}
    /\ CASE IsActive(m) /\ status[m] = "cancelled" ->
              timers' = [timers EXCEPT ![m] = @ \cup {"finalize"}] /\ UNCHANGED <<status, cards>>
         [] IsActive(m) /\ status[m] \notin Terminal ->
              /\ status' = [status EXCEPT ![m] = "failed"]
              /\ finalized' = [finalized EXCEPT ![m] = TRUE]
              /\ LastCard(m, TRUE) /\ UNCHANGED timers
         [] OTHER -> UNCHANGED <<status, cards, timers>>
    /\ UNCHANGED <<handlers, active, views, ghosts>>

\* A stop command or the button of the card.  It also comes between the end of a task and its
\* last card.  The mounted view, which gets the event at once, stops the run it shows, whosever
\* that is.
Abort(m) ==
    /\ IsActive(m) /\ status[m] # "cancelled"
    /\ status' = [status EXCEPT ![m] = "cancelled"]
    /\ timers' = [timers EXCEPT ![m] = {"finalize", "fallback"}]
    /\ \E own \in BOOLEAN : StopRun(own)
    /\ UNCHANGED <<handlers, active, cards, screen, desktop, events, starts, since>>

\* The timers of a stop: the regular one and, after 15 s, the fallback.
Finalize(m, kind) ==
    /\ kind \in timers[m]
    /\ IF IsActive(m) /\ status[m] = "cancelled"
       THEN /\ timers' = [timers EXCEPT ![m] = @ \ {kind}]
            /\ finalized' = [finalized EXCEPT ![m] = TRUE]
            /\ LastCard(m, TRUE)
       ELSE timers' = [timers EXCEPT ![m] = @ \ {kind}] /\ UNCHANGED cards
    /\ UNCHANGED <<handlers, tasks, views, events, ghosts>>

\* A card update ends, sent or not, and who waited for it goes on: it cleans up the bot without
\* looking at the task again.
CardSent(m) ==
    /\ chain[m] # <<>>
    /\ chain' = [chain EXCEPT ![m] = Tail(@)]
    /\ card' = [card EXCEPT ![m] = Head(chain[m]).kind]
    /\ IF Head(chain[m]).cleanup THEN CleanupBot(bot[m])
                                 ELSE UNCHANGED <<active, timers, finalized>>
    /\ UNCHANGED <<handlers, status, views, events, ghosts>>

\* The bot is disconnected.
Disconnect(b) ==
    /\ active[b] # None
    /\ ByDesktop
    /\ CleanupBot(b)
    /\ UNCHANGED <<handlers, status, chain, card, screen, run, events, ghosts>>

(***************************************************************************)

TaskStep(m) ==
    \/ CreateTask(m) \/ ShowAgent(m) \/ Emit(m) \/ EmitFails(m) \/ Watchdog(m) \/ Start(m)
    \/ TaskCompleted(m) \/ TaskFailed(m) \/ CardSent(m) \/ Abort(m)
    \/ \E kind \in {"finalize", "fallback"} : Finalize(m, kind)

Next ==
    \/ \E m \in Messages : Deliver(m) \/ TaskStep(m) \/ Progress(m)
    \/ \E a \in Agents : \/ \E b \in Bots \cup {None} : StartOther(a, b)
                         \/ EnterLoop(a) \/ Switch(a)
                         \/ \E outcome \in {"completed", "failed", "silent"} : RunEnds(a, outcome)
    \/ OtherMessage \/ DesktopStop \/ Withdraw
    \/ \E b \in Bots : Disconnect(b)

Spec == Init /\ [][Next]_vars

----------------------------------------------------------------------------
(***************************************************************************)
(* Properties.                                                             *)
(***************************************************************************)

\* A message is taken up again, from a copy of it, only when at least MaxProcessed others have
\* come since; the task made of it is started at most once.
TakenUpOnce ==
    [][\A m \in Messages :
         pc[m] = "none" /\ pc'[m] = "chatInfo" => since[id[m]] = MaxProcessed]_vars
StartedOnce == \A m \in Messages : starts[m] <= 1

\* A bot that shows a task as running has a run whose end it will learn of, or the report is on
\* its way.  The exceptions are the silent ends of the code: a run that was stopped before it
\* reached its agent loop, one that a newer run overtook after a stop, and one whose request was
\* withdrawn.  A stop in the loop is no exception, whoever pressed it.
RunningIsReported ==
    \A m \in Messages : IsActive(m) /\ status[m] = "running" =>
        \/ m \in excused
        \/ \E a \in Agents : run[a].pc # "none" /\ run[a].bot = bot[m]
        \/ {Event("completed", m), Event("failed", m)} \cap events # {}

\* What was stopped, given up by the watchdog or otherwise ended is not started or resumed by
\* anything that is still on its way.
EndedStaysEnded ==
    [][\A m \in Messages : status[m] \in Terminal =>
         /\ status[m]' \in Terminal /\ starts[m]' = starts[m]
         /\ status[m] # "completed" => status[m]' # "completed"]_vars

\* The last card of a task is not covered by progress that was queued before it.
LastCardStays ==
    [][\A m \in Messages : card[m] = "last" => card[m]' = "last"]_vars

\* One start, one end, one last card.
EndIsFinal == TakenUpOnce /\ []StartedOnce /\ EndedStaysEnded /\ LastCardStays

\* A bot does not stay busy with a task that nobody works on: as long as the task is not running
\* there is a handler, a watchdog, a timer of a stop or a last card that will free the bot.
WillBeFreed(m) ==
    CASE status[m] = "pending"   -> pc[m] \in {"card", "listener", "watched"}
      [] status[m] = "cancelled" -> timers[m] # {} \/ \E i \in DOMAIN chain[m] : chain[m][i].cleanup
      [] OTHER                   -> \E i \in DOMAIN chain[m] : chain[m][i].cleanup
BusyBotIsFreed == \A m \in Messages : IsActive(m) /\ status[m] # "running" => WillBeFreed(m)

\* A stop command ends only the run of the bot it was sent to.  It does not hold (README,
\* "Divergences").
AbortIsOwn ==
    [][\A m \in Messages, a \in Agents :
         Abort(m) /\ run[a].pc # "none" /\ run[a].bot # bot[m] => run[a]' = run[a]]_vars

=============================================================================
