---------------------------- MODULE ImTasksProofs ----------------------------
(***************************************************************************)
(* Proofs about the tasks of the chat platforms, for any bots, agents,     *)
(* messages and acts of the desktop.                                       *)
(*                                                                         *)
(* The parts of the invariant: types; what a message has been through      *)
(* before it has a task (Stages) and before that task is started (Once);   *)
(* who reports on a running task (RunningIsReported); who frees a bot      *)
(* whose task does not run (Freed); what is queued as a card (CardOrder).  *)
(***************************************************************************)
EXTENDS ImTasks, SequenceTheorems, TLAPS

USE DEF handlers, tasks, cards, views, ghosts, IsActive

Places == {"none", "chatInfo", "card", "listener", "watched", "done"}
Statuses == {"none", "pending", "running"} \cup Terminal
Cards == [kind : {"progress", "last"}, cleanup : BOOLEAN]
Runs == [pc : {"none", "preparing", "looping"}, slot : BOOLEAN, bot : Bots \cup {None},
         stopped : BOOLEAN, withdrawn : BOOLEAN]

MemoryTypes ==
    /\ id \in [Messages -> Ids]
    /\ processed \in Seq(Ids \cup {None}) /\ Len(processed) <= MaxProcessed
    /\ since \in [Ids -> 0..MaxProcessed]

HandlerTypes ==
    /\ pc \in [Messages -> Places] /\ bot \in [Messages -> Bots]
    /\ status \in [Messages -> Statuses]
    /\ active \in [Bots -> Messages \cup {None}]

TimerTypes == timers \in [Messages -> SUBSET {"finalize", "fallback"}]

CardTypes ==
    /\ chain \in [Messages -> Seq(Cards)]
    /\ finalized \in [Messages -> BOOLEAN] /\ card \in [Messages -> {"progress", "last"}]

RunTypes == screen \in Agents /\ run \in [Agents -> Runs]

StartTypes == starts \in [Messages -> Nat]

Types == MemoryTypes /\ HandlerTypes /\ TimerTypes /\ CardTypes /\ RunTypes /\ StartTypes

\* The messages recorded after an id push it out one by one: less than MaxProcessed of them leave
\* it where they are counted from.
Remembered ==
    \A x \in Ids : since[x] < MaxProcessed =>
        since[x] < Len(processed) /\ processed[Len(processed) - since[x]] = x

\* The active task of a bot came to that bot; a message gets its task and its place as the active
\* one together.
Stages ==
    /\ \A b \in Bots : active[b] # None => bot[active[b]] = b /\ status[active[b]] # "none"
    /\ \A m \in Messages : pc[m] \in {"none", "chatInfo"} => status[m] = "none"

\* A task is handed over once, by its handler, and started once, by that event.
Once ==
    \A m \in Messages :
        /\ Event("start", m) \in events => pc[m] \in {"watched", "done"} /\ starts[m] = 0
        /\ starts[m] # 0 => starts[m] = 1 /\ pc[m] \in {"watched", "done"}

\* A last card on its way that will free the bot.
Cleans(m) == \E i \in DOMAIN chain[m] : chain[m][i].cleanup

Freed ==
    \A m \in Messages : IsActive(m) =>
        /\ status[m] = "pending" => pc[m] \in {"card", "listener", "watched"}
        /\ status[m] = "cancelled" => timers[m] # {} \/ Cleans(m)
        /\ status[m] \in {"completed", "failed"} => Cleans(m)

\* Progress is queued only while nothing else is, and not after a last card.
CardOrder ==
    \A m \in Messages : \A i \in DOMAIN chain[m] :
        chain[m][i].kind = "progress" => i = 1 /\ card[m] = "progress"

\* A tracker that queued a last card is finalized.
LastIsFinal ==
    \A m \in Messages : ~finalized[m] =>
        card[m] = "progress" /\ \A i \in DOMAIN chain[m] : chain[m][i].kind = "progress"

\* A running task that is not excused has a run that cannot end in silence, or a report coming.
WillReport(r) == r.pc # "none" /\ ~r.withdrawn /\ (r.stopped => r.pc = "looping")
Reported ==
    \A m \in Messages : IsActive(m) /\ status[m] = "running" =>
        \/ m \in excused
        \/ \E a \in Agents : WillReport(run[a]) /\ run[a].bot = bot[m]
        \/ {Event("completed", m), Event("failed", m)} \cap events # {}

Inv == Types /\ Remembered /\ Stages /\ Once /\ Reported /\ Freed /\ CardOrder /\ LastIsFinal

----------------------------------------------------------------------------
\* What one more card, or one less, does to a chain.
LEMMA AppendCard ==
    ASSUME NEW c \in Seq(Cards), NEW k \in Cards
    PROVE  /\ Append(c, k) \in Seq(Cards) /\ Len(Append(c, k)) = Len(c) + 1
           /\ DOMAIN Append(c, k) = 1..(Len(c) + 1) /\ DOMAIN c = 1..Len(c)
           /\ \A i \in DOMAIN c : Append(c, k)[i] = c[i]
           /\ Append(c, k)[Len(c) + 1] = k
BY AppendProperties, LenProperties

\* What Head and Tail do to a chain of cards.
LEMMA TailCard ==
    ASSUME NEW c \in Seq(Cards), c # <<>>
    PROVE  /\ Tail(c) \in Seq(Cards) /\ Head(c) = c[1] /\ Head(c) \in Cards
           /\ \A i \in DOMAIN Tail(c) : i + 1 \in DOMAIN c /\ Tail(c)[i] = c[i + 1]
           /\ \A i \in DOMAIN c : i # 1 => i - 1 \in DOMAIN Tail(c) /\ Tail(c)[i - 1] = c[i]
BY HeadTailProperties, LenProperties, EmptySeq

\* A last card keeps the order of the cards, and frees the bot if somebody waits for it.
LEMMA LastCardFacts ==
    ASSUME CardTypes, NEW m \in Messages, NEW c \in BOOLEAN, LastCard(m, c)
    PROVE  /\ finalized' \in [Messages -> BOOLEAN] => CardTypes'
           /\ CardOrder => CardOrder'
           /\ \A x \in Messages : Cleans(x) => Cleans(x)'
           /\ c => Cleans(m)'
           /\ \A x \in Messages \ {m} : chain'[x] = chain[x]
           /\ card' = card
<1> DEFINE u == [kind |-> "last", cleanup |-> c]
<1>1. u \in Cards BY DEF Cards
<1>2. chain' = [chain EXCEPT ![m] = Append(chain[m], u)] /\ card' = card BY DEF LastCard
<1>3. u.kind # "progress" /\ u.cleanup = c OBVIOUS
<1> HIDE DEF u
<1>4. chain[m] \in Seq(Cards) BY DEF CardTypes
<1>5. chain'[m] = Append(chain[m], u) /\ \A x \in Messages \ {m} : chain'[x] = chain[x]
  BY <1>2 DEF CardTypes
<1>6. /\ chain'[m] \in Seq(Cards)
      /\ DOMAIN chain'[m] = 1..(Len(chain[m]) + 1) /\ DOMAIN chain[m] = 1..Len(chain[m])
      /\ \A i \in DOMAIN chain[m] : chain'[m][i] = chain[m][i]
      /\ chain'[m][Len(chain[m]) + 1] = u
  BY <1>1, <1>4, <1>5, AppendCard
<1>7. Len(chain[m]) \in Nat BY <1>4, LenProperties
<1>8. \A i \in DOMAIN chain'[m] : i \in DOMAIN chain[m] \/ i = Len(chain[m]) + 1 BY <1>6, <1>7
<1>9. finalized' \in [Messages -> BOOLEAN] => CardTypes' BY <1>2, <1>5, <1>6 DEF CardTypes
<1>10. ASSUME CardOrder PROVE CardOrder'
  <2> SUFFICES ASSUME NEW x \in Messages, NEW i \in DOMAIN chain'[x], chain'[x][i].kind = "progress"
               PROVE  i = 1 /\ card'[x] = "progress"
    BY DEF CardOrder
  <2>1. i \in DOMAIN chain[x] /\ chain'[x][i] = chain[x][i] BY <1>3, <1>5, <1>6, <1>8
  <2> QED BY <1>2, <1>10, <2>1 DEF CardOrder
<1>11. \A x \in Messages : Cleans(x) => Cleans(x)' BY <1>5, <1>6, <1>7 DEF Cleans
<1>12. ASSUME c PROVE Cleans(m)'
  <2>1. Len(chain[m]) + 1 \in DOMAIN chain'[m] BY <1>6, <1>7
  <2>2. chain'[m][Len(chain[m]) + 1].cleanup BY <1>3, <1>6, <1>12
  <2> QED BY <2>1, <2>2 DEF Cleans
<1> QED BY <1>2, <1>5, <1>9, <1>10, <1>11, <1>12

\* Nor does it matter when the cards stay as they are.
LEMMA SameCards ==
    ASSUME UNCHANGED <<chain, card>>
    PROVE  /\ CardTypes /\ finalized' \in [Messages -> BOOLEAN] => CardTypes'
           /\ CardOrder => CardOrder'
           /\ LastIsFinal /\ (\A x \in Messages : finalized[x] => finalized'[x]) => LastIsFinal'
           /\ \A x \in Messages : Cleans(x) <=> Cleans(x)'
BY DEF CardTypes, CardOrder, LastIsFinal, Cleans

\* A card that was sent leaves those behind it, which are not progress.
LEMMA CardSentFacts ==
    ASSUME CardTypes, NEW m \in Messages, CardSent(m)
    PROVE  /\ CardTypes'
           /\ LastIsFinal => LastIsFinal'
           /\ CardOrder => CardOrder' /\ (Head(chain[m]).kind = "progress" => card[m] = "progress")
           /\ \A x \in Messages \ {m} : Cleans(x) => Cleans(x)'
           /\ ~Head(chain[m]).cleanup /\ Cleans(m) => Cleans(m)'
           /\ Head(chain[m]).cleanup \in BOOLEAN /\ Head(chain[m]).kind \in {"progress", "last"}
<1> DEFINE h == Head(chain[m])
<1>1. chain[m] \in Seq(Cards) /\ chain[m] # <<>> BY DEF CardTypes, CardSent
<1>2. chain' = [chain EXCEPT ![m] = Tail(chain[m])] /\ card' = [card EXCEPT ![m] = h.kind]
  BY DEF CardSent
<1>3. /\ Tail(chain[m]) \in Seq(Cards) /\ h = chain[m][1] /\ h \in Cards
      /\ 1 \in DOMAIN chain[m]
      /\ \A i \in DOMAIN Tail(chain[m]) :
           i \in Nat \ {0} /\ i + 1 \in DOMAIN chain[m] /\ Tail(chain[m])[i] = chain[m][i + 1]
      /\ \A i \in DOMAIN chain[m] :
           i # 1 => i - 1 \in DOMAIN Tail(chain[m]) /\ Tail(chain[m])[i - 1] = chain[m][i]
  BY <1>1, TailCard, HeadTailProperties, LenProperties, EmptySeq
<1>4. h.kind \in {"progress", "last"} /\ h.cleanup \in BOOLEAN BY <1>3 DEF Cards
<1>5. /\ chain'[m] = Tail(chain[m]) /\ card'[m] = h.kind
      /\ \A x \in Messages \ {m} : chain'[x] = chain[x] /\ card'[x] = card[x]
  BY <1>2 DEF CardTypes
<1>11. /\ finalized' \in [Messages -> BOOLEAN]
       /\ \A x \in Messages : finalized[x] => finalized'[x]
  BY DEF CardSent, CleanupBot, CardTypes
<1> HIDE DEF h
<1>6. CardTypes' BY <1>2, <1>3, <1>4, <1>11 DEF CardTypes
<1>12. ASSUME LastIsFinal PROVE LastIsFinal'
  <2> SUFFICES ASSUME NEW x \in Messages, ~finalized'[x]
               PROVE  /\ card'[x] = "progress"
                      /\ \A i \in DOMAIN chain'[x] : chain'[x][i].kind = "progress"
    BY DEF LastIsFinal
  <2>1. card[x] = "progress" /\ \A i \in DOMAIN chain[x] : chain[x][i].kind = "progress"
    BY <1>11, <1>12 DEF LastIsFinal
  <2>2. CASE x = m
    <3>1. card'[m] = "progress" BY <1>3, <1>5, <2>1, <2>2
    <3>2. ASSUME NEW i \in DOMAIN Tail(chain[m]) PROVE Tail(chain[m])[i].kind = "progress"
      BY <1>3, <2>1, <2>2
    <3> QED BY <1>5, <2>2, <3>1, <3>2
  <2>3. CASE x # m BY <1>5, <2>1, <2>3
  <2> QED BY <2>2, <2>3
<1>7. ASSUME CardOrder PROVE CardOrder'
  <2>1. \A i \in DOMAIN chain'[m] : chain'[m][i].kind # "progress"
    BY <1>3, <1>5, <1>7 DEF CardOrder
  <2> QED BY <1>5, <1>7, <2>1 DEF CardOrder
<1>8. CardOrder => (h.kind = "progress" => card[m] = "progress") BY <1>3 DEF CardOrder
<1>9. \A x \in Messages \ {m} : Cleans(x) => Cleans(x)' BY <1>5 DEF Cleans
<1>10. ASSUME ~h.cleanup, Cleans(m) PROVE Cleans(m)'
  <2>1. PICK i \in DOMAIN chain[m] : chain[m][i].cleanup BY <1>10 DEF Cleans
  <2>2. i # 1 BY <1>3, <1>10, <2>1
  <2>3. i - 1 \in DOMAIN chain'[m] /\ chain'[m][i - 1] = chain[m][i] BY <1>3, <1>5, <2>2
  <2>4. chain'[m][i - 1].cleanup BY <2>1, <2>3
  <2> QED BY <2>3, <2>4 DEF Cleans
<1> QED BY <1>4, <1>6, <1>7, <1>8, <1>9, <1>10, <1>12 DEF h

\* A last card of a tracker that is finalized with it.
LEMMA LastCardIsFinal ==
    ASSUME CardTypes, LastIsFinal, NEW m \in Messages, NEW c \in BOOLEAN, LastCard(m, c),
           finalized'[m], \A x \in Messages : finalized[x] => finalized'[x]
    PROVE  LastIsFinal'
<1>1. card' = card /\ \A x \in Messages \ {m} : chain'[x] = chain[x] BY LastCardFacts
<1> QED BY <1>1 DEF LastIsFinal

\* An event to start a task is of that task only, and no other event is one.
LEMMA StartEvents ==
    /\ \A x, y : Event("start", x) = Event("start", y) => x = y
    /\ \A t, x, y : t # "start" => Event("start", x) # Event(t, y)
    /\ \A x, y : Event("start", x) # Event("completed", y) /\ Event("start", x) # Event("failed", y)
    /\ \A x, y : Event("completed", x) = Event("completed", y) => x = y
    /\ \A x, y : Event("failed", x) = Event("failed", y) => x = y
    /\ \A x, y : Event("failed", x) # Event("completed", y)
<1>1. \A t, x : Event(t, x).type = t /\ Event(t, x).task = x BY DEF Event
<1> QED BY <1>1

\* Types of what the handlers and the tasks keep.
LEMMA HandlerTypesStep ==
    ASSUME HandlerTypes, [Next]_vars
    PROVE  HandlerTypes'
<1> USE ImAssumption DEF ImAssumption, HandlerTypes, Places, Statuses, Terminal
<1>1. CASE UNCHANGED vars BY <1>1 DEF vars
<1>2. CASE \E m \in Messages : Deliver(m) BY <1>2 DEF Deliver, Record
<1>3. CASE \E m \in Messages : CreateTask(m) BY <1>3 DEF CreateTask
<1>4. CASE \E m \in Messages : ShowAgent(m) BY <1>4 DEF ShowAgent
<1>5. CASE \E m \in Messages : Emit(m) BY <1>5 DEF Emit, ShouldStart
<1>6. CASE \E m \in Messages : EmitFails(m) BY <1>6 DEF EmitFails, ShouldStart, LastCard
<1>7. CASE \E m \in Messages : Watchdog(m) BY <1>7 DEF Watchdog, CleanupBot, LastCard
<1>8. CASE \E m \in Messages : Start(m) BY <1>8 DEF Start, NewRunOf, Takes, ShouldStart
<1>9. CASE \E m \in Messages : TaskCompleted(m) BY <1>9 DEF TaskCompleted, MayComplete, LastCard
<1>10. CASE \E m \in Messages : TaskFailed(m) BY <1>10 DEF TaskFailed, LastCard
<1>11. CASE \E m \in Messages : CardSent(m) BY <1>11 DEF CardSent, CleanupBot
<1>12. CASE \E m \in Messages : Abort(m) BY <1>12 DEF Abort, StopRun
<1>13. CASE \E m \in Messages, kind \in {"finalize", "fallback"} : Finalize(m, kind)
  BY <1>13 DEF Finalize, LastCard
<1>14. CASE \E m \in Messages : Progress(m) BY <1>14 DEF Progress
<1>15. CASE \E a \in Agents, b \in Bots \cup {None} : StartOther(a, b)
  BY <1>15 DEF StartOther, NewRunOf, ByDesktop
<1>16. CASE \E a \in Agents, o \in {"completed", "failed", "silent"} : RunEnds(a, o)
  BY <1>16 DEF RunEnds, NoRun
<1>17. CASE \E a \in Agents : Switch(a) BY <1>17 DEF Switch
<1>18. CASE DesktopStop BY <1>18 DEF DesktopStop, StopRun, ByDesktop
<1>19. CASE \E b \in Bots : Disconnect(b) BY <1>19 DEF Disconnect, CleanupBot, ByDesktop
<1>20. CASE OtherMessage BY <1>20 DEF OtherMessage, Record
<1>21. CASE \E a \in Agents : EnterLoop(a) BY <1>21 DEF EnterLoop
<1>22. CASE Withdraw BY <1>22 DEF Withdraw, ByDesktop
<1> QED BY <1>1, <1>2, <1>3, <1>4, <1>5, <1>6, <1>7, <1>8, <1>9, <1>10, <1>11, <1>12, <1>13,
     <1>14, <1>15, <1>16, <1>17, <1>18, <1>19, <1>20, <1>21, <1>22 DEF Next, TaskStep

\* Types of the timers.
LEMMA TimerTypesStep ==
    ASSUME TimerTypes, [Next]_vars
    PROVE  TimerTypes'
<1> USE DEF TimerTypes
<1>1. CASE UNCHANGED vars BY <1>1 DEF vars
<1>2. CASE \E m \in Messages : Deliver(m) BY <1>2 DEF Deliver, Record
<1>3. CASE \E m \in Messages : CreateTask(m) BY <1>3 DEF CreateTask
<1>4. CASE \E m \in Messages : ShowAgent(m) BY <1>4 DEF ShowAgent
<1>5. CASE \E m \in Messages : Emit(m) BY <1>5 DEF Emit, ShouldStart
<1>6. CASE \E m \in Messages : EmitFails(m) BY <1>6 DEF EmitFails, ShouldStart, LastCard
<1>7. CASE \E m \in Messages : Watchdog(m) BY <1>7 DEF Watchdog, CleanupBot, LastCard
<1>8. CASE \E m \in Messages : Start(m) BY <1>8 DEF Start, NewRunOf, Takes, ShouldStart
<1>9. CASE \E m \in Messages : TaskCompleted(m) BY <1>9 DEF TaskCompleted, MayComplete, LastCard
<1>10. CASE \E m \in Messages : TaskFailed(m) BY <1>10 DEF TaskFailed, LastCard
<1>11. CASE \E m \in Messages : CardSent(m) BY <1>11 DEF CardSent, CleanupBot
<1>12. CASE \E m \in Messages : Abort(m) BY <1>12 DEF Abort, StopRun
<1>13. CASE \E m \in Messages, kind \in {"finalize", "fallback"} : Finalize(m, kind)
  BY <1>13 DEF Finalize, LastCard
<1>14. CASE \E m \in Messages : Progress(m) BY <1>14 DEF Progress
<1>15. CASE \E a \in Agents, b \in Bots \cup {None} : StartOther(a, b)
  BY <1>15 DEF StartOther, NewRunOf, ByDesktop
<1>16. CASE \E a \in Agents, o \in {"completed", "failed", "silent"} : RunEnds(a, o)
  BY <1>16 DEF RunEnds, NoRun
<1>17. CASE \E a \in Agents : Switch(a) BY <1>17 DEF Switch
<1>18. CASE DesktopStop BY <1>18 DEF DesktopStop, StopRun, ByDesktop
<1>19. CASE \E b \in Bots : Disconnect(b) BY <1>19 DEF Disconnect, CleanupBot, ByDesktop
<1>20. CASE OtherMessage BY <1>20 DEF OtherMessage, Record
<1>21. CASE \E a \in Agents : EnterLoop(a) BY <1>21 DEF EnterLoop
<1>22. CASE Withdraw BY <1>22 DEF Withdraw, ByDesktop
<1> QED BY <1>1, <1>2, <1>3, <1>4, <1>5, <1>6, <1>7, <1>8, <1>9, <1>10, <1>11, <1>12, <1>13,
     <1>14, <1>15, <1>16, <1>17, <1>18, <1>19, <1>20, <1>21, <1>22 DEF Next, TaskStep

\* Types of the cards.
LEMMA CardTypesStep ==
    ASSUME CardTypes, [Next]_vars
    PROVE  CardTypes'
<1> USE DEF CardTypes
<1>1. CASE UNCHANGED vars BY <1>1 DEF vars
<1>2. CASE \E m \in Messages : Deliver(m) BY <1>2 DEF Deliver, Record
<1>3. CASE \E m \in Messages : CreateTask(m) BY <1>3 DEF CreateTask
<1>4. CASE \E m \in Messages : ShowAgent(m) BY <1>4 DEF ShowAgent
<1>5. CASE \E m \in Messages : Emit(m) BY <1>5 DEF Emit, ShouldStart
<1>6. CASE \E m \in Messages : EmitFails(m)
  <2> PICK m \in Messages : EmitFails(m) BY <1>6
  <2> QED BY LastCardFacts DEF EmitFails, CardTypes
<1>7. CASE \E m \in Messages : Watchdog(m)
  <2> PICK m \in Messages : Watchdog(m) BY <1>7
  <2>1. finalized' \in [Messages -> BOOLEAN] BY DEF Watchdog, CleanupBot
  <2> QED BY <2>1, LastCardFacts DEF Watchdog
<1>8. CASE \E m \in Messages : Start(m) BY <1>8 DEF Start, NewRunOf, Takes, ShouldStart
<1>9. CASE \E m \in Messages : TaskCompleted(m)
  <2> PICK m \in Messages : TaskCompleted(m) BY <1>9
  <2>1. finalized' \in [Messages -> BOOLEAN] BY DEF TaskCompleted
  <2> QED BY <2>1, LastCardFacts, SameCards DEF TaskCompleted
<1>10. CASE \E m \in Messages : TaskFailed(m)
  <2> PICK m \in Messages : TaskFailed(m) BY <1>10
  <2>1. finalized' \in [Messages -> BOOLEAN] BY DEF TaskFailed
  <2> QED BY <2>1, LastCardFacts, SameCards DEF TaskFailed
<1>11. CASE \E m \in Messages : CardSent(m)
  BY <1>11, CardSentFacts
<1>12. CASE \E m \in Messages : Abort(m) BY <1>12 DEF Abort, StopRun
<1>13. CASE \E m \in Messages, kind \in {"finalize", "fallback"} : Finalize(m, kind)
  <2> PICK m \in Messages, kind \in {"finalize", "fallback"} : Finalize(m, kind) BY <1>13
  <2>1. finalized' \in [Messages -> BOOLEAN] BY DEF Finalize
  <2> QED BY <2>1, LastCardFacts, SameCards DEF Finalize
<1>14. CASE \E m \in Messages : Progress(m)
  BY <1>14, AppendCard DEF Progress, Cards
<1>15. CASE \E a \in Agents, b \in Bots \cup {None} : StartOther(a, b)
  BY <1>15 DEF StartOther, NewRunOf, ByDesktop
<1>16. CASE \E a \in Agents, o \in {"completed", "failed", "silent"} : RunEnds(a, o)
  BY <1>16 DEF RunEnds, NoRun
<1>17. CASE \E a \in Agents : Switch(a) BY <1>17 DEF Switch
<1>18. CASE DesktopStop BY <1>18 DEF DesktopStop, StopRun, ByDesktop
<1>19. CASE \E b \in Bots : Disconnect(b) BY <1>19 DEF Disconnect, CleanupBot, ByDesktop
<1>20. CASE OtherMessage BY <1>20 DEF OtherMessage, Record
<1>21. CASE \E a \in Agents : EnterLoop(a) BY <1>21 DEF EnterLoop
<1>22. CASE Withdraw BY <1>22 DEF Withdraw, ByDesktop
<1> QED BY <1>1, <1>2, <1>3, <1>4, <1>5, <1>6, <1>7, <1>8, <1>9, <1>10, <1>11, <1>12, <1>13,
     <1>14, <1>15, <1>16, <1>17, <1>18, <1>19, <1>20, <1>21, <1>22 DEF Next, TaskStep

\* A new run is a run.
LEMMA NewRunTypes == \A b \in Bots \cup {None} : NewRun(b) \in Runs
BY DEF NewRun, NoRun, Runs

\* A stop leaves a run a run.
LEMMA StopRunTypes ==
    ASSUME RunTypes, NEW own \in BOOLEAN, StopRun(own)
    PROVE  run' \in [Agents -> Runs]
<1>1. run[screen] \in Runs BY DEF RunTypes
<1>2. Stopped(run[screen], own) \in Runs BY <1>1 DEF Stopped, Runs
<1> QED BY <1>2 DEF StopRun, RunTypes

\* Types of the runs.
LEMMA RunTypesStep ==
    ASSUME HandlerTypes, RunTypes, [Next]_vars
    PROVE  RunTypes'
<1> USE ImAssumption DEF ImAssumption, HandlerTypes, RunTypes, Runs
<1>1. CASE UNCHANGED vars BY <1>1 DEF vars
<1>2. CASE \E m \in Messages : Deliver(m) BY <1>2 DEF Deliver, Record
<1>3. CASE \E m \in Messages : CreateTask(m) BY <1>3 DEF CreateTask
<1>4. CASE \E m \in Messages : ShowAgent(m) BY <1>4 DEF ShowAgent
<1>5. CASE \E m \in Messages : Emit(m) BY <1>5 DEF Emit, ShouldStart
<1>6. CASE \E m \in Messages : EmitFails(m) BY <1>6 DEF EmitFails, ShouldStart, LastCard
<1>7. CASE \E m \in Messages : Watchdog(m) BY <1>7 DEF Watchdog, CleanupBot, LastCard
<1>8. CASE \E m \in Messages : Start(m)
  <2> PICK m \in Messages : Start(m) BY <1>8
  <2>1. NewRun(bot[m]) \in Runs BY NewRunTypes
  <2> HIDE DEF Runs
  <2>2. screen' = screen BY DEF Start
  <2>3. run' = run \/ run' = [run EXCEPT ![AgentOf[bot[m]]] = NewRun(bot[m])] BY DEF Start, NewRunOf
  <2> QED BY <2>1, <2>2, <2>3
<1>9. CASE \E m \in Messages : TaskCompleted(m) BY <1>9 DEF TaskCompleted, MayComplete, LastCard
<1>10. CASE \E m \in Messages : TaskFailed(m) BY <1>10 DEF TaskFailed, LastCard
<1>11. CASE \E m \in Messages : CardSent(m) BY <1>11 DEF CardSent, CleanupBot
<1>12. CASE \E m \in Messages : Abort(m) BY <1>12, StopRunTypes DEF Abort
<1>13. CASE \E m \in Messages, kind \in {"finalize", "fallback"} : Finalize(m, kind)
  BY <1>13 DEF Finalize, LastCard
<1>14. CASE \E m \in Messages : Progress(m) BY <1>14 DEF Progress
<1>15. CASE \E a \in Agents, b \in Bots \cup {None} : StartOther(a, b)
  <2> PICK a \in Agents, b \in Bots \cup {None} : StartOther(a, b) BY <1>15
  <2>1. NewRun(b) \in Runs BY NewRunTypes
  <2> HIDE DEF Runs
  <2> QED BY <2>1 DEF StartOther, NewRunOf
<1>16. CASE \E a \in Agents, o \in {"completed", "failed", "silent"} : RunEnds(a, o)
  BY <1>16 DEF RunEnds, NoRun
<1>17. CASE \E a \in Agents : Switch(a) BY <1>17 DEF Switch
<1>18. CASE DesktopStop BY <1>18, StopRunTypes DEF DesktopStop
<1>19. CASE \E b \in Bots : Disconnect(b) BY <1>19 DEF Disconnect, CleanupBot, ByDesktop
<1>20. CASE OtherMessage BY <1>20 DEF OtherMessage, Record
<1>21. CASE \E a \in Agents : EnterLoop(a)
  <2> PICK a \in Agents : EnterLoop(a) BY <1>21
  <2>1. [run[a] EXCEPT !.pc = "looping"] \in Runs OBVIOUS
  <2>2. run' = [run EXCEPT ![a] = [run[a] EXCEPT !.pc = "looping"]] /\ screen' = screen
    BY DEF EnterLoop
  <2> HIDE DEF Runs
  <2> QED BY <2>1, <2>2
<1>22. CASE Withdraw
  <2>1. Withdrawn(run[screen]) \in Runs BY DEF Withdrawn
  <2>2. run' = [run EXCEPT ![screen] = Withdrawn(run[screen])] /\ screen' = screen
    BY <1>22 DEF Withdraw
  <2> HIDE DEF Runs
  <2> QED BY <2>1, <2>2
<1> QED BY <1>1, <1>2, <1>3, <1>4, <1>5, <1>6, <1>7, <1>8, <1>9, <1>10, <1>11, <1>12, <1>13,
     <1>14, <1>15, <1>16, <1>17, <1>18, <1>19, <1>20, <1>21, <1>22 DEF Next, TaskStep

\* Starts are counted.
LEMMA StartTypesStep ==
    ASSUME StartTypes, [Next]_vars
    PROVE  StartTypes'
<1> USE DEF StartTypes
<1>1. CASE UNCHANGED vars BY <1>1 DEF vars
<1>2. CASE \E m \in Messages : Deliver(m) BY <1>2 DEF Deliver, Record
<1>3. CASE \E m \in Messages : CreateTask(m) BY <1>3 DEF CreateTask
<1>4. CASE \E m \in Messages : ShowAgent(m) BY <1>4 DEF ShowAgent
<1>5. CASE \E m \in Messages : Emit(m) BY <1>5 DEF Emit, ShouldStart
<1>6. CASE \E m \in Messages : EmitFails(m) BY <1>6 DEF EmitFails, ShouldStart, LastCard
<1>7. CASE \E m \in Messages : Watchdog(m) BY <1>7 DEF Watchdog, CleanupBot, LastCard
<1>8. CASE \E m \in Messages : Start(m) BY <1>8 DEF Start, NewRunOf, Takes, ShouldStart
<1>9. CASE \E m \in Messages : TaskCompleted(m) BY <1>9 DEF TaskCompleted, MayComplete, LastCard
<1>10. CASE \E m \in Messages : TaskFailed(m) BY <1>10 DEF TaskFailed, LastCard
<1>11. CASE \E m \in Messages : CardSent(m) BY <1>11 DEF CardSent, CleanupBot
<1>12. CASE \E m \in Messages : Abort(m) BY <1>12 DEF Abort, StopRun
<1>13. CASE \E m \in Messages, kind \in {"finalize", "fallback"} : Finalize(m, kind)
  BY <1>13 DEF Finalize, LastCard
<1>14. CASE \E m \in Messages : Progress(m) BY <1>14 DEF Progress
<1>15. CASE \E a \in Agents, b \in Bots \cup {None} : StartOther(a, b)
  BY <1>15 DEF StartOther, NewRunOf, ByDesktop
<1>16. CASE \E a \in Agents, o \in {"completed", "failed", "silent"} : RunEnds(a, o)
  BY <1>16 DEF RunEnds, NoRun
<1>17. CASE \E a \in Agents : Switch(a) BY <1>17 DEF Switch
<1>18. CASE DesktopStop BY <1>18 DEF DesktopStop, StopRun, ByDesktop
<1>19. CASE \E b \in Bots : Disconnect(b) BY <1>19 DEF Disconnect, CleanupBot, ByDesktop
<1>20. CASE OtherMessage BY <1>20 DEF OtherMessage, Record
<1>21. CASE \E a \in Agents : EnterLoop(a) BY <1>21 DEF EnterLoop
<1>22. CASE Withdraw BY <1>22 DEF Withdraw, ByDesktop
<1> QED BY <1>1, <1>2, <1>3, <1>4, <1>5, <1>6, <1>7, <1>8, <1>9, <1>10, <1>11, <1>12, <1>13,
     <1>14, <1>15, <1>16, <1>17, <1>18, <1>19, <1>20, <1>21, <1>22 DEF Next, TaskStep

\* A task becomes the active one of its bot, from its handler, once.
LEMMA StagesStep ==
    ASSUME Types, Stages, [Next]_vars
    PROVE  Stages'
<1> USE ImAssumption DEF ImAssumption, Types, HandlerTypes, Statuses, Places, Terminal, Stages
<1>1. CASE UNCHANGED vars BY <1>1 DEF vars
<1>2. CASE \E m \in Messages : Deliver(m) BY <1>2 DEF Deliver, Record
<1>3. CASE \E m \in Messages : CreateTask(m) BY <1>3 DEF CreateTask
<1>4. CASE \E m \in Messages : ShowAgent(m) BY <1>4 DEF ShowAgent
<1>5. CASE \E m \in Messages : Emit(m) BY <1>5 DEF Emit, ShouldStart
<1>6. CASE \E m \in Messages : EmitFails(m) BY <1>6 DEF EmitFails, ShouldStart, LastCard
<1>7. CASE \E m \in Messages : Watchdog(m) BY <1>7 DEF Watchdog, CleanupBot, LastCard
<1>8. CASE \E m \in Messages : Start(m) BY <1>8 DEF Start, NewRunOf, Takes, ShouldStart
<1>9. CASE \E m \in Messages : TaskCompleted(m) BY <1>9 DEF TaskCompleted, MayComplete, LastCard
<1>10. CASE \E m \in Messages : TaskFailed(m) BY <1>10 DEF TaskFailed, LastCard
<1>11. CASE \E m \in Messages : CardSent(m) BY <1>11 DEF CardSent, CleanupBot
<1>12. CASE \E m \in Messages : Abort(m) BY <1>12 DEF Abort, StopRun
<1>13. CASE \E m \in Messages, kind \in {"finalize", "fallback"} : Finalize(m, kind)
  BY <1>13 DEF Finalize, LastCard
<1>14. CASE \E m \in Messages : Progress(m) BY <1>14 DEF Progress
<1>15. CASE \E a \in Agents, b \in Bots \cup {None} : StartOther(a, b)
  BY <1>15 DEF StartOther, NewRunOf, ByDesktop
<1>16. CASE \E a \in Agents, o \in {"completed", "failed", "silent"} : RunEnds(a, o)
  BY <1>16 DEF RunEnds, NoRun
<1>17. CASE \E a \in Agents : Switch(a) BY <1>17 DEF Switch
<1>18. CASE DesktopStop BY <1>18 DEF DesktopStop, StopRun, ByDesktop
<1>19. CASE \E b \in Bots : Disconnect(b) BY <1>19 DEF Disconnect, CleanupBot, ByDesktop
<1>20. CASE OtherMessage BY <1>20 DEF OtherMessage, Record
<1>21. CASE \E a \in Agents : EnterLoop(a) BY <1>21 DEF EnterLoop
<1>22. CASE Withdraw BY <1>22 DEF Withdraw, ByDesktop
<1> QED BY <1>1, <1>2, <1>3, <1>4, <1>5, <1>6, <1>7, <1>8, <1>9, <1>10, <1>11, <1>12, <1>13,
     <1>14, <1>15, <1>16, <1>17, <1>18, <1>19, <1>20, <1>21, <1>22 DEF Next, TaskStep

\* The event that starts a task is emitted once, and taken once.
LEMMA OnceStep ==
    ASSUME Types, Stages, Once, [Next]_vars
    PROVE  Once'
<1> USE DEF Types, HandlerTypes, StartTypes, Once
<1>1. CASE UNCHANGED vars BY <1>1 DEF vars
<1>2. CASE \E m \in Messages : Deliver(m)
  <2> PICK m \in Messages : Deliver(m) BY <1>2
  <2>1. /\ pc[m] = "none" /\ starts' = starts /\ events' = events
        /\ \A x \in Messages \ {m} : pc'[x] = pc[x]
    BY DEF Deliver, Stages
  <2> QED BY <2>1
<1>3. CASE \E m \in Messages : CreateTask(m)
  <2> PICK m \in Messages : CreateTask(m) BY <1>3
  <2>1. /\ pc[m] = "chatInfo" /\ starts' = starts /\ events' = events
        /\ \A x \in Messages \ {m} : pc'[x] = pc[x]
    BY DEF CreateTask
  <2> QED BY <2>1
<1>4. CASE \E m \in Messages : ShowAgent(m) BY <1>4 DEF ShowAgent
<1>5. CASE \E m \in Messages : Emit(m)
  <2> PICK m \in Messages : Emit(m) BY <1>5
  <2>1. /\ pc[m] = "listener" /\ starts' = starts
        /\ events' \subseteq events \cup {Event("start", m)}
        /\ pc'[m] \in {"watched", "done"} /\ \A x \in Messages \ {m} : pc'[x] = pc[x]
    BY DEF Emit
  <2>2. starts[m] = 0 BY <2>1
  <2> QED BY <2>1, <2>2, StartEvents
<1>6. CASE \E m \in Messages : EmitFails(m)
  <2> PICK m \in Messages : EmitFails(m) BY <1>6
  <2>1. /\ pc[m] = "listener" /\ starts' = starts /\ events' = events
        /\ \A x \in Messages \ {m} : pc'[x] = pc[x]
    BY DEF EmitFails
  <2> QED BY <2>1
<1>7. CASE \E m \in Messages : Watchdog(m) BY <1>7 DEF Watchdog, CleanupBot, LastCard
<1>8. CASE \E m \in Messages : Start(m)
  <2> PICK m \in Messages : Start(m) BY <1>8
  <2>1. /\ Event("start", m) \in events /\ pc' = pc
        /\ events' = events \ {Event("start", m)}
        /\ starts' \in {starts, [starts EXCEPT ![m] = @ + 1]}
    BY DEF Start
  <2>2. pc[m] \in {"watched", "done"} /\ starts[m] = 0 BY <2>1
  <2>3. starts'[m] \in {0, 1} /\ \A x \in Messages \ {m} : starts'[x] = starts[x] BY <2>1, <2>2
  <2> QED BY <2>1, <2>2, <2>3
<1>9. CASE \E m \in Messages : TaskCompleted(m)
  BY <1>9, StartEvents DEF TaskCompleted, MayComplete, LastCard
<1>10. CASE \E m \in Messages : TaskFailed(m) BY <1>10, StartEvents DEF TaskFailed, LastCard
<1>11. CASE \E m \in Messages : CardSent(m) BY <1>11 DEF CardSent, CleanupBot
<1>12. CASE \E m \in Messages : Abort(m) BY <1>12 DEF Abort, StopRun
<1>13. CASE \E m \in Messages, kind \in {"finalize", "fallback"} : Finalize(m, kind)
  BY <1>13 DEF Finalize, LastCard
<1>14. CASE \E m \in Messages : Progress(m)
  <2>1. pc' = pc /\ events' = events /\ starts' = starts BY <1>14 DEF Progress
  <2> QED BY <2>1
<1>15. CASE \E a \in Agents, b \in Bots \cup {None} : StartOther(a, b)
  BY <1>15 DEF StartOther, NewRunOf, ByDesktop
<1>16. CASE \E a \in Agents, o \in {"completed", "failed", "silent"} : RunEnds(a, o)
  <2> PICK a \in Agents, o \in {"completed", "failed", "silent"} : RunEnds(a, o) BY <1>16
  <2>1. pc' = pc /\ starts' = starts BY DEF RunEnds
  <2>2. o = "silent" => events' = events BY DEF RunEnds
  <2>3. events' = events \/ events' = events \cup {Event(o, ReportedTask(run[a].bot))}
    BY DEF RunEnds
  <2>4. \A m \in Messages : Event("start", m) \in events' => Event("start", m) \in events
    BY <2>2, <2>3, StartEvents
  <2> QED BY <2>1, <2>4
<1>17. CASE \E a \in Agents : Switch(a) BY <1>17 DEF Switch
<1>18. CASE DesktopStop BY <1>18 DEF DesktopStop, StopRun, ByDesktop
<1>19. CASE \E b \in Bots : Disconnect(b) BY <1>19 DEF Disconnect, CleanupBot, ByDesktop
<1>20. CASE OtherMessage BY <1>20 DEF OtherMessage, Record
<1>21. CASE \E a \in Agents : EnterLoop(a) BY <1>21 DEF EnterLoop
<1>22. CASE Withdraw BY <1>22 DEF Withdraw, ByDesktop
<1> QED BY <1>1, <1>2, <1>3, <1>4, <1>5, <1>6, <1>7, <1>8, <1>9, <1>10, <1>11, <1>12, <1>13,
     <1>14, <1>15, <1>16, <1>17, <1>18, <1>19, <1>20, <1>21, <1>22 DEF Next, TaskStep

\* A new run takes over the task it was started for; another one that loses its run is excused.
LEMMA NewRunReports ==
    ASSUME Types, Reported, NEW a \in Agents, NEW b, NEW T \in SUBSET Messages, NewRunOf(a, b, T),
           UNCHANGED <<bot, active>>, \A m \in T : bot[m] = b,
           \A x \in Messages : {Event("completed", x), Event("failed", x)} \cap events # {} =>
              {Event("completed", x), Event("failed", x)} \cap events' # {}
    PROVE  Reported'
<1>1. /\ run' = [run EXCEPT ![a] = NewRun(b)]
      /\ excused' = (excused \cup Served(a)) \ T
      /\ status' = [m \in Messages |-> IF m \in T THEN "running" ELSE status[m]]
  BY DEF NewRunOf
<1>2. run'[a] = NewRun(b) /\ \A x \in Agents \ {a} : run'[x] = run[x]
  BY <1>1 DEF Types, RunTypes
<1>3. WillReport(run'[a]) /\ run'[a].bot = b BY <1>2 DEF WillReport, NewRun, NoRun
<1> SUFFICES ASSUME NEW m \in Messages, active[bot[m]] = m, status'[m] = "running"
             PROVE  \/ m \in excused'
                    \/ \E x \in Agents : WillReport(run'[x]) /\ run'[x].bot = bot[m]
                    \/ {Event("completed", m), Event("failed", m)} \cap events' # {}
  BY DEF Reported
<1>4. CASE m \in T BY <1>3, <1>4
<1>5. CASE m \notin T
  <2>1. status[m] = "running" BY <1>1, <1>5
  <2>2. CASE m \in excused BY <1>1, <1>5, <2>2
  <2>3. CASE \E x \in Agents \ {a} : WillReport(run[x]) /\ run[x].bot = bot[m] BY <1>2, <2>3
  <2>4. CASE WillReport(run[a]) /\ run[a].bot = bot[m]
    <3>1. m \in Served(a) BY <2>1, <2>4 DEF Served, WillReport
    <3> QED BY <1>1, <1>5, <3>1
  <2>5. CASE {Event("completed", m), Event("failed", m)} \cap events # {} BY <2>5
  <2> QED BY <2>1, <2>2, <2>3, <2>4, <2>5 DEF Reported
<1> QED BY <1>4, <1>5

\* A stop leaves a loop that will report, or excuses the task.
LEMMA StopReports ==
    ASSUME Types, Reported, \E own \in BOOLEAN : StopRun(own), UNCHANGED <<bot, active, events>>,
           \A x \in Messages : status'[x] = "running" => status[x] = "running"
    PROVE  Reported'
<1> PICK own \in BOOLEAN : StopRun(own) OBVIOUS
<1> DEFINE r == run[screen]
<1>1. /\ r \in Runs /\ run'[screen] = Stopped(r, own) /\ excused \subseteq excused'
      /\ \A x \in Agents \ {screen} : run'[x] = run[x]
      /\ own /\ r.pc = "preparing" => Served(screen) \subseteq excused'
  BY DEF StopRun, Types, RunTypes
<1>2. /\ Stopped(r, own).bot = r.bot
      /\ WillReport(r) => WillReport(Stopped(r, own)) \/ (own /\ r.pc = "preparing")
  BY <1>1 DEF Stopped, WillReport, Runs
<1>3. \A m \in Messages :
         active[bot[m]] = m /\ status[m] = "running" /\ r.bot = bot[m] /\ WillReport(r)
         => m \in Served(screen)
  BY DEF Served, WillReport
<1> HIDE DEF r
<1>4. screen \in Agents BY DEF Types, RunTypes
<1> SUFFICES ASSUME NEW m \in Messages, active[bot[m]] = m, status[m] = "running"
             PROVE  \/ m \in excused'
                    \/ \E x \in Agents : WillReport(run'[x]) /\ run'[x].bot = bot[m]
                    \/ {Event("completed", m), Event("failed", m)} \cap events # {}
  BY DEF Reported
<1>5. CASE WillReport(r) /\ r.bot = bot[m] BY <1>1, <1>2, <1>3, <1>4, <1>5
<1>6. CASE \E x \in Agents \ {screen} : WillReport(run[x]) /\ run[x].bot = bot[m] BY <1>1, <1>6
<1>7. CASE m \in excused BY <1>1, <1>7
<1>8. CASE {Event("completed", m), Event("failed", m)} \cap events # {} BY <1>8
<1> QED BY <1>5, <1>6, <1>7, <1>8 DEF Reported, r

\* The run of a running task reports on it.
LEMMA ReportStep ==
    ASSUME Types, Stages, Reported, [Next]_vars
    PROVE  Reported'
<1> USE ImAssumption DEF ImAssumption, Types, HandlerTypes, RunTypes, Runs, Terminal, Stages,
     Reported
<1>1. CASE UNCHANGED vars BY <1>1 DEF vars
<1>2. CASE \E m \in Messages : Deliver(m) BY <1>2 DEF Deliver, Record
<1>3. CASE \E m \in Messages : CreateTask(m) BY <1>3 DEF CreateTask
<1>4. CASE \E m \in Messages : ShowAgent(m) BY <1>4 DEF ShowAgent
<1>5. CASE \E m \in Messages : Emit(m) BY <1>5, StartEvents DEF Emit, ShouldStart
<1>6. CASE \E m \in Messages : EmitFails(m) BY <1>6 DEF EmitFails, ShouldStart, LastCard
<1>7. CASE \E m \in Messages : Watchdog(m)
  <2> PICK m \in Messages : Watchdog(m) BY <1>7
  <2>1. /\ active' = [active EXCEPT ![bot[m]] = None] /\ status' = [status EXCEPT ![m] = "failed"]
        /\ UNCHANGED <<bot, run, events, excused>>
    BY DEF Watchdog, CleanupBot
  <2>2. \A x \in Messages : active'[bot[x]] = x /\ status'[x] = "running" =>
           active[bot[x]] = x /\ status[x] = "running"
    BY <2>1
  <2> HIDE DEF Runs
  <2> QED BY <2>1, <2>2
<1>8. CASE \E m \in Messages : Start(m)
  <2> PICK m \in Messages : Start(m) BY <1>8
  <2>1. events' = events \ {Event("start", m)} /\ UNCHANGED <<bot, active>> BY DEF Start
  <2>2. \A x \in Messages : {Event("completed", x), Event("failed", x)} \cap events # {} =>
           {Event("completed", x), Event("failed", x)} \cap events' # {}
    BY <2>1, StartEvents
  <2>3. CASE Takes(m)
    <3>1. NewRunOf(AgentOf[bot[m]], bot[m], {m}) /\ AgentOf[bot[m]] \in Agents BY <2>3 DEF Start
    <3>2. {m} \in SUBSET Messages /\ \A x \in {m} : bot[x] = bot[m] OBVIOUS
    <3> HIDE DEF Types, Reported, Stages, Runs, HandlerTypes, RunTypes
    <3> QED BY <2>1, <2>2, <3>1, <3>2, NewRunReports
  <2>4. CASE ~Takes(m) BY <2>1, <2>2, <2>4 DEF Start
  <2> QED BY <2>3, <2>4
<1>9. CASE \E m \in Messages : TaskCompleted(m)
  BY <1>9, StartEvents DEF TaskCompleted, MayComplete, LastCard
<1>10. CASE \E m \in Messages : TaskFailed(m) BY <1>10, StartEvents DEF TaskFailed, LastCard
<1>11. CASE \E m \in Messages : CardSent(m) BY <1>11 DEF CardSent, CleanupBot
<1>12. CASE \E m \in Messages : Abort(m)
  <2> PICK m \in Messages : Abort(m) BY <1>12
  <2>1. /\ \E own \in BOOLEAN : StopRun(own)
        /\ UNCHANGED <<bot, active, events>> /\ status' = [status EXCEPT ![m] = "cancelled"]
    BY DEF Abort
  <2>2. \A x \in Messages : status'[x] = "running" => status[x] = "running" BY <2>1
  <2> QED BY <2>1, <2>2, StopReports
<1>13. CASE \E m \in Messages, kind \in {"finalize", "fallback"} : Finalize(m, kind)
  BY <1>13 DEF Finalize, LastCard
<1>14. CASE \E m \in Messages : Progress(m) BY <1>14 DEF Progress
<1>15. CASE \E a \in Agents, b \in Bots \cup {None} : StartOther(a, b)
  <2> PICK a \in Agents, b \in Bots \cup {None} : StartOther(a, b) BY <1>15
  <2> DEFINE T == {m \in Messages : b # None /\ active[b] = m /\ status[m] \notin Terminal}
  <2>1. NewRunOf(a, b, T) /\ UNCHANGED <<bot, active, events>> BY DEF StartOther
  <2>2. \A m \in T : m \in Messages /\ bot[m] = b
    <3> SUFFICES ASSUME NEW m \in T PROVE bot[m] = b OBVIOUS
    <3>1. b \in Bots /\ active[b] = m /\ m # None OBVIOUS
    <3> QED BY <3>1
  <2>3. T \in SUBSET Messages OBVIOUS
  <2>4. \A x \in Messages : {Event("completed", x), Event("failed", x)} \cap events # {} =>
           {Event("completed", x), Event("failed", x)} \cap events' # {}
    BY <2>1
  <2> HIDE DEF T, Types, Reported, Stages, Runs, HandlerTypes, RunTypes
  <2> QED BY <2>1, <2>2, <2>3, <2>4, NewRunReports
<1>16. CASE \E a \in Agents, o \in {"completed", "failed", "silent"} : RunEnds(a, o)
  <2> PICK a \in Agents, o \in {"completed", "failed", "silent"} : RunEnds(a, o) BY <1>16
  <2> DEFINE r == ReportedTask(run[a].bot)
  <2>1. /\ UNCHANGED <<bot, active, status, excused>> /\ run' = [run EXCEPT ![a] = NoRun]
        /\ events' = IF r = None \/ o = "silent" THEN events ELSE events \cup {Event(o, r)}
        /\ o \in Outcomes(run[a])
    BY DEF RunEnds
  <2> SUFFICES ASSUME NEW m \in Messages, active[bot[m]] = m, status[m] = "running"
               PROVE  \/ m \in excused
                      \/ \E x \in Agents : WillReport(run'[x]) /\ run'[x].bot = bot[m]
                      \/ {Event("completed", m), Event("failed", m)} \cap events' # {}
    BY <2>1
  <2>2. CASE \E x \in Agents \ {a} : WillReport(run[x]) /\ run[x].bot = bot[m] BY <2>1, <2>2
  <2>3. CASE WillReport(run[a]) /\ run[a].bot = bot[m]
    <3>1. r = m /\ m # None BY <2>3 DEF ReportedTask
    <3>2. o # "silent" BY <2>1, <2>3 DEF Outcomes, WillReport
    <3> QED BY <2>1, <3>1, <3>2
  <2>4. CASE m \in excused BY <2>4
  <2>5. CASE {Event("completed", m), Event("failed", m)} \cap events # {} BY <2>1, <2>5
  <2> QED BY <2>2, <2>3, <2>4, <2>5
<1>17. CASE \E a \in Agents : Switch(a) BY <1>17 DEF Switch
<1>18. CASE DesktopStop
  <2>1. (\E own \in BOOLEAN : StopRun(own)) /\ UNCHANGED <<bot, active, events, status>>
    BY <1>18 DEF DesktopStop
  <2> QED BY <2>1, StopReports
<1>19. CASE \E b \in Bots : Disconnect(b) BY <1>19 DEF Disconnect, CleanupBot, ByDesktop
<1>20. CASE OtherMessage BY <1>20 DEF OtherMessage, Record
<1>21. CASE \E a \in Agents : EnterLoop(a)
  <2> PICK a \in Agents : EnterLoop(a) BY <1>21
  <2>1. /\ run[a].pc = "preparing" /\ run' = [run EXCEPT ![a].pc = "looping"]
        /\ UNCHANGED <<bot, active, events, status, excused>>
    BY DEF EnterLoop
  <2>2. run'[a].bot = run[a].bot /\ (WillReport(run[a]) => WillReport(run'[a]))
    BY <2>1 DEF WillReport
  <2>3. \A x \in Agents \ {a} : run'[x] = run[x] BY <2>1
  <2> HIDE DEF Runs
  <2> QED BY <2>1, <2>2, <2>3
<1>22. CASE Withdraw
  <2>1. /\ excused' = excused \cup Served(screen) /\ UNCHANGED <<bot, active, events, status>>
        /\ \A x \in Agents \ {screen} : run'[x] = run[x]
    BY <1>22 DEF Withdraw
  <2>2. \A m \in Messages : active[bot[m]] = m /\ status[m] = "running" /\ run[screen].bot = bot[m]
            /\ WillReport(run[screen]) => m \in Served(screen)
    BY DEF Served, WillReport
  <2> HIDE DEF Runs
  <2> QED BY <2>1, <2>2
<1> QED BY <1>1, <1>2, <1>3, <1>4, <1>5, <1>6, <1>7, <1>8, <1>9, <1>10, <1>11, <1>12, <1>13,
     <1>14, <1>15, <1>16, <1>17, <1>18, <1>19, <1>20, <1>21, <1>22 DEF Next, TaskStep

\* A bot is freed.
LEMMA FreedStep ==
    ASSUME Types, Stages, Freed, [Next]_vars
    PROVE  Freed'
<1> USE DEF Types, HandlerTypes, TimerTypes, Stages, Freed, Statuses, Terminal
<1>1. CASE UNCHANGED vars BY <1>1, SameCards DEF vars
<1>2. CASE \E m \in Messages : Deliver(m) BY <1>2, SameCards DEF Deliver, Record
<1>3. CASE \E m \in Messages : CreateTask(m)
  <2> PICK m \in Messages : CreateTask(m) BY <1>3
  <2>1. \A x \in Messages : Cleans(x) => Cleans(x)' BY SameCards DEF CreateTask
  <2>2. CASE run[AgentOf[bot[m]]].slot BY <2>1, <2>2 DEF CreateTask
  <2>3. CASE ~run[AgentOf[bot[m]]].slot
    <3>1. /\ pc' = [pc EXCEPT ![m] = "card"] /\ status' = [status EXCEPT ![m] = "pending"]
          /\ active' = [active EXCEPT ![bot[m]] = m] /\ bot' = bot
          /\ timers' = [x \in Messages |-> IF active[bot[m]] = x THEN {} ELSE timers[x]]
      BY <2>3 DEF CreateTask
    <3>2. pc'[m] = "card" /\ status'[m] = "pending" BY <3>1
    <3>3. \A x \in Messages \ {m} : pc'[x] = pc[x] /\ status'[x] = status[x] BY <3>1
    <3>4. \A x \in Messages \ {m} : active'[bot[x]] = x =>
            active[bot[x]] = x /\ timers'[x] = timers[x]
      <4> SUFFICES ASSUME NEW x \in Messages \ {m}, active'[bot[x]] = x
                   PROVE  active[bot[x]] = x /\ timers'[x] = timers[x]
        OBVIOUS
      <4>1. bot[x] # bot[m] /\ active[bot[x]] = x BY <3>1
      <4>2. active[bot[m]] # x
        <5>1. bot[m] \in Bots /\ x # None BY ImAssumption DEF ImAssumption
        <5> QED BY <4>1, <5>1
      <4> QED BY <3>1, <4>1, <4>2
    <3> QED BY <2>1, <3>1, <3>2, <3>3, <3>4
  <2> QED BY <2>2, <2>3
<1>4. CASE \E m \in Messages : ShowAgent(m)
  <2> PICK m \in Messages : ShowAgent(m) BY <1>4
  <2>1. \A x \in Messages : Cleans(x) => Cleans(x)' BY DEF ShowAgent, Cleans
  <2>2. /\ UNCHANGED <<bot, status, active, timers>> /\ pc'[m] = "listener"
        /\ \A x \in Messages \ {m} : pc'[x] = pc[x]
    BY DEF ShowAgent
  <2> QED BY <2>1, <2>2
<1>5. CASE \E m \in Messages : Emit(m) BY <1>5, SameCards DEF Emit, ShouldStart
<1>6. CASE \E m \in Messages : EmitFails(m)
  <2> PICK m \in Messages : EmitFails(m) BY <1>6
  <2>1. \A x \in Messages : Cleans(x) => Cleans(x)' BY LastCardFacts DEF EmitFails
  <2>2. Cleans(m)' BY LastCardFacts DEF EmitFails
  <2>3. /\ UNCHANGED <<bot, active, timers>> /\ status'[m] = "failed"
        /\ \A x \in Messages \ {m} : pc'[x] = pc[x] /\ status'[x] = status[x]
    BY DEF EmitFails
  <2> QED BY <2>1, <2>2, <2>3
<1>7. CASE \E m \in Messages : Watchdog(m)
  <2> PICK m \in Messages : Watchdog(m) BY <1>7
  <2>1. \A x \in Messages : Cleans(x) => Cleans(x)' BY LastCardFacts DEF Watchdog
  <2>2. /\ UNCHANGED <<bot, pc>> /\ active[bot[m]] = m
        /\ active' = [active EXCEPT ![bot[m]] = None]
        /\ timers' = [x \in Messages |-> IF active[bot[m]] = x THEN {} ELSE timers[x]]
        /\ \A x \in Messages \ {m} : status'[x] = status[x]
    BY DEF Watchdog, CleanupBot
  <2>3. \A x \in Messages : active'[bot[x]] = x =>
          x # m /\ active[bot[x]] = x /\ timers'[x] = timers[x]
    BY <2>2, ImAssumption DEF ImAssumption
  <2> QED BY <2>1, <2>2, <2>3
<1>8. CASE \E m \in Messages : Start(m) BY <1>8, SameCards DEF Start, NewRunOf, Takes, ShouldStart
<1>9. CASE \E m \in Messages : TaskCompleted(m)
  <2> PICK m \in Messages : TaskCompleted(m) BY <1>9
  <2>1. \A x \in Messages : Cleans(x) => Cleans(x)' BY LastCardFacts, SameCards DEF TaskCompleted
  <2>2. MayComplete(m) => Cleans(m)' /\ status' = [status EXCEPT ![m] = "completed"]
    BY LastCardFacts DEF TaskCompleted
  <2>3. ~MayComplete(m) => status' = status BY DEF TaskCompleted
  <2>4. UNCHANGED <<bot, active, timers, pc>> BY DEF TaskCompleted
  <2> QED BY <2>1, <2>2, <2>3, <2>4
<1>10. CASE \E m \in Messages : TaskFailed(m)
  <2> PICK m \in Messages : TaskFailed(m) BY <1>10
  <2>1. \A x \in Messages : Cleans(x) => Cleans(x)' BY LastCardFacts, SameCards DEF TaskFailed
  <2>2. UNCHANGED <<bot, active, pc>> BY DEF TaskFailed
  <2>3. \/ Cleans(m)' /\ status' = [status EXCEPT ![m] = "failed"] /\ timers' = timers
        \/ status' = status /\ timers' \in {timers, [timers EXCEPT ![m] = @ \cup {"finalize"}]}
    BY LastCardFacts DEF TaskFailed
  <2>4. \A x \in Messages : timers[x] # {} => timers'[x] # {} BY <2>3
  <2> QED BY <2>1, <2>2, <2>3, <2>4
<1>11. CASE \E m \in Messages : CardSent(m)
  <2> PICK m \in Messages : CardSent(m) BY <1>11
  <2>1. /\ \A x \in Messages \ {m} : Cleans(x) => Cleans(x)'
        /\ ~Head(chain[m]).cleanup /\ Cleans(m) => Cleans(m)'
    BY CardSentFacts
  <2>2. UNCHANGED <<bot, status, pc>> BY DEF CardSent
  <2>3. CASE Head(chain[m]).cleanup
    <3>1. /\ active' = [active EXCEPT ![bot[m]] = None]
          /\ timers' = [x \in Messages |-> IF active[bot[m]] = x THEN {} ELSE timers[x]]
      BY <2>3 DEF CardSent, CleanupBot
    <3>2. \A x \in Messages : active'[bot[x]] = x =>
            x # m /\ active[bot[x]] = x /\ timers'[x] = timers[x]
      BY <2>2, <3>1, ImAssumption DEF ImAssumption
    <3> QED BY <2>1, <2>2, <3>2
  <2>4. CASE ~Head(chain[m]).cleanup
    <3>1. UNCHANGED <<active, timers>> BY <2>4 DEF CardSent
    <3> QED BY <2>1, <2>2, <2>4, <3>1
  <2> QED BY <2>3, <2>4
<1>12. CASE \E m \in Messages : Abort(m)
  <2> PICK m \in Messages : Abort(m) BY <1>12
  <2>1. \A x \in Messages : Cleans(x) => Cleans(x)' BY SameCards DEF Abort
  <2>2. /\ UNCHANGED <<bot, active, pc>>
        /\ status'[m] = "cancelled" /\ timers'[m] # {}
        /\ \A x \in Messages \ {m} : status'[x] = status[x] /\ timers'[x] = timers[x]
    BY DEF Abort
  <2> QED BY <2>1, <2>2
<1>13. CASE \E m \in Messages, kind \in {"finalize", "fallback"} : Finalize(m, kind)
  <2> PICK m \in Messages, kind \in {"finalize", "fallback"} : Finalize(m, kind) BY <1>13
  <2>1. \A x \in Messages : Cleans(x) => Cleans(x)' BY LastCardFacts, SameCards DEF Finalize
  <2>2. UNCHANGED <<bot, status, active, pc>> BY DEF Finalize
  <2>3. \A x \in Messages \ {m} : timers'[x] = timers[x] BY DEF Finalize
  <2>4. IsActive(m) /\ status[m] = "cancelled" => Cleans(m)' BY LastCardFacts DEF Finalize
  <2> QED BY <2>1, <2>2, <2>3, <2>4
<1>14. CASE \E m \in Messages : Progress(m)
  <2> PICK m \in Messages : Progress(m) BY <1>14
  <2>1. UNCHANGED <<bot, status, active, pc, timers>> BY DEF Progress
  <2>2. \A x \in Messages : Cleans(x) => Cleans(x)'
    BY AppendCard DEF Progress, Cleans, CardTypes, Cards
  <2> QED BY <2>1, <2>2
<1>15. CASE \E a \in Agents, b \in Bots \cup {None} : StartOther(a, b)
  BY <1>15, SameCards DEF StartOther, NewRunOf, ByDesktop
<1>16. CASE \E a \in Agents, o \in {"completed", "failed", "silent"} : RunEnds(a, o)
  BY <1>16, SameCards DEF RunEnds, NoRun
<1>17. CASE \E a \in Agents : Switch(a) BY <1>17, SameCards DEF Switch
<1>18. CASE DesktopStop BY <1>18, SameCards DEF DesktopStop, StopRun, ByDesktop
<1>19. CASE \E b \in Bots : Disconnect(b)
  BY <1>19, SameCards, ImAssumption DEF Disconnect, CleanupBot, ByDesktop, ImAssumption
<1>20. CASE OtherMessage BY <1>20, SameCards DEF OtherMessage, Record
<1>21. CASE \E a \in Agents : EnterLoop(a) BY <1>21, SameCards DEF EnterLoop
<1>22. CASE Withdraw BY <1>22, SameCards DEF Withdraw, ByDesktop
<1> QED BY <1>1, <1>2, <1>3, <1>4, <1>5, <1>6, <1>7, <1>8, <1>9, <1>10, <1>11, <1>12, <1>13,
     <1>14, <1>15, <1>16, <1>17, <1>18, <1>19, <1>20, <1>21, <1>22 DEF Next, TaskStep

\* Progress is alone in its chain.
LEMMA CardOrderStep ==
    ASSUME CardTypes, CardOrder, LastIsFinal, [Next]_vars
    PROVE  CardOrder'
<1>1. CASE UNCHANGED vars BY <1>1, SameCards DEF vars
<1>2. CASE \E m \in Messages : Deliver(m) BY <1>2, SameCards DEF Deliver, Record
<1>3. CASE \E m \in Messages : CreateTask(m) BY <1>3, SameCards DEF CreateTask
<1>4. CASE \E m \in Messages : ShowAgent(m) BY <1>4, SameCards DEF ShowAgent
<1>5. CASE \E m \in Messages : Emit(m) BY <1>5, SameCards DEF Emit, ShouldStart
<1>6. CASE \E m \in Messages : EmitFails(m)
  <2> PICK m \in Messages : EmitFails(m) BY <1>6
  <2> QED BY LastCardFacts DEF EmitFails
<1>7. CASE \E m \in Messages : Watchdog(m)
  <2> PICK m \in Messages : Watchdog(m) BY <1>7
  <2> QED BY LastCardFacts DEF Watchdog
<1>8. CASE \E m \in Messages : Start(m) BY <1>8, SameCards DEF Start, NewRunOf, Takes, ShouldStart
<1>9. CASE \E m \in Messages : TaskCompleted(m)
  <2> PICK m \in Messages : TaskCompleted(m) BY <1>9
  <2> QED BY LastCardFacts, SameCards DEF TaskCompleted
<1>10. CASE \E m \in Messages : TaskFailed(m)
  <2> PICK m \in Messages : TaskFailed(m) BY <1>10
  <2> QED BY LastCardFacts, SameCards DEF TaskFailed
<1>11. CASE \E m \in Messages : CardSent(m)
  BY <1>11, CardSentFacts
<1>12. CASE \E m \in Messages : Abort(m) BY <1>12, SameCards DEF Abort, StopRun
<1>13. CASE \E m \in Messages, kind \in {"finalize", "fallback"} : Finalize(m, kind)
  <2> PICK m \in Messages, kind \in {"finalize", "fallback"} : Finalize(m, kind) BY <1>13
  <2> QED BY LastCardFacts, SameCards DEF Finalize
<1>14. CASE \E m \in Messages : Progress(m)
  BY <1>14 DEF Progress, CardTypes, Cards, CardOrder, LastIsFinal
<1>15. CASE \E a \in Agents, b \in Bots \cup {None} : StartOther(a, b)
  BY <1>15, SameCards DEF StartOther, NewRunOf, ByDesktop
<1>16. CASE \E a \in Agents, o \in {"completed", "failed", "silent"} : RunEnds(a, o)
  BY <1>16, SameCards DEF RunEnds, NoRun
<1>17. CASE \E a \in Agents : Switch(a) BY <1>17, SameCards DEF Switch
<1>18. CASE DesktopStop BY <1>18, SameCards DEF DesktopStop, StopRun, ByDesktop
<1>19. CASE \E b \in Bots : Disconnect(b)
  BY <1>19, SameCards DEF Disconnect, CleanupBot, ByDesktop
<1>20. CASE OtherMessage BY <1>20, SameCards DEF OtherMessage, Record
<1>21. CASE \E a \in Agents : EnterLoop(a) BY <1>21, SameCards DEF EnterLoop
<1>22. CASE Withdraw BY <1>22, SameCards DEF Withdraw, ByDesktop
<1> QED BY <1>1, <1>2, <1>3, <1>4, <1>5, <1>6, <1>7, <1>8, <1>9, <1>10, <1>11, <1>12, <1>13,
     <1>14, <1>15, <1>16, <1>17, <1>18, <1>19, <1>20, <1>21, <1>22 DEF Next, TaskStep

\* No last card without the end of its tracker.
LEMMA LastIsFinalStep ==
    ASSUME CardTypes, LastIsFinal, [Next]_vars
    PROVE  LastIsFinal'
<1>1. CASE UNCHANGED vars BY <1>1, SameCards DEF vars
<1>2. CASE \E m \in Messages : Deliver(m) BY <1>2, SameCards DEF Deliver, Record
<1>3. CASE \E m \in Messages : CreateTask(m) BY <1>3, SameCards DEF CreateTask
<1>4. CASE \E m \in Messages : ShowAgent(m) BY <1>4, SameCards DEF ShowAgent
<1>5. CASE \E m \in Messages : Emit(m) BY <1>5, SameCards DEF Emit, ShouldStart
<1>6. CASE \E m \in Messages : EmitFails(m)
  <2> PICK m \in Messages : EmitFails(m) BY <1>6
  <2>1. finalized'[m] /\ \A x \in Messages : finalized[x] => finalized'[x]
    BY DEF EmitFails, CardTypes
  <2> QED BY <2>1, LastCardIsFinal DEF EmitFails
<1>7. CASE \E m \in Messages : Watchdog(m)
  <2> PICK m \in Messages : Watchdog(m) BY <1>7
  <2>1. finalized'[m] /\ \A x \in Messages : finalized[x] => finalized'[x]
    BY DEF Watchdog, CleanupBot, CardTypes
  <2> QED BY <2>1, LastCardIsFinal DEF Watchdog
<1>8. CASE \E m \in Messages : Start(m) BY <1>8, SameCards DEF Start, NewRunOf, Takes, ShouldStart
<1>9. CASE \E m \in Messages : TaskCompleted(m)
  <2> PICK m \in Messages : TaskCompleted(m) BY <1>9
  <2>1. CASE UNCHANGED cards BY <2>1, SameCards
  <2>2. CASE ~UNCHANGED cards
    <3>1. /\ LastCard(m, TRUE) /\ finalized'[m]
          /\ \A x \in Messages : finalized[x] => finalized'[x]
      BY <2>2 DEF TaskCompleted, CardTypes
    <3> QED BY <3>1, LastCardIsFinal
  <2> QED BY <2>1, <2>2
<1>10. CASE \E m \in Messages : TaskFailed(m)
  <2> PICK m \in Messages : TaskFailed(m) BY <1>10
  <2>1. CASE UNCHANGED cards BY <2>1, SameCards
  <2>2. CASE ~UNCHANGED cards
    <3>1. /\ LastCard(m, TRUE) /\ finalized'[m]
          /\ \A x \in Messages : finalized[x] => finalized'[x]
      BY <2>2 DEF TaskFailed, CardTypes
    <3> QED BY <3>1, LastCardIsFinal
  <2> QED BY <2>1, <2>2
<1>11. CASE \E m \in Messages : CardSent(m)
  BY <1>11, CardSentFacts
<1>12. CASE \E m \in Messages : Abort(m) BY <1>12, SameCards DEF Abort, StopRun
<1>13. CASE \E m \in Messages, kind \in {"finalize", "fallback"} : Finalize(m, kind)
  <2> PICK m \in Messages, kind \in {"finalize", "fallback"} : Finalize(m, kind) BY <1>13
  <2>1. CASE UNCHANGED cards BY <2>1, SameCards
  <2>2. CASE ~UNCHANGED cards
    <3>1. /\ LastCard(m, TRUE) /\ finalized'[m]
          /\ \A x \in Messages : finalized[x] => finalized'[x]
      BY <2>2 DEF Finalize, CardTypes
    <3> QED BY <3>1, LastCardIsFinal
  <2> QED BY <2>1, <2>2
<1>14. CASE \E m \in Messages : Progress(m)
  BY <1>14 DEF Progress, CardTypes, Cards, LastIsFinal
<1>15. CASE \E a \in Agents, b \in Bots \cup {None} : StartOther(a, b)
  BY <1>15, SameCards DEF StartOther, NewRunOf, ByDesktop
<1>16. CASE \E a \in Agents, o \in {"completed", "failed", "silent"} : RunEnds(a, o)
  BY <1>16, SameCards DEF RunEnds, NoRun
<1>17. CASE \E a \in Agents : Switch(a) BY <1>17, SameCards DEF Switch
<1>18. CASE DesktopStop BY <1>18, SameCards DEF DesktopStop, StopRun, ByDesktop
<1>19. CASE \E b \in Bots : Disconnect(b)
  BY <1>19, SameCards DEF Disconnect, CleanupBot, ByDesktop
<1>20. CASE OtherMessage BY <1>20, SameCards DEF OtherMessage, Record
<1>21. CASE \E a \in Agents : EnterLoop(a) BY <1>21, SameCards DEF EnterLoop
<1>22. CASE Withdraw BY <1>22, SameCards DEF Withdraw, ByDesktop
<1> QED BY <1>1, <1>2, <1>3, <1>4, <1>5, <1>6, <1>7, <1>8, <1>9, <1>10, <1>11, <1>12, <1>13,
     <1>14, <1>15, <1>16, <1>17, <1>18, <1>19, <1>20, <1>21, <1>22 DEF Next, TaskStep

\* No step takes up a task that has ended.
LEMMA EndedStep ==
    ASSUME Types, Stages, [Next]_vars
    PROVE  \A m \in Messages : status[m] \in Terminal =>
             /\ status[m]' \in Terminal /\ starts[m]' = starts[m]
             /\ status[m] # "completed" => status[m]' # "completed"
<1> USE DEF Types, HandlerTypes, StartTypes, Stages, Terminal
<1>1. CASE UNCHANGED vars BY <1>1 DEF vars
<1>2. CASE \E m \in Messages : Deliver(m) BY <1>2 DEF Deliver, Record
<1>3. CASE \E m \in Messages : CreateTask(m) BY <1>3 DEF CreateTask
<1>4. CASE \E m \in Messages : ShowAgent(m) BY <1>4 DEF ShowAgent
<1>5. CASE \E m \in Messages : Emit(m) BY <1>5 DEF Emit, ShouldStart
<1>6. CASE \E m \in Messages : EmitFails(m) BY <1>6 DEF EmitFails, ShouldStart, LastCard
<1>7. CASE \E m \in Messages : Watchdog(m) BY <1>7 DEF Watchdog, CleanupBot, LastCard
<1>8. CASE \E m \in Messages : Start(m) BY <1>8 DEF Start, NewRunOf, Takes, ShouldStart
<1>9. CASE \E m \in Messages : TaskCompleted(m) BY <1>9 DEF TaskCompleted, MayComplete, LastCard
<1>10. CASE \E m \in Messages : TaskFailed(m) BY <1>10 DEF TaskFailed, LastCard
<1>11. CASE \E m \in Messages : CardSent(m) BY <1>11 DEF CardSent, CleanupBot
<1>12. CASE \E m \in Messages : Abort(m) BY <1>12 DEF Abort, StopRun
<1>13. CASE \E m \in Messages, kind \in {"finalize", "fallback"} : Finalize(m, kind)
  BY <1>13 DEF Finalize, LastCard
<1>14. CASE \E m \in Messages : Progress(m) BY <1>14 DEF Progress
<1>15. CASE \E a \in Agents, b \in Bots \cup {None} : StartOther(a, b)
  BY <1>15 DEF StartOther, NewRunOf, ByDesktop
<1>16. CASE \E a \in Agents, o \in {"completed", "failed", "silent"} : RunEnds(a, o)
  BY <1>16 DEF RunEnds, NoRun
<1>17. CASE \E a \in Agents : Switch(a) BY <1>17 DEF Switch
<1>18. CASE DesktopStop BY <1>18 DEF DesktopStop, StopRun, ByDesktop
<1>19. CASE \E b \in Bots : Disconnect(b) BY <1>19 DEF Disconnect, CleanupBot, ByDesktop
<1>20. CASE OtherMessage BY <1>20 DEF OtherMessage, Record
<1>21. CASE \E a \in Agents : EnterLoop(a) BY <1>21 DEF EnterLoop
<1>22. CASE Withdraw BY <1>22 DEF Withdraw, ByDesktop
<1> QED BY <1>1, <1>2, <1>3, <1>4, <1>5, <1>6, <1>7, <1>8, <1>9, <1>10, <1>11, <1>12, <1>13,
     <1>14, <1>15, <1>16, <1>17, <1>18, <1>19, <1>20, <1>21, <1>22 DEF Next, TaskStep

\* The card of a task that has ended is not covered by progress.
LEMMA CardStep ==
    ASSUME CardTypes, CardOrder, [Next]_vars
    PROVE  \A m \in Messages : card[m] = "last" => card[m]' = "last"
<1> USE DEF CardTypes
<1>1. CASE UNCHANGED vars BY <1>1 DEF vars
<1>2. CASE \E m \in Messages : Deliver(m) BY <1>2 DEF Deliver, Record
<1>3. CASE \E m \in Messages : CreateTask(m) BY <1>3 DEF CreateTask
<1>4. CASE \E m \in Messages : ShowAgent(m) BY <1>4 DEF ShowAgent
<1>5. CASE \E m \in Messages : Emit(m) BY <1>5 DEF Emit, ShouldStart
<1>6. CASE \E m \in Messages : EmitFails(m) BY <1>6 DEF EmitFails, ShouldStart, LastCard
<1>7. CASE \E m \in Messages : Watchdog(m) BY <1>7 DEF Watchdog, CleanupBot, LastCard
<1>8. CASE \E m \in Messages : Start(m) BY <1>8 DEF Start, NewRunOf, Takes, ShouldStart
<1>9. CASE \E m \in Messages : TaskCompleted(m) BY <1>9 DEF TaskCompleted, MayComplete, LastCard
<1>10. CASE \E m \in Messages : TaskFailed(m) BY <1>10 DEF TaskFailed, LastCard
<1>11. CASE \E m \in Messages : CardSent(m)
  <2> PICK m \in Messages : CardSent(m) BY <1>11
  <2>1. Head(chain[m]).kind = "progress" => card[m] = "progress" BY CardSentFacts
  <2>2. card' = [card EXCEPT ![m] = Head(chain[m]).kind] BY DEF CardSent
  <2>3. Head(chain[m]).kind \in {"progress", "last"} BY CardSentFacts
  <2> QED BY <2>1, <2>2, <2>3
<1>12. CASE \E m \in Messages : Abort(m) BY <1>12 DEF Abort, StopRun
<1>13. CASE \E m \in Messages, kind \in {"finalize", "fallback"} : Finalize(m, kind)
  BY <1>13 DEF Finalize, LastCard
<1>14. CASE \E m \in Messages : Progress(m) BY <1>14 DEF Progress
<1>15. CASE \E a \in Agents, b \in Bots \cup {None} : StartOther(a, b)
  BY <1>15 DEF StartOther, NewRunOf, ByDesktop
<1>16. CASE \E a \in Agents, o \in {"completed", "failed", "silent"} : RunEnds(a, o)
  BY <1>16 DEF RunEnds, NoRun
<1>17. CASE \E a \in Agents : Switch(a) BY <1>17 DEF Switch
<1>18. CASE DesktopStop BY <1>18 DEF DesktopStop, StopRun, ByDesktop
<1>19. CASE \E b \in Bots : Disconnect(b) BY <1>19 DEF Disconnect, CleanupBot, ByDesktop
<1>20. CASE OtherMessage BY <1>20 DEF OtherMessage, Record
<1>21. CASE \E a \in Agents : EnterLoop(a) BY <1>21 DEF EnterLoop
<1>22. CASE Withdraw BY <1>22 DEF Withdraw, ByDesktop
<1> QED BY <1>1, <1>2, <1>3, <1>4, <1>5, <1>6, <1>7, <1>8, <1>9, <1>10, <1>11, <1>12, <1>13,
     <1>14, <1>15, <1>16, <1>17, <1>18, <1>19, <1>20, <1>21, <1>22 DEF Next, TaskStep

----------------------------------------------------------------------------
(***************************************************************************)
(* The memory of messages.                                                 *)
(***************************************************************************)

\* What one more id does to it.
LEMMA RecordStep ==
    ASSUME MemoryTypes, Remembered, NEW x \in Ids \cup {None}, Record(x), id' = id
    PROVE  MemoryTypes' /\ Remembered'
<1> DEFINE all == Append(processed, x)
           n == Len(processed)
<1>1. /\ all \in Seq(Ids \cup {None}) /\ Len(all) = n + 1 /\ n \in Nat /\ n <= MaxProcessed
      /\ \A i \in 1..n : all[i] = processed[i]
      /\ all[n + 1] = x
      /\ MaxProcessed \in Nat \ {0}
  BY AppendProperties, LenProperties, ImAssumption DEF MemoryTypes, ImAssumption
<1>2. /\ all # <<>>
      /\ Tail(all) \in Seq(Ids \cup {None}) /\ Len(Tail(all)) = n
      /\ \A i \in 1..n : Tail(all)[i] = all[i + 1]
  BY <1>1, HeadTailProperties, EmptySeq
<1>3. /\ processed' = IF n + 1 <= MaxProcessed THEN all ELSE Tail(all)
      /\ since' = [y \in Ids |-> IF y = x THEN 0 ELSE IF since[y] < MaxProcessed THEN since[y] + 1
                                                                             ELSE MaxProcessed]
  BY <1>1 DEF Record, Recorded
<1> HIDE DEF all, n
<1>4. MemoryTypes' BY <1>1, <1>2, <1>3 DEF MemoryTypes
<1>5. ASSUME NEW y \in Ids, since'[y] < MaxProcessed
      PROVE  since'[y] < Len(processed') /\ processed'[Len(processed') - since'[y]] = y
  <2>1. since[y] \in 0..MaxProcessed BY DEF MemoryTypes
  <2>2. CASE y = x
    <3>1. since'[y] = 0 BY <1>3, <2>2
    <3>2. CASE n + 1 <= MaxProcessed BY <1>1, <1>3, <2>2, <3>1, <3>2
    <3>3. CASE ~(n + 1 <= MaxProcessed)
      <4>1. processed' = Tail(all) /\ n = MaxProcessed /\ n \in 1..n BY <1>1, <1>3, <3>3
      <4>2. Tail(all)[n] = all[n + 1] BY <1>2, <4>1
      <4> QED BY <1>1, <1>2, <2>2, <3>1, <4>1, <4>2
    <3> QED BY <3>2, <3>3
  <2>3. CASE y # x
    <3>1. since[y] < MaxProcessed /\ since'[y] = since[y] + 1 BY <1>1, <1>3, <1>5, <2>1, <2>3
    <3>2. since[y] < n /\ processed[n - since[y]] = y BY <3>1 DEF Remembered, n
    <3>3. n - since[y] \in 1..n BY <1>1, <2>1, <3>2
    <3>4. all[n - since[y]] = y BY <1>1, <3>2, <3>3
    <3>5. CASE n + 1 <= MaxProcessed
      <4>1. Len(processed') = n + 1 /\ (n + 1) - (since[y] + 1) = n - since[y]
        BY <1>1, <1>3, <2>1, <3>5
      <4> QED BY <1>1, <1>3, <2>1, <3>1, <3>2, <3>4, <3>5, <4>1
    <3>6. CASE ~(n + 1 <= MaxProcessed)
      <4>1. n = MaxProcessed /\ processed' = Tail(all) /\ Len(processed') = n
        BY <1>1, <1>2, <1>3, <3>6
      <4>2. since[y] + 1 < n BY <1>5, <3>1, <4>1
      <4> DEFINE i == n - (since[y] + 1)
      <4>3. i \in 1..n /\ i + 1 = n - since[y] BY <1>1, <2>1, <4>2
      <4> HIDE DEF i
      <4>4. Tail(all)[i] = y BY <1>2, <3>4, <4>3
      <4> QED BY <3>1, <4>1, <4>2, <4>4 DEF i
    <3> QED BY <3>5, <3>6
  <2> QED BY <2>2, <2>3
<1> QED BY <1>4, <1>5 DEF Remembered

\* Nothing but the arrival of a message touches the memory.
LEMMA MemoryStep ==
    ASSUME MemoryTypes, Remembered, [Next]_vars
    PROVE  MemoryTypes' /\ Remembered'
<1>1. CASE \E m \in Messages : Deliver(m)
  <2> PICK m \in Messages : Deliver(m) BY <1>1
  <2>1. id' = id /\ id[m] \in Ids BY DEF Deliver, MemoryTypes
  <2>2. CASE Seen(m) BY <2>1, <2>2 DEF Deliver, MemoryTypes, Remembered
  <2>3. CASE ~Seen(m)
    <3>1. Record(id[m]) BY <2>3 DEF Deliver
    <3> QED BY <2>1, <3>1, RecordStep
  <2> QED BY <2>2, <2>3
<1>2. CASE OtherMessage
  <2>1. id' = id /\ Record(None) BY <1>2 DEF OtherMessage
  <2> QED BY <2>1, RecordStep
<1>3. CASE UNCHANGED <<id, processed, since>> BY <1>3 DEF MemoryTypes, Remembered
<1>4. ASSUME ~\E m \in Messages : Deliver(m), ~OtherMessage PROVE UNCHANGED <<id, processed, since>>
  BY <1>4 DEF Next, TaskStep, vars, CreateTask, ShowAgent, Emit, EmitFails, Watchdog, Start,
     TaskCompleted,
     TaskFailed, CardSent, Abort, Finalize, Progress, StartOther, RunEnds, EnterLoop, Switch,
     DesktopStop, Withdraw, Disconnect
<1> QED BY <1>1, <1>2, <1>3, <1>4

\* A message that is remembered is not taken up.
LEMMA TakenUpStep ==
    ASSUME Types, Remembered, [Next]_vars, NEW m \in Messages, pc[m] = "none", pc'[m] = "chatInfo"
    PROVE  since[id[m]] = MaxProcessed
<1> USE DEF Types, HandlerTypes
<1>1. CASE \E x \in Messages : Deliver(x)
  <2> PICK x \in Messages : Deliver(x) BY <1>1
  <2>1. x = m BY DEF Deliver
  <2>2. ~Seen(m) BY <2>1 DEF Deliver
  <2>3. id[m] \in Ids /\ since[id[m]] \in 0..MaxProcessed /\ MaxProcessed \in Nat
        /\ processed \in Seq(Ids \cup {None})
    BY ImAssumption DEF MemoryTypes, ImAssumption
  <2>4. ~(since[id[m]] < MaxProcessed)
    <3> SUFFICES ASSUME since[id[m]] < MaxProcessed PROVE FALSE OBVIOUS
    <3> DEFINE i == Len(processed) - since[id[m]]
    <3>1. since[id[m]] < Len(processed) /\ processed[i] = id[m] BY <2>3 DEF Remembered
    <3>2. i \in DOMAIN processed BY <2>3, <3>1, LenProperties
    <3> QED BY <2>2, <3>1, <3>2 DEF Seen
  <2> QED BY <2>3, <2>4
<1>2. CASE ~\E x \in Messages : Deliver(x)
  BY <1>2 DEF Next, TaskStep, vars, CreateTask, ShowAgent, Emit, EmitFails, Watchdog, Start,
     TaskCompleted,
     TaskFailed, CardSent, Abort, Finalize, Progress, StartOther, RunEnds, EnterLoop, Switch,
     DesktopStop, Withdraw, Disconnect, OtherMessage
<1> QED BY <1>1, <1>2

----------------------------------------------------------------------------
(***************************************************************************)
(* The theorems.                                                           *)
(***************************************************************************)

\* The invariant holds at the start.
LEMMA InvInit == Init => Inv
<1> SUFFICES ASSUME Init PROVE Inv OBVIOUS
<1> USE ImAssumption DEF ImAssumption, Init
<1>1. HandlerTypes BY DEF HandlerTypes, Places, Statuses
<1>2. TimerTypes /\ StartTypes BY DEF TimerTypes, StartTypes
<1>3. CardTypes BY DEF CardTypes
<1>4. RunTypes
  <2>1. NoRun \in Runs BY DEF NoRun, Runs
  <2> QED BY <2>1 DEF RunTypes
<1>5. Stages BY DEF Stages
<1>6. Once BY DEF Once
<1>7. Reported /\ Remembered BY DEF Reported, Remembered
<1>8. Freed BY DEF Freed
<1>9. CardOrder /\ LastIsFinal BY DEF CardOrder, LastIsFinal
<1>10. MemoryTypes
  <2>1. <<>> \in Seq(Ids \cup {None}) /\ Len(<<>>) = 0 BY EmptySeq
  <2> QED BY <2>1 DEF MemoryTypes
<1> QED BY <1>1, <1>2, <1>3, <1>4, <1>5, <1>6, <1>7, <1>8, <1>9, <1>10 DEF Inv, Types

\* Every step keeps every part.
LEMMA InvStep == Inv /\ [Next]_vars => Inv'
<1> SUFFICES ASSUME Inv, [Next]_vars PROVE Inv' OBVIOUS
<1>1. /\ Types /\ Remembered /\ Stages /\ Once /\ Reported /\ Freed /\ CardOrder /\ LastIsFinal
      /\ MemoryTypes /\ HandlerTypes /\ TimerTypes /\ CardTypes /\ RunTypes /\ StartTypes
  BY DEF Inv, Types
<1>2. Types' /\ Remembered'
  BY <1>1, MemoryStep, HandlerTypesStep, TimerTypesStep, CardTypesStep, RunTypesStep, StartTypesStep
     DEF Types
<1>3. Stages' /\ Once' BY <1>1, StagesStep, OnceStep
<1>4. Reported' /\ Freed' BY <1>1, ReportStep, FreedStep
<1>5. CardOrder' /\ LastIsFinal' BY <1>1, CardOrderStep, LastIsFinalStep
<1> QED BY <1>2, <1>3, <1>4, <1>5 DEF Inv

\* The invariant holds.
LEMMA InvHolds == Spec => []Inv
<1> QED BY InvInit, InvStep, PTL DEF Spec

\* A task that runs has a run that reports on it, whatever stops come in between; only a run
\* stopped before its loop, overtaken after a stop, or whose request was withdrawn may stay silent.
THEOREM RunsReport == Spec => []RunningIsReported
<1>1. Inv => RunningIsReported BY DEF Inv, Reported, WillReport, RunningIsReported
<1> QED BY <1>1, InvHolds, PTL

\* Whatever becomes of a task that does not run, something is on its way that frees its bot.
THEOREM BotsAreFreed == Spec => []BusyBotIsFreed
<1>1. Inv => BusyBotIsFreed
  <2> SUFFICES ASSUME Inv, NEW m \in Messages, IsActive(m), status[m] # "running"
               PROVE  WillBeFreed(m)
    BY DEF BusyBotIsFreed
  <2>1. status[m] \in {"pending", "cancelled", "completed", "failed"}
    BY ImAssumption
    DEF ImAssumption, Inv, Types, HandlerTypes, Stages, Statuses, Terminal
  <2>2. CASE status[m] = "pending" BY <2>2 DEF Inv, Freed, WillBeFreed
  <2>3. CASE status[m] = "cancelled" BY <2>3 DEF Inv, Freed, WillBeFreed, Cleans
  <2>4. CASE status[m] \in {"completed", "failed"} BY <2>4 DEF Inv, Freed, WillBeFreed, Cleans
  <2> QED BY <2>1, <2>2, <2>3, <2>4
<1> QED BY <1>1, InvHolds, PTL

\* A message is taken up again only when MaxProcessed others have come since, and each task made of
\* it is started at most once; what has ended stays ended, and its last card stays, whichever of
\* events and timers come late.
THEOREM EndsAreFinal == Spec => EndIsFinal
<1>1. Inv => StartedOnce BY DEF Inv, Once, StartedOnce, Types, StartTypes
<1>2. Inv /\ [Next]_vars =>
        [\A m \in Messages : status[m] \in Terminal =>
           /\ status[m]' \in Terminal /\ starts[m]' = starts[m]
           /\ status[m] # "completed" => status[m]' # "completed"]_vars
  BY EndedStep DEF Inv
<1>3. Inv /\ [Next]_vars => [\A m \in Messages : card[m] = "last" => card[m]' = "last"]_vars
  BY CardStep DEF Inv, Types
<1>4. Inv /\ [Next]_vars =>
        [\A m \in Messages :
           pc[m] = "none" /\ pc'[m] = "chatInfo" => since[id[m]] = MaxProcessed]_vars
  BY TakenUpStep DEF Inv
<1> QED BY <1>1, <1>2, <1>3, <1>4, InvHolds, PTL
    DEF Spec, EndIsFinal, EndedStaysEnded, LastCardStays, TakenUpOnce
=============================================================================
