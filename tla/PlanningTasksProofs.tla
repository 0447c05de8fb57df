------------------------- MODULE PlanningTasksProofs -------------------------
(***************************************************************************)
(* Proofs about the runs of a chat context, for any number of runs, any    *)
(* choice of Chat runs among them, and any number of views.                *)
(*                                                                         *)
(* The parts of the invariant: types; the lock of an AgentService          *)
(* (LockInv); the order of runs and answers (OrderInv); the send slot, the *)
(* refs of the views and who may still start its loop (SlotInv).           *)
(***************************************************************************)
EXTENDS PlanningTasks, SequenceTheorems, TLAPS

USE DEF liveVars, storeVars, serviceVars, runVars, MoveTo

Ids == Runs \cup {None}
Stages == Going \cup {"unused", "chat", "closing", "done"}
RefSets == [active : Ids, cancelRequested : BOOLEAN, sending : BOOLEAN, service : Ids]
Services == [activeRun : Ids, loop : {"none", "running", "cancelled"}, cancelRequested : BOOLEAN,
             timer : Ids, replace : BOOLEAN, session : Ids]
Messages == [run : Runs, kind : {"answer", "error"}]

ViewTypes == view \in Views /\ refs \in [Views -> RefSets] /\ sending \in Ids /\ latest \in Ids
RunTypes == stage \in [Runs -> Stages] /\ owner \in [Runs -> Views] /\ uses \in [Runs -> Ids]
ServiceTypes == service \in [Runs -> Services] /\ cache \in Ids

Types == ViewTypes /\ RunTypes /\ ServiceTypes

\* A run that holds a service holds its lock and its session; a run that has none yet has not
\* lent one to anybody either.
LockInv ==
    /\ \A r \in Runs : stage[r] \in Locked \cup {"mounted"} => uses[r] # None
    /\ \A r \in Runs : stage[r] \in {"unused", "preparing"} =>
         cache # r /\ service[r].activeRun = None /\ \A q \in Runs : uses[q] # r
    /\ LockGuardsSession
    /\ \A r \in Runs : stage[r] = "looping" => service[uses[r]].loop \in {"running", "cancelled"}

\* The runs begin in the order of their numbers, and what has published has ended.
OrderInv ==
    /\ \A q \in Runs : stage[q] # "unused" <=> q <= latest
    /\ published \in Seq(Messages)
    /\ \A i \in DOMAIN published :
         stage[published[i].run] \in {"closing", "done"} /\ published[i].run <= latest
    /\ MessagesInOrder

\* A run that will not enter its loop, or whose loop was told to end.
Halted(r) ==
    /\ stage[r] \in {"preparing", "mounted"} => ~CanPublish(r)
    /\ stage[r] = "context" => service[uses[r]].cancelRequested
    /\ stage[r] = "looping" => service[uses[r]].loop = "cancelled"

\* The send slot is held by a Chat run, or by a run its view follows.
SlotHeld ==
    sending # None =>
      \/ stage[sending] = "chat"
      \/ stage[sending] \in Going \cup {"closing"} /\ refs[owner[sending]].active = sending

\* A view follows a run of its own that has not ended, and remembers its service.
ViewFollows(v) ==
    LET r == refs[v].active IN
    r # None =>
      /\ owner[r] = v /\ stage[r] \in Going \cup {"closing"}
      /\ stage[r] \in Locked \cup {"mounted"} => refs[v].service = uses[r]

SlotInv == SlotHeld /\ \A v \in Views : ViewFollows(v)

\* A run that lost the send slot is not going to work any more.
TurnInv == \A r \in Runs : sending = r \/ Halted(r)

\* The view of the latest run follows it; a run that was stopped is halted.
LatestIsFollowed ==
    \A r \in Runs : latest = r /\ stage[r] \in Going => refs[owner[r]].active = r
StoppedIsHalted == \A r \in stopped : r \in Runs /\ stage[r] # "unused" /\ Halted(r)

Inv == Types /\ LockInv /\ OrderInv /\ SlotInv /\ TurnInv

----------------------------------------------------------------------------
\* What the updates of a service do to it.
LEMMA ServiceUpdates ==
    ASSUME NEW sv \in Services, NEW r \in Runs
    PROVE  /\ Cancelled(sv) \in Services /\ ResetSession(sv) \in Services
           /\ Locking(sv, r) \in Services /\ Released(sv) \in Services
           /\ TimedOut(sv) \in Services /\ Destroyed(sv) \in Services
           /\ [sv EXCEPT !.loop = "running"] \in Services
           /\ NewService \in Services
<1> USE DEF Services, Ids
<1>1. Cancelled(sv) \in Services BY DEF Cancelled
<1>2. ResetSession(sv) \in Services BY DEF ResetSession, None
<1>3. Locking(sv, r) \in Services BY DEF Locking, None
<1>4. Released(sv) \in Services BY DEF Released, None
<1>5. TimedOut(sv) \in Services BY DEF TimedOut, None
<1>6. Destroyed(sv) \in Services BY <1>1, <1>2 DEF Destroyed
<1>7. [sv EXCEPT !.loop = "running"] \in Services OBVIOUS
<1>8. NewService \in Services BY DEF NewService, None
<1> QED BY <1>1, <1>2, <1>3, <1>4, <1>5, <1>6, <1>7, <1>8

\* The fields that the lock is about, after each update.
LEMMA ServiceFields ==
    ASSUME NEW sv \in Services, NEW r \in Runs
    PROVE  /\ Cancelled(sv).activeRun = sv.activeRun /\ Cancelled(sv).session = sv.session
           /\ Cancelled(sv).cancelRequested
           /\ Cancelled(sv).loop = (IF sv.loop = "running" THEN "cancelled" ELSE sv.loop)
           /\ ResetSession(sv).activeRun = sv.activeRun
           /\ ResetSession(sv).loop = sv.loop
           /\ ResetSession(sv).cancelRequested = sv.cancelRequested
           /\ Locking(sv, r).activeRun = r /\ Locking(sv, r).session = r
           /\ Released(sv).activeRun = None
           /\ TimedOut(sv).activeRun = sv.activeRun /\ TimedOut(sv).session = sv.session
           /\ TimedOut(sv).loop = sv.loop /\ TimedOut(sv).cancelRequested = sv.cancelRequested
           /\ Destroyed(sv) = Cancelled(sv) \/ (sv.activeRun = None /\ Destroyed(sv) = ResetSession(sv))
           /\ [sv EXCEPT !.loop = "running"].activeRun = sv.activeRun
           /\ [sv EXCEPT !.loop = "running"].session = sv.session
           /\ [sv EXCEPT !.loop = "running"].loop = "running"
           /\ [sv EXCEPT !.loop = "running"].cancelRequested = sv.cancelRequested
           /\ NewService.activeRun = None
<1> USE DEF Services
<1>1. /\ Cancelled(sv).activeRun = sv.activeRun /\ Cancelled(sv).session = sv.session
      /\ Cancelled(sv).cancelRequested
      /\ Cancelled(sv).loop = (IF sv.loop = "running" THEN "cancelled" ELSE sv.loop)
  BY DEF Cancelled
<1>2. /\ ResetSession(sv).activeRun = sv.activeRun /\ ResetSession(sv).loop = sv.loop
      /\ ResetSession(sv).cancelRequested = sv.cancelRequested
  BY DEF ResetSession
<1>3. Locking(sv, r).activeRun = r /\ Locking(sv, r).session = r BY DEF Locking
<1>4. Released(sv).activeRun = None BY DEF Released
<1>5. /\ TimedOut(sv).activeRun = sv.activeRun /\ TimedOut(sv).session = sv.session
      /\ TimedOut(sv).loop = sv.loop /\ TimedOut(sv).cancelRequested = sv.cancelRequested
  BY DEF TimedOut
<1>6. Destroyed(sv) = Cancelled(sv) \/ (sv.activeRun = None /\ Destroyed(sv) = ResetSession(sv))
  BY DEF Destroyed
<1>7. /\ [sv EXCEPT !.loop = "running"].activeRun = sv.activeRun
      /\ [sv EXCEPT !.loop = "running"].session = sv.session
      /\ [sv EXCEPT !.loop = "running"].loop = "running"
      /\ [sv EXCEPT !.loop = "running"].cancelRequested = sv.cancelRequested
  OBVIOUS
<1>8. NewService.activeRun = None BY DEF NewService
<1> QED BY <1>1, <1>2, <1>3, <1>4, <1>5, <1>6, <1>7, <1>8

\* However a run ends, it is on its way out.
LEMMA Ends ==
    ASSUME NEW r, Fail(r) \/ Deliver(r) \/ DeliverError(r)
    PROVE  \E x \in {"reporting", "persisting", "closing"} : stage' = [stage EXCEPT ![r] = x]
BY DEF Fail, Deliver, DeliverError

----------------------------------------------------------------------------
(* What an action does to runs and services: three effects, and what each  *)
(* of them keeps.                                                          *)

\* A run moves on and touches no service.
Moves(r, x) ==
    /\ stage' = [stage EXCEPT ![r] = x] /\ UNCHANGED <<uses, service, cache>>
    /\ \/ stage[r] = "looping" /\ x \in {"wrapping", "erring"}
       \/ stage[r] = "unused" /\ x \in {"preparing", "chat"}
       \/ stage[r] \notin Locked /\ x \in {"reporting", "persisting", "closing", "done"}

\* A run leaves processMessage, with the lock.
Leaves(r, x) ==
    /\ stage[r] \in Locked /\ x \in {"reporting", "persisting", "closing"}
    /\ stage' = [stage EXCEPT ![r] = x]
    /\ service' = [service EXCEPT ![uses[r]] = Released(@)]
    /\ UNCHANGED <<uses, cache>>

\* A service is told something that leaves the lock, and what it guards, alone.
Tells(s, u) ==
    /\ service' = [service EXCEPT ![s] = u]
    /\ UNCHANGED <<stage, uses>> /\ cache' \in {cache, None}
    /\ u.activeRun = service[s].activeRun
    /\ u.activeRun # None => u.session = service[s].session
    /\ service[s].activeRun # None /\ service[s].cancelRequested => u.cancelRequested
    /\ u.loop = service[s].loop \/ u.loop = "cancelled"
    /\ service[s].loop = "cancelled" => u.loop = "cancelled"

\* The lock, when a run goes on under it.
LEMMA LockMoves ==
    ASSUME Types, LockInv, NEW r \in Runs, NEW x, Moves(r, x)
    PROVE  LockInv'
<1> USE DEF Types, RunTypes, ServiceTypes
<1>1. stage'[r] = x /\ \A q \in Runs : q # r => stage'[q] = stage[q] BY DEF Moves
<1>2. \A q \in Runs : stage'[q] \in Locked <=> stage[q] \in Locked BY <1>1 DEF Moves, Locked
<1>3. \A q \in Runs : stage'[q] \in {"unused", "preparing"} => stage[q] \in {"unused", "preparing"}
  BY <1>1 DEF Moves
<1>4. \A q \in Runs : stage'[q] \in {"mounted", "looping"} => stage'[q] = stage[q]
  BY <1>1 DEF Moves
<1>5. UNCHANGED <<uses, service, cache>> BY DEF Moves
<1>6. \A q \in Runs : stage'[q] \in Locked \cup {"mounted"} => uses'[q] # None
  BY <1>2, <1>4, <1>5 DEF LockInv
<1>7. SessionBelongsToRun' BY <1>2, <1>5 DEF LockInv, LockGuardsSession, SessionBelongsToRun
<1>8. LockIsHeldInside'
  <2>1. \A s \in Runs : service[s].activeRun \in Ids BY DEF Services
  <2> QED BY <1>2, <1>5, <2>1 DEF LockInv, LockGuardsSession, LockIsHeldInside, Unsettled, Ids
<1> QED BY <1>3, <1>4, <1>5, <1>6, <1>7, <1>8 DEF LockInv, LockGuardsSession

\* The lock, when a run releases it.
LEMMA LockLeaves ==
    ASSUME Types, LockInv, NEW r \in Runs, NEW x, Leaves(r, x)
    PROVE  LockInv'
<1> USE DEF Types, RunTypes, ServiceTypes
<1>0. uses[r] \in Runs /\ service[uses[r]].activeRun = r
  BY DEF Leaves, LockInv, LockGuardsSession, SessionBelongsToRun, Ids
<1>1. stage'[r] = x /\ x \notin Locked /\ \A q \in Runs : q # r => stage'[q] = stage[q]
  BY DEF Leaves, Locked
<1>2. /\ service'[uses[r]].activeRun = None
      /\ \A s \in Runs : s # uses[r] => service'[s] = service[s]
  BY <1>0, ServiceFields DEF Leaves
<1>3. UNCHANGED <<uses, cache>> BY DEF Leaves
<1>4. \A q \in Runs : q # r /\ stage[q] \in Locked => uses[q] # uses[r]
  BY <1>0 DEF LockInv, LockGuardsSession, SessionBelongsToRun
<1>5. \A q \in Runs : stage'[q] \in Locked => q # r /\ stage[q] \in Locked BY <1>1
<1>6. \A q \in Runs : stage'[q] \in Locked => uses[q] \in Runs /\ service'[uses[q]] = service[uses[q]]
  BY <1>2, <1>4, <1>5 DEF LockInv, Ids
<1>7. SessionBelongsToRun'
  BY <1>3, <1>5, <1>6 DEF LockInv, LockGuardsSession, SessionBelongsToRun
<1>8. LockIsHeldInside'
  <2> SUFFICES ASSUME NEW s \in Runs, service'[s].activeRun # None
               PROVE  stage'[service'[s].activeRun] \in Locked /\ uses[service'[s].activeRun] = s
    BY <1>3 DEF LockIsHeldInside, Unsettled
  <2>1. s # uses[r] /\ service'[s] = service[s] BY <1>2
  <2>2. /\ stage[service[s].activeRun] \in Locked /\ uses[service[s].activeRun] = s
    BY <2>1 DEF LockInv, LockGuardsSession, LockIsHeldInside, Unsettled
  <2>3. service[s].activeRun \in Runs BY <2>1 DEF Services, Ids
  <2> QED BY <1>1, <2>1, <2>2, <2>3
<1>9. \A q \in Runs : stage'[q] \in {"unused", "preparing"} =>
        cache' # q /\ service'[q].activeRun = None /\ \A p \in Runs : uses'[p] # q
  BY <1>0, <1>1, <1>2, <1>3 DEF Leaves, LockInv
<1>10. \A q \in Runs : stage'[q] = "looping" =>
         service'[uses'[q]].loop \in {"running", "cancelled"}
  BY <1>1, <1>3, <1>6 DEF Leaves, LockInv, Locked
<1>11. \A q \in Runs : stage'[q] \in Locked \cup {"mounted"} => uses'[q] # None
  BY <1>1, <1>3 DEF Leaves, LockInv, Locked
<1> QED BY <1>7, <1>8, <1>9, <1>10, <1>11 DEF LockInv, LockGuardsSession

\* The lock, when somebody else changes the session of a run.
LEMMA LockTells ==
    ASSUME Types, LockInv, NEW s \in Runs, NEW u, Tells(s, u)
    PROVE  LockInv'
<1> USE DEF Types, RunTypes, ServiceTypes
<1>1. service'[s] = u /\ \A t \in Runs : t # s => service'[t] = service[t] BY DEF Tells
<1>2. UNCHANGED <<stage, uses>> /\ cache' \in {cache, None} BY DEF Tells
<1>3. \A t \in Runs : service'[t].activeRun = service[t].activeRun BY <1>1 DEF Tells
<1>4. \A t \in Runs : service[t].activeRun # None => service'[t].session = service[t].session
  BY <1>1 DEF Tells
<1>5. \A t \in Runs : service'[t].loop \in {service[t].loop, "cancelled"} BY <1>1 DEF Tells
<1>6. \A q \in Runs : stage[q] \in Locked => uses[q] \in Runs BY DEF LockInv, Ids
<1>7. SessionBelongsToRun'
  <2> SUFFICES ASSUME NEW q \in Runs, stage[q] \in Locked
               PROVE  service'[uses[q]].activeRun = q /\ service'[uses[q]].session = q
    BY <1>2 DEF SessionBelongsToRun
  <2>1. service[uses[q]].activeRun = q /\ service[uses[q]].session = q
    BY DEF LockInv, LockGuardsSession, SessionBelongsToRun
  <2>2. q # None BY RunAssumption DEF RunAssumption, Runs, None
  <2> QED BY <1>3, <1>4, <1>6, <2>1, <2>2
<1>8. LockIsHeldInside'
  BY <1>2, <1>3 DEF LockInv, LockGuardsSession, LockIsHeldInside, Unsettled
<1>9. \A q \in Runs : stage'[q] \in {"unused", "preparing"} =>
        cache' # q /\ service'[q].activeRun = None /\ \A p \in Runs : uses'[p] # q
  <2>1. \A q \in Runs : q # None BY RunAssumption DEF RunAssumption, Runs, None
  <2> QED BY <1>2, <1>3, <2>1 DEF LockInv
<1>10. \A q \in Runs : stage'[q] = "looping" =>
         service'[uses'[q]].loop \in {"running", "cancelled"}
  BY <1>2, <1>5, <1>6 DEF LockInv, Locked
<1>11. \A q \in Runs : stage'[q] \in Locked \cup {"mounted"} => uses'[q] # None
  BY <1>2 DEF LockInv
<1> QED BY <1>7, <1>8, <1>9, <1>10, <1>11 DEF LockInv, LockGuardsSession

\* Which actions have which of these effects.
LEMMA MovingSteps ==
    ASSUME Types, NEW r \in Runs,
           \/ Start(r) \/ StartChat(r) \/ EndChat(r) \/ StopBeforeLoop(r) \/ PreparationFails(r)
           \/ ProcessMessage(r) /\ Unsettled(uses[r])
           \/ LoopSettles(r) \/ Publish(r) \/ PersistFails(r) \/ ReportError(r)
    PROVE  \E x \in Stages : Moves(r, x)
<1> USE DEF Moves, Stages, Going, Locked
<1>1. CASE Start(r) BY <1>1 DEF Start, NextRun
<1>2. CASE StartChat(r) BY <1>2 DEF StartChat, NextRun
<1>3. CASE EndChat(r) BY <1>3 DEF EndChat
<1>4. CASE StopBeforeLoop(r) BY <1>4 DEF StopBeforeLoop
<1>5. CASE PreparationFails(r) BY <1>5, Ends DEF PreparationFails
<1>6. CASE ProcessMessage(r) /\ Unsettled(uses[r]) BY <1>6, Ends DEF ProcessMessage
<1>7. CASE LoopSettles(r) BY <1>7 DEF LoopSettles
<1>8. CASE Publish(r) BY <1>8 DEF Publish
<1>9. CASE PersistFails(r) BY <1>9, Ends DEF PersistFails
<1>10. CASE ReportError(r) BY <1>10 DEF ReportError
<1> QED BY <1>1, <1>2, <1>3, <1>4, <1>5, <1>6, <1>7, <1>8, <1>9, <1>10

\* The steps that release the lock.
LEMMA LeavingSteps ==
    ASSUME Types, NEW r \in Runs,
           \/ ContextReady(r) /\ service[uses[r]].cancelRequested
           \/ ContextFails(r) \/ WrapUp(r)
    PROVE  \E x \in Stages : Leaves(r, x)
<1> USE DEF Leaves, Stages, Going, Locked, ReleaseLock
<1>1. CASE ContextReady(r) /\ service[uses[r]].cancelRequested
  BY <1>1, Ends DEF ContextReady
<1>2. CASE ContextFails(r) BY <1>2, Ends DEF ContextFails
<1>3. CASE WrapUp(r) BY <1>3, Ends DEF WrapUp
<1> QED BY <1>1, <1>2, <1>3

\* What a service is told by Watchdog, Stop and Withdraw.
LEMMA ToldServices ==
    ASSUME Types, NEW s \in Runs, NEW u \in {TimedOut(service[s]), Cancelled(service[s]),
                                              Destroyed(service[s])},
           service' = [service EXCEPT ![s] = u],
           UNCHANGED <<stage, uses>>, cache' \in {cache, None}
    PROVE  Tells(s, u)
<1> DEFINE sv == service[s]
<1>1. sv \in Services BY DEF Types, ServiceTypes
<1>2. sv.loop \in {"none", "running", "cancelled"} BY <1>1 DEF Services
<1>3. CASE u = TimedOut(sv) BY <1>1, <1>3, ServiceFields DEF Tells
<1>4. CASE u = Cancelled(sv) BY <1>1, <1>2, <1>4, ServiceFields DEF Tells
<1>5. CASE u = ResetSession(sv) /\ sv.activeRun = None BY <1>1, <1>5, ServiceFields DEF Tells
<1> QED BY <1>1, <1>3, <1>4, <1>5, ServiceFields

\* The steps that change the session of a run from outside.
LEMMA TellingSteps ==
    ASSUME Types, (\E s \in Runs : Watchdog(s)) \/ Stop \/ (\E r \in Runs : Withdraw(r))
    PROVE  \/ UNCHANGED <<stage, uses, service>> /\ cache' = cache
           \/ \E s \in Runs : \E u : Tells(s, u)
<1>1. CASE \E s \in Runs : Watchdog(s)
  <2> PICK s \in Runs : Watchdog(s) BY <1>1
  <2>1. Tells(s, TimedOut(service[s])) BY ToldServices DEF Watchdog
  <2> QED BY <2>1
<1>2. CASE Stop
  <2>1. CASE StopTarget = None BY <1>2, <2>1 DEF Stop
  <2>2. CASE StopTarget # None
    <3>1. StopTarget \in Runs BY <2>2 DEF StopTarget, Types, ViewTypes, ServiceTypes, RefSets, Ids
    <3>2. Tells(StopTarget, Cancelled(service[StopTarget]))
      BY <1>2, <2>2, <3>1, ToldServices DEF Stop
    <3> QED BY <3>1, <3>2
  <2> QED BY <2>1, <2>2
<1>3. CASE \E r \in Runs : Withdraw(r)
  <2> PICK r \in Runs : Withdraw(r) BY <1>3
  <2>1. CASE cache = None BY <2>1 DEF Withdraw
  <2>2. CASE cache # None
    <3>1. cache \in Runs BY <2>2 DEF Types, ServiceTypes, Ids
    <3>2. Tells(cache, Destroyed(service[cache]))
      BY <2>2, <3>1, ToldServices DEF Withdraw
    <3> QED BY <3>1, <3>2
  <2> QED BY <2>1, <2>2
<1> QED BY <1>1, <1>2, <1>3

\* A stage that changes nothing but the cache keeps the lock.
LEMMA LockIdles ==
    ASSUME Types, LockInv, UNCHANGED <<stage, uses, service, cache>>
    PROVE  LockInv'
BY DEF LockInv, LockGuardsSession, SessionBelongsToRun, LockIsHeldInside, Unsettled

\* A run takes the lock of an idle service.
LEMMA LockTaken ==
    ASSUME Types, LockInv, NEW r \in Runs, ProcessMessage(r), ~Unsettled(uses[r])
    PROVE  LockInv'
<1> USE DEF Types, RunTypes, ServiceTypes
<1>1. r # None /\ uses[r] \in Runs /\ service[uses[r]].activeRun = None
  BY RunAssumption DEF RunAssumption, Runs, None, ProcessMessage, LockInv, Unsettled, Ids
<1>2. stage'[r] = "context" /\ \A q \in Runs : q # r => stage'[q] = stage[q]
  BY DEF ProcessMessage
<1>3. /\ service'[uses[r]].activeRun = r /\ service'[uses[r]].session = r
      /\ \A s \in Runs : s # uses[r] => service'[s] = service[s]
  BY <1>1, ServiceFields DEF ProcessMessage
<1>4. UNCHANGED <<uses, cache>> BY DEF ProcessMessage
<1>5. \A q \in Runs : q # r /\ stage[q] \in Locked => uses[q] \in Runs /\ uses[q] # uses[r]
  <2> SUFFICES ASSUME NEW q \in Runs, q # r, stage[q] \in Locked
               PROVE  uses[q] \in Runs /\ uses[q] # uses[r]
    OBVIOUS
  <2>1. q # None BY RunAssumption DEF RunAssumption, Runs, None
  <2> QED BY <1>1, <2>1 DEF LockInv, LockGuardsSession, SessionBelongsToRun, Ids
<1>6. SessionBelongsToRun'
  BY <1>2, <1>3, <1>4, <1>5 DEF LockInv, LockGuardsSession, SessionBelongsToRun
<1>7. LockIsHeldInside'
  <2> SUFFICES ASSUME NEW s \in Runs, service'[s].activeRun # None
               PROVE  stage'[service'[s].activeRun] \in Locked /\ uses[service'[s].activeRun] = s
    BY <1>4 DEF LockIsHeldInside, Unsettled
  <2>1. CASE s = uses[r] BY <1>2, <1>3, <2>1 DEF Locked
  <2>2. CASE s # uses[r]
    <3>1. service'[s] = service[s] BY <1>3, <2>2
    <3>2. stage[service[s].activeRun] \in Locked /\ uses[service[s].activeRun] = s
      BY <3>1 DEF LockInv, LockGuardsSession, LockIsHeldInside, Unsettled
    <3>3. service[s].activeRun \in Runs BY <3>1 DEF Services, Ids
    <3> QED BY <1>2, <2>2, <3>1, <3>2, <3>3
  <2> QED BY <2>1, <2>2
<1>8. \A q \in Runs : stage'[q] \in {"unused", "preparing"} =>
        cache' # q /\ service'[q].activeRun = None /\ \A p \in Runs : uses'[p] # q
  BY <1>2, <1>3, <1>4 DEF LockInv
<1>9. \A q \in Runs : stage'[q] = "looping" =>
        service'[uses'[q]].loop \in {"running", "cancelled"}
  BY <1>2, <1>3, <1>4, <1>5 DEF LockInv, Locked
<1>10. \A q \in Runs : stage'[q] \in Locked \cup {"mounted"} => uses'[q] # None
  <2>1. uses[r] # None BY DEF ProcessMessage, LockInv
  <2> QED BY <1>2, <1>4, <2>1 DEF LockInv
<1> QED BY <1>6, <1>7, <1>8, <1>9, <1>10 DEF LockInv, LockGuardsSession

\* The run starts its loop; no field the lock is about changes.
LEMMA LockLoops ==
    ASSUME Types, LockInv, NEW r \in Runs, ContextReady(r), ~service[uses[r]].cancelRequested
    PROVE  LockInv'
<1> USE DEF Types, RunTypes, ServiceTypes
<1>1. stage[r] = "context" /\ uses[r] \in Runs BY DEF ContextReady, LockInv, Locked, Ids
<1>2. stage'[r] = "looping" /\ \A q \in Runs : q # r => stage'[q] = stage[q]
  BY DEF ContextReady
<1>3. service' = [service EXCEPT ![uses[r]] = [@ EXCEPT !.loop = "running"]]
      /\ UNCHANGED <<uses, cache>>
  BY DEF ContextReady
<1>4. /\ service'[uses[r]].activeRun = service[uses[r]].activeRun
      /\ service'[uses[r]].session = service[uses[r]].session
      /\ service'[uses[r]].loop = "running"
      /\ \A s \in Runs : s # uses[r] => service'[s] = service[s]
  BY <1>1, <1>3, ServiceFields
<1>5. \A q \in Runs : stage'[q] \in Locked <=> stage[q] \in Locked BY <1>1, <1>2 DEF Locked
<1>6. \A s \in Runs : /\ service'[s].activeRun = service[s].activeRun
                      /\ service'[s].session = service[s].session
                      /\ service'[s].loop \in {service[s].loop, "running"}
  BY <1>4
<1>7. \A q \in Runs : stage[q] \in Locked => uses[q] \in Runs BY DEF LockInv, Ids
<1>8. SessionBelongsToRun'
  BY <1>3, <1>5, <1>6, <1>7 DEF LockInv, LockGuardsSession, SessionBelongsToRun
<1>9. LockIsHeldInside'
  <2>1. \A s \in Runs : service[s].activeRun \in Ids BY DEF Services
  <2> QED BY <1>3, <1>5, <1>6, <2>1 DEF LockInv, LockGuardsSession, LockIsHeldInside, Unsettled, Ids
<1>10. \A q \in Runs : stage'[q] \in {"unused", "preparing"} =>
         cache' # q /\ service'[q].activeRun = None /\ \A p \in Runs : uses'[p] # q
  BY <1>2, <1>3, <1>6 DEF LockInv
<1>11. \A q \in Runs : stage'[q] = "looping" =>
         service'[uses'[q]].loop \in {"running", "cancelled"}
  BY <1>2, <1>3, <1>4, <1>6, <1>7 DEF LockInv, Locked
<1>12. \A q \in Runs : stage'[q] \in Locked \cup {"mounted"} => uses'[q] # None
  BY <1>1, <1>2, <1>3 DEF LockInv, Locked
<1> QED BY <1>8, <1>9, <1>10, <1>11, <1>12 DEF LockInv, LockGuardsSession

\* A run that ends forgets its service, and had no lock.
LEMMA LockCloses ==
    ASSUME Types, LockInv, \E r \in Runs : Close(r)
    PROVE  LockInv'
<1> USE DEF Types, RunTypes, ServiceTypes
<1> PICK r \in Runs : Close(r) OBVIOUS
<1>1. /\ stage[r] = "closing" /\ stage'[r] = "done" /\ uses'[r] = None
      /\ \A q \in Runs : q # r => stage'[q] = stage[q] /\ uses'[q] = uses[q]
      /\ UNCHANGED <<service, cache>>
  BY DEF Close
<1>2. \A q \in Runs : stage'[q] \in Locked \cup {"mounted", "unused", "preparing"} => q # r
  BY <1>1 DEF Locked
<1>3. \A q \in Runs : q # None BY RunAssumption DEF RunAssumption, Runs, None
<1>4. SessionBelongsToRun'
  BY <1>1, <1>2 DEF LockInv, LockGuardsSession, SessionBelongsToRun
<1>5. LockIsHeldInside'
  <2>1. \A s \in Runs : service[s].activeRun \in Ids BY DEF Services
  <2>2. stage[r] \notin Locked BY <1>1 DEF Locked
  <2> QED BY <1>1, <2>1, <2>2 DEF LockInv, LockGuardsSession, LockIsHeldInside, Unsettled, Ids
<1>6. \A q \in Runs : stage'[q] \in {"unused", "preparing"} =>
        cache' # q /\ service'[q].activeRun = None /\ \A p \in Runs : uses'[p] # q
  BY <1>1, <1>2, <1>3 DEF LockInv
<1>7. \A q \in Runs : stage'[q] = "looping" =>
        service'[uses'[q]].loop \in {"running", "cancelled"}
  BY <1>1 DEF LockInv
<1>8. \A q \in Runs : stage'[q] \in Locked \cup {"mounted"} => uses'[q] # None
  BY <1>1, <1>2 DEF LockInv
<1> QED BY <1>4, <1>5, <1>6, <1>7, <1>8 DEF LockInv, LockGuardsSession

\* What obtaining a service does to the services: the run's own is new, and an idle cached one
\* may lose its session.
LEMMA Obtained ==
    ASSUME Types, LockInv, NEW r \in Runs, NEW changed \in BOOLEAN, Obtain(r, changed)
    PROVE  /\ stage'[r] = "mounted" /\ uses'[r] \in {r, cache} /\ uses'[r] \in Runs
           /\ \A q \in Runs : q # r => stage'[q] = stage[q] /\ uses'[q] = uses[q]
           /\ cache' \in {r, cache}
           /\ \A s \in Runs : s # r => /\ service'[s].activeRun = service[s].activeRun
                                       /\ service'[s].loop = service[s].loop
                                       /\ service'[s].cancelRequested = service[s].cancelRequested
                                       /\ service'[s].activeRun # None =>
                                            service'[s].session = service[s].session
           /\ service'[r].activeRun = None
<1> USE DEF Types, RunTypes, ServiceTypes
<1>1. stage'[r] = "mounted" /\ \A q \in Runs : q # r => stage'[q] = stage[q] BY DEF Obtain
<1>2. stage[r] = "preparing" /\ service[r].activeRun = None BY DEF Obtain, LockInv
<1>3. CASE Reusable(changed)
  <2>1. uses' = [uses EXCEPT ![r] = cache] /\ UNCHANGED <<service, cache>> BY <1>3 DEF Obtain
  <2>2. cache \in Runs BY <1>3 DEF Reusable, Ids
  <2> QED BY <1>1, <1>2, <2>1, <2>2
<1>4. CASE ~Reusable(changed)
  <2>1. uses' = [uses EXCEPT ![r] = r] /\ cache' = r
        /\ service' = [Detached(changed) EXCEPT ![r] = NewService]
    BY <1>4 DEF Obtain
  <2>2. CASE UNCHANGED service
    BY <1>1, <2>1, <2>2, ServiceFields
  <2> DEFINE D == Detached(changed)
  <2>3. D = service \/ /\ cache \in Runs /\ service[cache].activeRun = None
                       /\ D = [service EXCEPT ![cache] = ResetSession(service[cache])]
    BY <1>4 DEF Detached, Reusable, Unsettled, Ids
  <2>4. D \in [Runs -> Services] BY <2>3, ServiceUpdates
  <2>5. \A s \in Runs : /\ D[s].activeRun = service[s].activeRun
                        /\ D[s].loop = service[s].loop
                        /\ D[s].cancelRequested = service[s].cancelRequested
                        /\ D[s].activeRun # None => D[s].session = service[s].session
    <3>1. CASE D = service BY <3>1
    <3>2. CASE D # service
      <4> DEFINE u == ResetSession(service[cache])
      <4>1. /\ u.activeRun = None /\ service[cache].activeRun = None
            /\ u.loop = service[cache].loop
            /\ u.cancelRequested = service[cache].cancelRequested
        BY <2>3, <3>2, ServiceFields
      <4>2. D[cache] = u /\ \A s \in Runs : s # cache => D[s] = service[s]
        BY <2>3, <3>2
      <4> HIDE DEF D, u
      <4> QED BY <4>1, <4>2
    <3> QED BY <3>1, <3>2
  <2> HIDE DEF D
  <2>6. service'[r] = NewService /\ \A s \in Runs : s # r => service'[s] = D[s]
    BY <2>1, <2>4 DEF D
  <2>7. NewService.activeRun = None BY DEF NewService
  <2> QED BY <1>1, <2>1, <2>5, <2>6, <2>7
<1> QED BY <1>3, <1>4

\* The lock, when a run gets its service.
LEMMA LockObtains ==
    ASSUME Types, LockInv, \E r \in Runs, changed \in BOOLEAN : Obtain(r, changed)
    PROVE  LockInv'
<1> PICK r \in Runs, changed \in BOOLEAN : Obtain(r, changed) OBVIOUS
<1> USE DEF Types, RunTypes, ServiceTypes
<1>1. /\ stage'[r] = "mounted" /\ uses'[r] \in {r, cache} /\ uses'[r] \in Runs
      /\ \A q \in Runs : q # r => stage'[q] = stage[q] /\ uses'[q] = uses[q]
      /\ cache' \in {r, cache}
      /\ \A s \in Runs : s # r => /\ service'[s].activeRun = service[s].activeRun
                                  /\ service'[s].loop = service[s].loop
                                  /\ service'[s].activeRun # None =>
                                       service'[s].session = service[s].session
      /\ service'[r].activeRun = None
  BY Obtained
<1>2. stage[r] = "preparing" /\ \A q \in Runs : uses[q] # r BY DEF Obtain, LockInv
<1>3. \A q \in Runs : q # None BY RunAssumption DEF RunAssumption, Runs, None
<1>4. \A q \in Runs : stage'[q] \in Locked => /\ q # r /\ stage[q] \in Locked
                                              /\ uses'[q] = uses[q] /\ uses[q] # r
                                              /\ uses[q] \in Runs
  BY <1>1, <1>2 DEF Locked, LockInv, Ids
<1>5. SessionBelongsToRun'
  BY <1>1, <1>3, <1>4 DEF LockInv, LockGuardsSession, SessionBelongsToRun
<1>6. LockIsHeldInside'
  <2> SUFFICES ASSUME NEW s \in Runs, service'[s].activeRun # None
               PROVE  stage'[service'[s].activeRun] \in Locked /\ uses'[service'[s].activeRun] = s
    BY DEF LockIsHeldInside, Unsettled
  <2>1. s # r /\ service'[s].activeRun = service[s].activeRun BY <1>1
  <2>2. stage[service[s].activeRun] \in Locked /\ uses[service[s].activeRun] = s
    BY <2>1 DEF LockInv, LockGuardsSession, LockIsHeldInside, Unsettled
  <2>3. service[s].activeRun \in Runs BY <2>1 DEF Services, Ids
  <2>4. service[s].activeRun # r BY <1>2, <2>2 DEF Locked
  <2> QED BY <1>1, <2>1, <2>2, <2>3, <2>4
<1>7. \A q \in Runs : stage'[q] \in {"unused", "preparing"} =>
        cache' # q /\ service'[q].activeRun = None /\ \A p \in Runs : uses'[p] # q
  BY <1>1 DEF LockInv
<1>8. \A q \in Runs : stage'[q] = "looping" =>
        service'[uses'[q]].loop \in {"running", "cancelled"}
  BY <1>1, <1>4 DEF LockInv, Locked
<1>9. \A q \in Runs : stage'[q] \in Locked \cup {"mounted"} => uses'[q] # None
  BY <1>1, <1>3 DEF LockInv
<1> QED BY <1>5, <1>6, <1>7, <1>8, <1>9 DEF LockInv, LockGuardsSession

----------------------------------------------------------------------------
\* The run that may start is the one after the latest.
LEMMA NextFollowsLatest ==
    ASSUME Types, OrderInv, NEW r \in Runs, NextRun(r)
    PROVE  r = latest + 1
<1> USE RunAssumption DEF RunAssumption, Runs
<1>1. latest \in Int /\ latest >= 0 /\ latest <= MaxRuns
  BY DEF Types, ViewTypes, Ids, None
<1>2. r > latest BY <1>1 DEF NextRun, OrderInv
<1>3. CASE latest + 1 < r
  <2>1. latest + 1 \in Runs BY <1>1, <1>3
  <2>2. stage[latest + 1] # "unused" BY <1>3, <2>1 DEF NextRun
  <2> QED BY <1>1, <2>1, <2>2 DEF OrderInv
<1> QED BY <1>1, <1>2, <1>3

\* What is published is of a run.
LEMMA PublishedRuns ==
    ASSUME OrderInv, NEW i \in DOMAIN published
    PROVE  published[i].run \in Runs
<1>1. published \in Seq(Messages) BY DEF OrderInv
<1>2. published[i] \in Messages BY <1>1
<1> QED BY <1>2 DEF Messages

\* The order of the answers, when a run starts.
LEMMA OrderStarts ==
    ASSUME Types, OrderInv, NEW r \in Runs, NextRun(r), TakeSlot(r), NEW x,
           x \in {"preparing", "chat"}, stage' = [stage EXCEPT ![r] = x], UNCHANGED published
    PROVE  OrderInv'
<1>1. r = latest + 1 /\ latest' = r BY NextFollowsLatest DEF TakeSlot
<1>2. latest \in Int BY RunAssumption DEF RunAssumption, Runs, Types, ViewTypes, Ids, None
<1>3. \A q \in Runs : q \in Int BY DEF Runs
<1>4. stage'[r] = x /\ \A q \in Runs : q # r => stage'[q] = stage[q] BY DEF Types, RunTypes
<1>5. \A q \in Runs : stage'[q] # "unused" <=> q <= latest'
  BY <1>1, <1>2, <1>3, <1>4 DEF OrderInv
<1>6. \A i \in DOMAIN published : published[i].run \in Runs BY PublishedRuns
<1>7. \A i \in DOMAIN published :
        stage'[published[i].run] \in {"closing", "done"} /\ published[i].run <= latest'
  <2> SUFFICES ASSUME NEW i \in DOMAIN published
               PROVE  /\ stage'[published[i].run] \in {"closing", "done"}
                      /\ published[i].run <= latest'
    OBVIOUS
  <2> DEFINE q == published[i].run
  <2>1. q \in Runs /\ q \in Int BY <1>3, <1>6
  <2>2. stage[q] \in {"closing", "done"} /\ q <= latest BY DEF OrderInv
  <2> HIDE DEF q
  <2>3. q # r BY <2>2 DEF NextRun
  <2> QED BY <1>1, <1>2, <1>4, <2>1, <2>2, <2>3 DEF q
<1> QED BY <1>5, <1>7 DEF OrderInv, MessagesInOrder

\* What the latest run adds comes after everything there is.
LEMMA OrderAdds ==
    ASSUME Types, OrderInv, NEW r \in Runs, NEW kind \in {"answer", "error"},
           stage[r] \in {"persisting", "reporting"}, stage' = [stage EXCEPT ![r] = "closing"],
           UNCHANGED latest, (latest = r /\ Add(r, kind)) \/ UNCHANGED published
    PROVE  OrderInv'
<1> USE DEF Types, RunTypes, Messages
<1>1. stage'[r] = "closing" /\ \A q \in Runs : q # r => stage'[q] = stage[q] OBVIOUS
<1>2. \A q \in Runs : stage'[q] # "unused" <=> q <= latest' BY <1>1 DEF OrderInv
<1>3. \A i \in DOMAIN published : /\ published[i].run \in Runs
                                  /\ stage[published[i].run] \in {"closing", "done"}
                                  /\ published[i].run <= latest
  BY PublishedRuns DEF OrderInv
<1>4. \A i \in DOMAIN published : stage'[published[i].run] \in {"closing", "done"}
  BY <1>1, <1>3
<1>5. CASE UNCHANGED published
  BY <1>2, <1>3, <1>4, <1>5 DEF OrderInv, MessagesInOrder
<1>6. CASE latest = r /\ Add(r, kind)
  <2> DEFINE m == [run |-> r, kind |-> kind]
             n == Len(published)
  <2>1. m \in Messages /\ published \in Seq(Messages) BY DEF OrderInv
  <2>2. published' = Append(published, m) BY <1>6 DEF Add
  <2> HIDE DEF m, Messages
  <2>3. /\ published' \in Seq(Messages) /\ n \in Nat
        /\ DOMAIN published = 1..n /\ DOMAIN published' = 1..(n + 1)
        /\ published'[n + 1] = m
        /\ \A i \in 1..n : published'[i] = published[i]
    BY <2>1, <2>2, AppendProperties
  <2>4. m.run = r BY DEF m
  <2>5. \A q \in Runs : q \in Int BY DEF Runs
  <2>6. \A i \in 1..n : published[i].run < r
    <3> SUFFICES ASSUME NEW i \in 1..n PROVE published[i].run < r OBVIOUS
    <3>1. published[i].run \in Runs /\ published[i].run <= r BY <1>3, <1>6, <2>3
    <3>2. published[i].run # r BY <1>3, <2>3
    <3> QED BY <2>5, <3>1, <3>2
  <2>7. \A i \in DOMAIN published' : /\ stage'[published'[i].run] \in {"closing", "done"}
                                     /\ published'[i].run <= latest'
    <3> SUFFICES ASSUME NEW i \in 1..(n + 1)
                 PROVE  /\ stage'[published'[i].run] \in {"closing", "done"}
                        /\ published'[i].run <= latest'
      BY <2>3
    <3>1. CASE i = n + 1 BY <1>1, <1>6, <2>3, <2>4, <2>5, <3>1
    <3>2. CASE i \in 1..n BY <1>3, <1>4, <2>3, <3>2
    <3> QED BY <2>3, <3>1, <3>2
  <2>8. MessagesInOrder'
    <3> SUFFICES ASSUME NEW i \in 1..(n + 1), NEW j \in 1..(n + 1), i < j
                 PROVE  published'[i].run < published'[j].run
      BY <2>3 DEF MessagesInOrder
    <3>1. i \in 1..n BY <2>3
    <3>2. CASE j = n + 1 BY <2>3, <2>4, <2>6, <3>1, <3>2
    <3>3. CASE j \in 1..n BY <2>3, <3>1, <3>3 DEF OrderInv, MessagesInOrder
    <3> QED BY <2>3, <3>2, <3>3
  <2> QED BY <1>2, <2>3, <2>7, <2>8 DEF OrderInv
<1> QED BY <1>5, <1>6

----------------------------------------------------------------------------
\* A run that ends clears the view that follows it, and no other.
LEMMA Closed ==
    ASSUME Types, NEW r \in Runs, Close(r)
    PROVE  /\ stage[r] = "closing" /\ stage'[r] = "done"
           /\ \A q \in Runs : q # r => /\ stage'[q] = stage[q] /\ uses'[q] = uses[q]
                                       /\ owner'[q] = owner[q]
           /\ UNCHANGED latest
           /\ \/ /\ refs[owner[r]].active = r /\ refs'[owner[r]].active = None
                 /\ \A v \in Views : v # owner[r] => refs'[v] = refs[v]
                 /\ sending' = FreedSlot(r)
              \/ refs[owner[r]].active # r /\ UNCHANGED <<refs, sending>>
<1> USE DEF Types, RunTypes, ViewTypes
<1>1. /\ stage[r] = "closing" /\ stage'[r] = "done"
      /\ \A q \in Runs : q # r => /\ stage'[q] = stage[q] /\ uses'[q] = uses[q]
                                  /\ owner'[q] = owner[q]
      /\ UNCHANGED latest
  BY DEF Close
<1>2. CASE refs[owner[r]].active = r
  <2> DEFINE u == [refs[owner[r]] EXCEPT !.active = None, !.sending = FALSE,
                                         !.cancelRequested = FALSE]
  <2>1. refs' = [refs EXCEPT ![owner[r]] = u] /\ sending' = FreedSlot(r) BY <1>2 DEF Close
  <2>2. owner[r] \in Views /\ refs[owner[r]] \in RefSets OBVIOUS
  <2>3. u.active = None BY <2>2 DEF RefSets
  <2> HIDE DEF u
  <2>4. refs'[owner[r]].active = None /\ \A v \in Views : v # owner[r] => refs'[v] = refs[v]
    BY <2>1, <2>2, <2>3
  <2> QED BY <1>1, <1>2, <2>1, <2>4
<1>3. CASE refs[owner[r]].active # r BY <1>1, <1>3 DEF Close
<1> QED BY <1>2, <1>3

\* The slot, when a run closes.
LEMMA SlotCloses ==
    ASSUME Types, SlotInv, \E r \in Runs : Close(r)
    PROVE  SlotInv'
<1> PICK r \in Runs : Close(r) OBVIOUS
<1>1. \A q \in Runs : q # r => /\ stage'[q] = stage[q] /\ uses'[q] = uses[q]
                               /\ owner'[q] = owner[q]
  BY Closed
<1>2. owner[r] \in Views /\ sending \in Ids /\ \A v \in Views : refs[v].active \in Ids
  BY DEF Types, RunTypes, ViewTypes, RefSets
<1>3. sending' # r /\ sending' \in {None, sending}
  <2>1. CASE refs[owner[r]].active = r
    BY <2>1, Closed, RunAssumption DEF FreedSlot, RunAssumption, Runs, None
  <2>2. CASE refs[owner[r]].active # r
    <3>1. UNCHANGED sending /\ stage[r] = "closing" BY <2>2, Closed
    <3>2. sending # r BY <2>2, <3>1, RunAssumption DEF SlotInv, SlotHeld, RunAssumption, Runs, None
    <3> QED BY <3>1, <3>2
  <2> QED BY <2>1, <2>2
<1>4. \A v \in Views : refs'[v].active # None => refs'[v] = refs[v] /\ refs[v].active # r
  <2>1. CASE refs[owner[r]].active = r
    <3>1. \A v \in Views : v # owner[r] => refs'[v] = refs[v] BY <2>1, Closed
    <3>2. refs'[owner[r]].active = None BY <2>1, Closed
    <3>3. r # None BY RunAssumption DEF RunAssumption, Runs, None
    <3>4. \A v \in Views : refs[v].active = r => v = owner[r] BY <3>3 DEF SlotInv, ViewFollows
    <3> QED BY <3>1, <3>2, <3>4
  <2>2. CASE refs[owner[r]].active # r
    <3>1. r # None BY RunAssumption DEF RunAssumption, Runs, None
    <3>2. \A v \in Views : refs[v].active # r BY <2>2, <3>1 DEF SlotInv, ViewFollows
    <3> QED BY <2>2, <3>2, Closed
  <2> QED BY <2>1, <2>2
<1>5. \A q \in Ids : q # None => q \in Runs BY DEF Ids
<1>6. SlotHeld'
  <2> SUFFICES ASSUME sending' # None
               PROVE  \/ stage'[sending'] = "chat"
                      \/ /\ stage'[sending'] \in Going \cup {"closing"}
                         /\ refs'[owner'[sending']].active = sending'
    BY DEF SlotHeld
  <2> DEFINE q == sending
  <2>1. sending' = q /\ q \in Runs /\ q # r BY <1>2, <1>3, <1>5
  <2>2. stage'[q] = stage[q] /\ owner'[q] = owner[q] /\ owner[q] \in Views
    BY <1>1, <2>1 DEF Types, RunTypes
  <2>3. CASE stage[q] = "chat" BY <2>1, <2>2, <2>3
  <2>4. CASE stage[q] # "chat"
    <3>1. stage[q] \in Going \cup {"closing"} /\ refs[owner[q]].active = q
      BY <2>1, <2>4 DEF SlotInv, SlotHeld
    <3>2. owner[q] # owner[r] \/ refs[owner[r]].active # r BY <2>1, <3>1
    <3>3. refs'[owner[q]] = refs[owner[q]] BY <2>2, <3>2, Closed
    <3> QED BY <2>1, <2>2, <3>1, <3>3
  <2> QED BY <2>3, <2>4
<1>7. ASSUME NEW v \in Views PROVE ViewFollows(v)'
  <2>1. CASE refs'[v].active = None BY <2>1 DEF ViewFollows
  <2>2. CASE refs'[v].active # None
    <3>1. refs'[v] = refs[v] /\ refs[v].active \in Runs /\ refs[v].active # r
      BY <1>2, <1>4, <1>5, <2>2
    <3> QED BY <1>1, <3>1 DEF SlotInv, ViewFollows
  <2> QED BY <2>1, <2>2
<1> QED BY <1>6, <1>7 DEF SlotInv

\* The slot, when a run gets its service.
LEMMA SlotObtains ==
    ASSUME Types, SlotInv, \E r \in Runs, changed \in BOOLEAN : Obtain(r, changed)
    PROVE  SlotInv'
<1> PICK r \in Runs, changed \in BOOLEAN : Obtain(r, changed) OBVIOUS
<1> USE DEF Types, RunTypes, ViewTypes
<1>1. /\ stage[r] = "preparing" /\ stage'[r] = "mounted"
      /\ \A q \in Runs : q # r => stage'[q] = stage[q]
      /\ \A q \in Runs : q # r => uses'[q] = uses[q]
      /\ UNCHANGED <<sending, owner>>
  BY DEF Obtain
<1>2. owner[r] \in Views /\ refs[owner[r]].active = r BY DEF Obtain, CanPublish, OwnsLatest
<1>3. /\ refs'[owner[r]].service = uses'[r]
      /\ \A v \in Views : refs'[v].active = refs[v].active
      /\ \A v \in Views : v # owner[r] => refs'[v] = refs[v]
  BY <1>2 DEF Obtain, RefSets
<1>4. \A v \in Views : refs[v].active \in Ids BY DEF RefSets
<1>5. \A q \in Runs : stage'[q] \in Going <=> stage[q] \in Going BY <1>1 DEF Going
<1>6. \A q \in Runs : stage'[q] \in {"chat", "closing"} <=> stage[q] \in {"chat", "closing"}
  BY <1>1
<1>7. SlotHeld'
  <2>1. sending # None => sending \in Runs /\ owner[sending] \in Views BY DEF Ids
  <2> QED BY <1>1, <1>3, <1>5, <1>6, <2>1 DEF SlotInv, SlotHeld
<1>8. ASSUME NEW v \in Views PROVE ViewFollows(v)'
  <2>1. CASE v = owner[r] BY <1>1, <1>2, <1>3, <2>1 DEF ViewFollows, Going
  <2>2. CASE v # owner[r]
    <3>1. refs'[v] = refs[v] BY <1>3, <2>2
    <3>2. refs[v].active # None => refs[v].active \in Runs /\ refs[v].active # r
      BY <1>4, <2>2 DEF Ids, SlotInv, ViewFollows
    <3> QED BY <1>1, <3>1, <3>2 DEF SlotInv, ViewFollows
  <2> QED BY <2>1, <2>2
<1> QED BY <1>7, <1>8 DEF SlotInv

\* A run leaves "unused" by its start.
LEMMA StartsOnly ==
    ASSUME Types, LockInv, [Next]_vars, NEW q \in Runs, stage[q] = "unused", stage'[q] # "unused"
    PROVE  \E r \in Runs : Start(r) \/ StartChat(r)
<1> USE DEF Types, RunTypes
<1>1. CASE UNCHANGED stage BY <1>1
<1>2. CASE \E r \in Runs : \E x : Leaves(r, x) BY <1>2 DEF Leaves, Locked
<1>3. CASE \E r \in Runs : EndChat(r) \/ StopBeforeLoop(r) \/ PreparationFails(r)
                           \/ LoopSettles(r) \/ Publish(r) \/ PersistFails(r) \/ ReportError(r)
  <2>1. PICK r \in Runs : /\ stage[r] # "unused"
                          /\ EndChat(r) \/ StopBeforeLoop(r) \/ PreparationFails(r)
                             \/ LoopSettles(r) \/ Publish(r) \/ PersistFails(r) \/ ReportError(r)
    BY <1>3 DEF EndChat, StopBeforeLoop, PreparationFails, LoopSettles, Publish, PersistFails,
       ReportError
  <2>2. PICK x \in Stages : Moves(r, x) BY <2>1, MovingSteps
  <2> QED BY <2>1, <2>2 DEF Moves
<1>4. CASE \E r \in Runs : ProcessMessage(r)
  <2> PICK r \in Runs : ProcessMessage(r) BY <1>4
  <2>1. CASE Unsettled(uses[r])
    <3>1. PICK x \in Stages : Moves(r, x) BY <2>1, MovingSteps
    <3> QED BY <3>1 DEF Moves, ProcessMessage
  <2>2. CASE ~Unsettled(uses[r]) BY <2>2 DEF ProcessMessage
  <2> QED BY <2>1, <2>2
<1>5. CASE \E r \in Runs : ContextReady(r)
  <2> PICK r \in Runs : ContextReady(r) BY <1>5
  <2>1. CASE service[uses[r]].cancelRequested BY <1>2, <2>1, LeavingSteps
  <2>2. CASE ~service[uses[r]].cancelRequested BY <2>2 DEF ContextReady
  <2> QED BY <2>1, <2>2
<1>6. CASE \E r \in Runs : ContextFails(r) \/ WrapUp(r) BY <1>2, <1>6, LeavingSteps
<1>7. CASE \E r \in Runs, changed \in BOOLEAN : Obtain(r, changed) BY <1>7 DEF Obtain
<1>8. CASE \E r \in Runs : Close(r) BY <1>8 DEF Close
<1>9. CASE UNCHANGED vars \/ Stop \/ Remount \/ (\E s \in Runs : Watchdog(s))
           \/ (\E r \in Runs : Withdraw(r))
  <2>1. UNCHANGED stage BY <1>9 DEF vars, Stop, Remount, Watchdog, Withdraw
  <2> QED BY <1>1, <2>1
<1> QED BY <1>3, <1>4, <1>5, <1>6, <1>7, <1>8, <1>9 DEF Next, Prepare, Settle, Failure

----------------------------------------------------------------------------
(* A run that is halted stays halted: until the run ends, no step gives it  *)
(* back the right to work.                                                  *)

\* What a stop does to the view it comes from.
LEMMA Stopped ==
    ASSUME Types, Stop
    PROVE  /\ \A v \in Views : refs'[v].active = refs[v].active
           /\ \A v \in Views : refs[v].cancelRequested => refs'[v].cancelRequested
           /\ refs'[view].cancelRequested
           /\ UNCHANGED <<latest, owner, stage, uses>>
<1> USE DEF Types, ViewTypes
<1> DEFINE u == [refs[view] EXCEPT !.cancelRequested = TRUE, !.sending = FALSE]
<1>1. refs' = [refs EXCEPT ![view] = u] BY DEF Stop
<1>2. u.cancelRequested /\ u.active = refs[view].active BY DEF RefSets
<1> HIDE DEF u
<1>3. refs'[view] = u /\ \A v \in Views : v # view => refs'[v] = refs[v] BY <1>1
<1>4. UNCHANGED <<latest, owner, stage, uses>> BY DEF Stop
<1> QED BY <1>2, <1>3, <1>4

\* Who may not publish is not given that right back.
LEMMA LosesTurn ==
    ASSUME Types, OrderInv, [Next]_vars, NEW q \in Runs, stage[q] # "unused",
           stage'[q] # "done", CanPublish(q)'
    PROVE  CanPublish(q)
<1> USE DEF Types, RunTypes, ViewTypes
<1>1. CASE UNCHANGED <<refs, latest, owner>> BY <1>1 DEF CanPublish, OwnsLatest
<1>2. CASE \E r \in Runs : Start(r) \/ StartChat(r)
  <2>1. PICK r \in Runs : NextRun(r) /\ TakeSlot(r) BY <1>2 DEF Start, StartChat
  <2> QED BY <2>1 DEF CanPublish, OwnsLatest, NextRun, TakeSlot
<1>3. CASE Stop
  <2>1. owner[q] \in Views OBVIOUS
  <2> QED BY <1>3, <2>1, Stopped DEF CanPublish, OwnsLatest
<1>4. CASE \E r \in Runs : Close(r)
  <2> PICK r \in Runs : Close(r) BY <1>4
  <2>1. q # r BY Closed
  <2>2. owner'[q] = owner[q] /\ owner[q] \in Views /\ UNCHANGED latest BY <2>1, Closed
  <2>3. refs'[owner[q]].active = q BY <2>2 DEF CanPublish, OwnsLatest
  <2>4. q # None BY RunAssumption DEF RunAssumption, Runs, None
  <2>5. refs'[owner[q]] = refs[owner[q]] BY <2>2, <2>3, <2>4, Closed
  <2> QED BY <2>2, <2>5 DEF CanPublish, OwnsLatest
<1>5. CASE \E r \in Runs, changed \in BOOLEAN : Obtain(r, changed)
  <2> PICK r \in Runs, changed \in BOOLEAN : Obtain(r, changed) BY <1>5
  <2>1. /\ UNCHANGED <<latest, owner>> /\ owner[r] \in Views /\ owner[q] \in Views
        /\ refs' = [refs EXCEPT ![owner[r]].service = uses'[r]]
    BY DEF Obtain
  <2>2. \A v \in Views : /\ refs'[v].active = refs[v].active
                         /\ refs'[v].cancelRequested = refs[v].cancelRequested
    BY <2>1 DEF RefSets
  <2> QED BY <2>1, <2>2 DEF CanPublish, OwnsLatest
<1>6. CASE \E r \in Runs : \/ EndChat(r) \/ StopBeforeLoop(r) \/ PreparationFails(r)
                           \/ ProcessMessage(r) \/ ContextReady(r) \/ ContextFails(r)
                           \/ LoopSettles(r) \/ WrapUp(r) \/ Publish(r) \/ PersistFails(r)
                           \/ ReportError(r) \/ Withdraw(r)
  <2>1. UNCHANGED <<refs, latest, owner>>
    BY <1>6 DEF EndChat, StopBeforeLoop, PreparationFails, ProcessMessage, ContextReady,
       ContextFails, LoopSettles, WrapUp, Publish, PersistFails, ReportError, Withdraw
  <2> QED BY <1>1, <2>1
<1>7. CASE Remount \/ \E s \in Runs : Watchdog(s)
  <2>1. UNCHANGED <<refs, latest, owner>> BY <1>7 DEF Remount, Watchdog
  <2> QED BY <1>1, <2>1
<1>8. CASE UNCHANGED vars BY <1>1, <1>8 DEF vars
<1> QED BY <1>2, <1>3, <1>4, <1>5, <1>6, <1>7, <1>8 DEF Next, Prepare, Settle, Failure

\* The run itself moves on, or another one does.
LEMMA HaltMoves ==
    ASSUME Types, NEW q \in Runs, stage[q] # "unused", Halted(q),
           CanPublish(q)' => CanPublish(q) \/ stage'[q] = "done",
           NEW r \in Runs, NEW x, Moves(r, x)
    PROVE  Halted(q)'
<1>1. stage'[r] = x /\ \A p \in Runs : p # r => stage'[p] = stage[p]
  BY DEF Moves, Types, RunTypes
<1>2. UNCHANGED <<uses, service>> BY DEF Moves
<1>3. CASE q = r BY <1>1, <1>3 DEF Moves, Halted
<1>4. CASE q # r BY <1>1, <1>2, <1>4 DEF Halted
<1> QED BY <1>3, <1>4

\* A halted run stays so when some run releases the lock.
LEMMA HaltLeaves ==
    ASSUME Types, LockInv, NEW q \in Runs, Halted(q), CanPublish(q)' => CanPublish(q),
           NEW r \in Runs, NEW x, Leaves(r, x)
    PROVE  Halted(q)'
<1> USE DEF Types, RunTypes, ServiceTypes
<1>1. stage'[r] = x /\ (\A p \in Runs : p # r => stage'[p] = stage[p]) /\ UNCHANGED uses
  BY DEF Leaves
<1>2. CASE q = r BY <1>1, <1>2 DEF Leaves, Halted
<1>3. CASE q # r
  <2>1. stage[q] \in Locked => uses[q] # uses[r]
    BY <1>3 DEF Leaves, LockInv, LockGuardsSession, SessionBelongsToRun
  <2>2. stage[q] \in Locked => service'[uses[q]] = service[uses[q]]
    <3>1. \A s \in Runs : s # uses[r] => service'[s] = service[s] BY DEF Leaves
    <3>2. stage[q] \in Locked => uses[q] \in Runs BY DEF LockInv, Ids
    <3> QED BY <2>1, <3>1, <3>2
  <2> QED BY <1>1, <1>3, <2>2 DEF Halted, Locked
<1> QED BY <1>2, <1>3

\* A halted run stays so when a session is changed from outside.
LEMMA HaltTells ==
    ASSUME Types, LockInv, NEW q \in Runs, Halted(q), CanPublish(q)' => CanPublish(q),
           NEW s \in Runs, NEW u, Tells(s, u)
    PROVE  Halted(q)'
<1> USE DEF Types, RunTypes, ServiceTypes
<1>1. service'[s] = u /\ (\A t \in Runs : t # s => service'[t] = service[t])
      /\ UNCHANGED <<stage, uses>>
  BY DEF Tells
<1>2. q # None BY RunAssumption DEF RunAssumption, Runs, None
<1>3. stage[q] \in Locked => uses[q] \in Runs /\ service[uses[q]].activeRun # None
  BY <1>2 DEF LockInv, LockGuardsSession, SessionBelongsToRun, Ids
<1>4. CASE uses[q] = s BY <1>1, <1>3, <1>4 DEF Tells, Halted, Locked
<1>5. CASE uses[q] # s BY <1>1, <1>3, <1>5 DEF Halted, Locked
<1> QED BY <1>4, <1>5

\* Once halted, always halted.
LEMMA HaltedStays ==
    ASSUME Types, LockInv, OrderInv, [Next]_vars, NEW q \in Runs, stage[q] # "unused",
           Halted(q)
    PROVE  Halted(q)'
<1>1. CanPublish(q)' => CanPublish(q) \/ stage'[q] = "done" BY LosesTurn
<1>2. CASE stage'[q] = "done" BY <1>2 DEF Halted
<1> SUFFICES ASSUME stage'[q] # "done" PROVE Halted(q)' BY <1>2
<1>3. CanPublish(q)' => CanPublish(q) BY <1>1
<1> USE DEF Types, RunTypes, ServiceTypes
<1>4. CASE \E r \in Runs : \E x : Moves(r, x) BY <1>1, <1>4, HaltMoves
<1>5. CASE \E r \in Runs : \E x : Leaves(r, x) BY <1>3, <1>5, HaltLeaves
<1>6. CASE \E s \in Runs : \E u : Tells(s, u) BY <1>3, <1>6, HaltTells
<1>7. CASE UNCHANGED <<stage, uses, service>> BY <1>3, <1>7 DEF Halted
<1>8. CASE \E r \in Runs : ProcessMessage(r) /\ ~Unsettled(uses[r])
  <2> PICK r \in Runs : ProcessMessage(r) /\ ~Unsettled(uses[r]) BY <1>8
  <2>1. q # r BY DEF ProcessMessage, Halted
  <2>2. stage'[q] = stage[q] /\ UNCHANGED uses BY <2>1 DEF ProcessMessage
  <2>3. q # None BY RunAssumption DEF RunAssumption, Runs, None
  <2>4. stage[q] \in Locked => uses[q] \in Runs /\ uses[q] # uses[r]
    BY <2>3 DEF LockInv, LockGuardsSession, SessionBelongsToRun, Unsettled, Ids
  <2>5. \A s \in Runs : s # uses[r] => service'[s] = service[s] BY DEF ProcessMessage
  <2> QED BY <1>3, <2>2, <2>4, <2>5 DEF Halted, Locked
<1>9. CASE \E r \in Runs : ContextReady(r) /\ ~service[uses[r]].cancelRequested
  <2> PICK r \in Runs : ContextReady(r) /\ ~service[uses[r]].cancelRequested BY <1>9
  <2>1. q # r /\ stage[r] \in Locked BY DEF ContextReady, Halted, Locked
  <2>2. stage'[q] = stage[q] /\ UNCHANGED uses BY <2>1 DEF ContextReady
  <2>3. stage[q] \in Locked => uses[q] \in Runs /\ uses[q] # uses[r]
    BY <2>1 DEF LockInv, LockGuardsSession, SessionBelongsToRun, Ids
  <2>4. \A s \in Runs : s # uses[r] => service'[s] = service[s] BY DEF ContextReady
  <2> QED BY <1>3, <2>2, <2>3, <2>4 DEF Halted, Locked
<1>10. CASE \E r \in Runs, changed \in BOOLEAN : Obtain(r, changed)
  <2> PICK r \in Runs, changed \in BOOLEAN : Obtain(r, changed) BY <1>10
  <2>1. q # r BY DEF Obtain, Halted
  <2>2. stage'[q] = stage[q] /\ uses'[q] = uses[q] BY <2>1 DEF Obtain
  <2>3. stage[q] \in Locked => uses[q] \in Runs /\ uses[q] # r BY DEF Obtain, LockInv, Ids
  <2>4. \A s \in Runs : s # r => /\ service'[s].loop = service[s].loop
                                 /\ service'[s].cancelRequested = service[s].cancelRequested
    BY Obtained
  <2> QED BY <1>3, <2>2, <2>3, <2>4 DEF Halted, Locked
<1>11. CASE \E r \in Runs : Close(r)
  <2> PICK r \in Runs : Close(r) BY <1>11
  <2>1. q # r BY Closed
  <2>2. stage'[q] = stage[q] /\ uses'[q] = uses[q] BY <2>1, Closed
  <2>3. UNCHANGED service BY DEF Close
  <2> QED BY <1>3, <2>2, <2>3 DEF Halted
<1>12. CASE \E r \in Runs : ProcessMessage(r) BY <1>4, <1>8, <1>12, MovingSteps
<1>13. CASE \E r \in Runs : ContextReady(r) BY <1>5, <1>9, <1>13, LeavingSteps
<1>14. CASE \E r \in Runs : \/ Start(r) \/ StartChat(r) \/ EndChat(r) \/ StopBeforeLoop(r)
                            \/ PreparationFails(r) \/ LoopSettles(r) \/ Publish(r)
                            \/ PersistFails(r) \/ ReportError(r)
  BY <1>4, <1>14, MovingSteps
<1>15. CASE \E r \in Runs : ContextFails(r) \/ WrapUp(r) BY <1>5, <1>15, LeavingSteps
<1>16. CASE Stop \/ (\E s \in Runs : Watchdog(s)) \/ (\E r \in Runs : Withdraw(r))
  BY <1>6, <1>7, <1>16, TellingSteps
<1>17. CASE Remount \/ UNCHANGED vars BY <1>7, <1>17 DEF Remount, vars
<1> QED
  BY <1>10, <1>11, <1>12, <1>13, <1>14, <1>15, <1>16, <1>17 DEF Next, Prepare, Settle, Failure

\* The run the view of a stop follows is halted by it.
LEMMA StopHalts ==
    ASSUME Types, LockInv, SlotInv, Stop, NEW a \in Runs, refs[view].active = a
    PROVE  Halted(a)'
<1> USE DEF Types, RunTypes, ServiceTypes, ViewTypes
<1>1. a # None BY RunAssumption DEF RunAssumption, Runs, None
<1>2. owner[a] = view /\ (stage[a] \in Locked => refs[view].service = uses[a])
  BY <1>1 DEF SlotInv, ViewFollows
<1>3. ~CanPublish(a)' BY <1>2, Stopped DEF CanPublish
<1>4. CASE stage[a] \in Locked
  <2>1. uses[a] \in Runs /\ uses[a] # None BY <1>4 DEF LockInv, Ids
  <2>2. StopTarget = uses[a] BY <1>2, <1>4, <2>1 DEF StopTarget
  <2>3. service' = [service EXCEPT ![uses[a]] = Cancelled(@)] /\ UNCHANGED <<stage, uses>>
    BY <2>1, <2>2 DEF Stop
  <2> DEFINE sv == service[uses[a]]
  <2>4. service'[uses[a]] = Cancelled(sv) /\ sv \in Services BY <2>1, <2>3
  <2>5. stage[a] = "looping" => sv.loop \in {"running", "cancelled"} BY DEF LockInv
  <2> HIDE DEF sv
  <2>6. /\ service'[uses[a]].cancelRequested
        /\ stage[a] = "looping" => service'[uses[a]].loop = "cancelled"
    BY <2>4, <2>5, ServiceFields
  <2> QED BY <1>3, <2>3, <2>6 DEF Halted
<1>5. CASE stage[a] \notin Locked BY <1>3, <1>5, Stopped DEF Halted, Locked
<1> QED BY <1>4, <1>5

\* The run inside the service a stop is for is halted by it, whichever view it belongs to.
LEMMA TargetHalts ==
    ASSUME Types, LockInv, Stop, NEW a \in Runs, StopTarget # None,
           service[StopTarget].activeRun = a
    PROVE  Halted(a)'
<1> USE DEF Types, RunTypes, ServiceTypes, ViewTypes
<1>1. a # None BY RunAssumption DEF RunAssumption, Runs, None
<1>2. StopTarget \in Runs BY DEF StopTarget, RefSets, Ids
<1>3. stage[a] \in Locked /\ uses[a] = StopTarget
  BY <1>1, <1>2 DEF LockInv, LockGuardsSession, LockIsHeldInside, Unsettled
<1>4. service' = [service EXCEPT ![uses[a]] = Cancelled(@)] /\ UNCHANGED <<stage, uses>>
  BY <1>3 DEF Stop
<1> DEFINE sv == service[uses[a]]
<1>5. service'[uses[a]] = Cancelled(sv) /\ sv \in Services BY <1>2, <1>3, <1>4
<1>6. stage[a] = "looping" => sv.loop \in {"running", "cancelled"} BY DEF LockInv
<1> HIDE DEF sv
<1>7. /\ service'[uses[a]].cancelRequested
      /\ stage[a] = "looping" => service'[uses[a]].loop = "cancelled"
  BY <1>5, <1>6, ServiceFields
<1> QED BY <1>3, <1>4, <1>7 DEF Halted, Locked

\* The turns of the runs.
LEMMA TurnInvStep ==
    ASSUME Inv, [Next]_vars
    PROVE  TurnInv'
<1> SUFFICES ASSUME NEW q \in Runs, sending' # q PROVE Halted(q)' BY DEF TurnInv
<1> USE DEF Inv, Types, RunTypes, ViewTypes
<1>1. CASE stage[q] # "unused" /\ Halted(q) BY <1>1, HaltedStays
<1>2. CASE stage'[q] \in {"unused", "chat", "done"} BY <1>2 DEF Halted
<1>3. CASE \E r \in Runs : Start(r) \/ StartChat(r)
  <2>1. PICK r \in Runs : NextRun(r) /\ TakeSlot(r) /\ sending = None
                          /\ \E x : stage' = [stage EXCEPT ![r] = x]
    BY <1>3 DEF Start, StartChat, SlotIsFree
  <2>2. q # r BY <2>1 DEF TakeSlot
  <2>3. stage'[q] = stage[q] BY <2>1, <2>2
  <2>4. q # None BY RunAssumption DEF RunAssumption, Runs, None
  <2> QED BY <1>1, <1>2, <2>1, <2>3, <2>4 DEF TurnInv
<1>4. CASE stage[q] = "unused" /\ stage'[q] = stage[q] BY <1>4 DEF Halted
<1>5. CASE sending = q /\ stage'[q] # "done"
  <2>1. CASE Stop
    <3>1. refs[view].active = q BY <1>5, <2>1 DEF Stop, FreedSlot
    <3> QED BY <2>1, <3>1, StopHalts
  <2>2. CASE \E r \in Runs : EndChat(r) BY <1>5, <2>2 DEF EndChat, FreedSlot
  <2>3. CASE \E r \in Runs : Close(r)
    <3> PICK r \in Runs : Close(r) BY <2>3
    <3>1. q # r BY <1>5, Closed
    <3>2. sending' \in {sending, FreedSlot(r)} BY Closed
    <3> QED BY <1>5, <3>1, <3>2 DEF FreedSlot
  <2>4. CASE UNCHANGED sending BY <1>5, <2>4
  <2>5. UNCHANGED sending \/ Stop \/ \E r \in Runs : EndChat(r) \/ Close(r) \/ Start(r) \/ StartChat(r)
    BY DEF Next, Prepare, Settle, Failure, vars, StopBeforeLoop, PreparationFails, ProcessMessage,
       ContextReady, ContextFails, LoopSettles, WrapUp, Publish, PersistFails, ReportError,
       Withdraw, Remount, Watchdog, Obtain
  <2> QED BY <1>3, <2>1, <2>2, <2>3, <2>4, <2>5
<1>6. CASE stage[q] = "unused" /\ stage'[q] # "unused"
  <2>1. \E r \in Runs : Start(r) \/ StartChat(r) BY <1>6, StartsOnly
  <2> QED BY <1>3, <2>1
<1> QED BY <1>1, <1>2, <1>4, <1>5, <1>6 DEF TurnInv

----------------------------------------------------------------------------
\* A run that began does not become unused again.
LEMMA BeganStays ==
    ASSUME Types, [Next]_vars, NEW q \in Runs, stage[q] # "unused"
    PROVE  stage'[q] # "unused"
<1> USE DEF Types, RunTypes
<1>1. CASE UNCHANGED stage BY <1>1
<1>2. CASE \E r \in Runs : \E x : Leaves(r, x) BY <1>2 DEF Leaves
<1>3. CASE \E r \in Runs : \E x : Moves(r, x) BY <1>3 DEF Moves
<1>4. CASE \E r \in Runs : ProcessMessage(r)
  <2>1. CASE \E r \in Runs : ProcessMessage(r) /\ Unsettled(uses[r]) BY <1>3, <2>1, MovingSteps
  <2>2. CASE \E r \in Runs : ProcessMessage(r) /\ ~Unsettled(uses[r])
    BY <2>2 DEF ProcessMessage
  <2> QED BY <1>4, <2>1, <2>2
<1>5. CASE \E r \in Runs : ContextReady(r)
  <2>1. CASE \E r \in Runs : ContextReady(r) /\ service[uses[r]].cancelRequested
    BY <1>2, <2>1, LeavingSteps
  <2>2. CASE \E r \in Runs : ContextReady(r) /\ ~service[uses[r]].cancelRequested
    BY <2>2 DEF ContextReady
  <2> QED BY <1>5, <2>1, <2>2
<1>6. CASE \E r \in Runs : ContextFails(r) \/ WrapUp(r) BY <1>2, <1>6, LeavingSteps
<1>7. CASE \E r \in Runs : \/ Start(r) \/ StartChat(r) \/ EndChat(r) \/ StopBeforeLoop(r)
                           \/ PreparationFails(r) \/ LoopSettles(r) \/ Publish(r)
                           \/ PersistFails(r) \/ ReportError(r)
  BY <1>3, <1>7, MovingSteps
<1>8. CASE \E r \in Runs, changed \in BOOLEAN : Obtain(r, changed) BY <1>8 DEF Obtain
<1>9. CASE \E r \in Runs : Close(r) BY <1>9 DEF Close
<1>10. CASE UNCHANGED vars \/ Stop \/ Remount \/ (\E s \in Runs : Watchdog(s))
            \/ (\E r \in Runs : Withdraw(r))
  <2>1. UNCHANGED stage BY <1>10 DEF vars, Stop, Remount, Watchdog, Withdraw
  <2> QED BY <1>1, <2>1
<1> QED BY <1>4, <1>5, <1>6, <1>7, <1>8, <1>9, <1>10 DEF Next, Prepare, Settle, Failure

\* What is added for another run, or as an error, answers nothing.
LEMMA AddedMessage ==
    ASSUME OrderInv, NEW q \in Runs, NEW kind \in {"answer", "error"}, Add(q, kind),
           NEW r, ~Answered(r), q # r \/ kind = "error"
    PROVE  ~Answered(r)'
<1> DEFINE m == [run |-> q, kind |-> kind]
           n == Len(published)
<1>1. m \in Messages /\ published \in Seq(Messages) BY DEF Messages, OrderInv
<1>2. published' = Append(published, m) BY DEF Add
<1>3. m # [run |-> r, kind |-> "answer"] OBVIOUS
<1> HIDE DEF m
<1>4. /\ DOMAIN published = 1..n /\ DOMAIN published' = 1..(n + 1) /\ n \in Nat
      /\ published'[n + 1] = m /\ \A i \in 1..n : published'[i] = published[i]
  BY <1>1, <1>2, AppendProperties
<1> HIDE DEF n
<1>5. \A i \in 1..(n + 1) : i = n + 1 \/ i \in 1..n BY <1>4
<1> QED BY <1>3, <1>4, <1>5 DEF Answered

\* Types of the view, its refs and the send slot.
LEMMA ViewTypesStep ==
    ASSUME Types, [Next]_vars
    PROVE  ViewTypes'
<1> USE ViewAssumption DEF ViewAssumption, Types, ViewTypes, RunTypes, Ids, RefSets
<1>1. CASE UNCHANGED vars BY <1>1 DEF vars
<1>2. CASE \E r \in Runs : Start(r)
  <2> PICK r \in Runs : Start(r) BY <1>2
  <2>1. [refs[view] EXCEPT !.sending = TRUE, !.active = r, !.cancelRequested = FALSE] \in RefSets
    OBVIOUS
  <2> HIDE DEF RefSets
  <2> QED BY <2>1 DEF Start, TakeSlot
<1>3. CASE \E r \in Runs : StartChat(r) BY <1>3 DEF StartChat, TakeSlot, NextRun, SlotIsFree
<1>4. CASE \E r \in Runs : EndChat(r) BY <1>4 DEF EndChat, FreedSlot
<1>5. CASE \E r \in Runs : StopBeforeLoop(r) BY <1>5 DEF StopBeforeLoop
<1>6. CASE \E r \in Runs : PreparationFails(r) BY <1>6 DEF PreparationFails, Fail, Present
<1>7. CASE \E r \in Runs : ProcessMessage(r)
  BY <1>7 DEF ProcessMessage, DeliverError, Fail, Present, Locking
<1>8. CASE \E r \in Runs : ContextReady(r)
  BY <1>8 DEF ContextReady, Deliver, Present, ReleaseLock, Released
<1>9. CASE \E r \in Runs : ContextFails(r)
  BY <1>9 DEF ContextFails, Deliver, DeliverError, Fail, Present, ReleaseLock, Released
<1>10. CASE \E r \in Runs : LoopSettles(r) BY <1>10 DEF LoopSettles
<1>11. CASE \E r \in Runs : WrapUp(r)
  BY <1>11 DEF WrapUp, Deliver, DeliverError, Fail, Present, ReleaseLock, Released
<1>12. CASE \E r \in Runs : Publish(r) BY <1>12 DEF Publish, Add
<1>13. CASE \E r \in Runs : PersistFails(r) BY <1>13 DEF PersistFails, Fail, Present
<1>14. CASE \E r \in Runs : ReportError(r) BY <1>14 DEF ReportError, Add
<1>15. CASE \E r \in Runs : Close(r)
  <2> PICK r \in Runs : Close(r) BY <1>15
  <2>1. [refs[owner[r]] EXCEPT !.active = None, !.sending = FALSE, !.cancelRequested = FALSE]
           \in RefSets
    <3>1. None \in Ids BY DEF Ids
    <3> HIDE DEF Ids
    <3> QED BY <3>1
  <2> HIDE DEF RefSets
  <2>2. sending' \in Ids BY DEF Close, FreedSlot
  <2>3. refs' \in [Views -> RefSets] BY <2>1 DEF Close
  <2> QED BY <2>2, <2>3 DEF Close
<1>16. CASE \E r \in Runs : Withdraw(r)
  BY <1>16 DEF Withdraw, Live, Destroyed, Cancelled, ResetSession
<1>17. CASE \E r \in Runs, changed \in BOOLEAN : Obtain(r, changed)
  <2> PICK r \in Runs, changed \in BOOLEAN : Obtain(r, changed) BY <1>17
  <2>1. uses'[r] \in Ids BY DEF Obtain, ServiceTypes
  <2>2. [refs[owner[r]] EXCEPT !.service = uses'[r]] \in RefSets BY <2>1
  <2> HIDE DEF RefSets
  <2>3. refs' \in [Views -> RefSets] BY <2>2 DEF Obtain
  <2> QED BY <2>3 DEF Obtain
<1>18. CASE \E s \in Runs : Watchdog(s) BY <1>18 DEF Watchdog, TimedOut
<1>19. CASE Stop BY <1>19 DEF Stop, StopTarget, FreedSlot, Cancelled
<1>20. CASE Remount BY <1>20 DEF Remount
<1> QED BY <1>1, <1>2, <1>3, <1>4, <1>5, <1>6, <1>7, <1>8, <1>9, <1>10, <1>11, <1>12, <1>13,
     <1>14, <1>15, <1>16, <1>17, <1>18, <1>19, <1>20 DEF Next, Prepare, Settle, Failure

\* Types of the runs.
LEMMA RunTypesStep ==
    ASSUME Types, [Next]_vars
    PROVE  RunTypes'
<1> USE ViewAssumption DEF ViewAssumption, Types, ViewTypes, RunTypes, ServiceTypes, Ids,
     Stages, Going, Locked
<1>1. CASE UNCHANGED vars BY <1>1 DEF vars
<1>2. CASE \E r \in Runs : Start(r) BY <1>2 DEF Start, TakeSlot, NextRun, SlotIsFree
<1>3. CASE \E r \in Runs : StartChat(r) BY <1>3 DEF StartChat, TakeSlot, NextRun, SlotIsFree
<1>4. CASE \E r \in Runs : EndChat(r) BY <1>4 DEF EndChat, FreedSlot
<1>5. CASE \E r \in Runs : StopBeforeLoop(r) BY <1>5 DEF StopBeforeLoop
<1>6. CASE \E r \in Runs : PreparationFails(r) BY <1>6 DEF PreparationFails, Fail, Present
<1>7. CASE \E r \in Runs : ProcessMessage(r)
  BY <1>7 DEF ProcessMessage, DeliverError, Fail, Present, Locking
<1>8. CASE \E r \in Runs : ContextReady(r)
  BY <1>8 DEF ContextReady, Deliver, Present, ReleaseLock, Released
<1>9. CASE \E r \in Runs : ContextFails(r)
  BY <1>9 DEF ContextFails, Deliver, DeliverError, Fail, Present, ReleaseLock, Released
<1>10. CASE \E r \in Runs : LoopSettles(r) BY <1>10 DEF LoopSettles
<1>11. CASE \E r \in Runs : WrapUp(r)
  BY <1>11 DEF WrapUp, Deliver, DeliverError, Fail, Present, ReleaseLock, Released
<1>12. CASE \E r \in Runs : Publish(r) BY <1>12 DEF Publish, Add
<1>13. CASE \E r \in Runs : PersistFails(r) BY <1>13 DEF PersistFails, Fail, Present
<1>14. CASE \E r \in Runs : ReportError(r) BY <1>14 DEF ReportError, Add
<1>15. CASE \E r \in Runs : Close(r)
  <2> PICK r \in Runs : Close(r) BY <1>15
  <2>1. 1 \in Views BY DEF Views
  <2> QED BY <2>1 DEF Close, None
<1>16. CASE \E r \in Runs : Withdraw(r)
  BY <1>16 DEF Withdraw, Live, Destroyed, Cancelled, ResetSession
<1>17. CASE \E r \in Runs, changed \in BOOLEAN : Obtain(r, changed)
  BY <1>17 DEF Obtain, Detached, ResetSession, NewService
<1>18. CASE \E s \in Runs : Watchdog(s) BY <1>18 DEF Watchdog, TimedOut
<1>19. CASE Stop BY <1>19 DEF Stop, StopTarget, FreedSlot, Cancelled
<1>20. CASE Remount BY <1>20 DEF Remount
<1> QED BY <1>1, <1>2, <1>3, <1>4, <1>5, <1>6, <1>7, <1>8, <1>9, <1>10, <1>11, <1>12, <1>13,
     <1>14, <1>15, <1>16, <1>17, <1>18, <1>19, <1>20 DEF Next, Prepare, Settle, Failure

\* Types of the services.
LEMMA ServiceTypesStep ==
    ASSUME Types, [Next]_vars
    PROVE  ServiceTypes'
<1> USE DEF Types, RunTypes, ServiceTypes
<1>1. CASE UNCHANGED vars BY <1>1 DEF vars
<1>2. CASE \E r \in Runs : Start(r) BY <1>2 DEF Start, TakeSlot, NextRun, SlotIsFree
<1>3. CASE \E r \in Runs : StartChat(r) BY <1>3 DEF StartChat, TakeSlot, NextRun, SlotIsFree
<1>4. CASE \E r \in Runs : EndChat(r) BY <1>4 DEF EndChat, FreedSlot
<1>5. CASE \E r \in Runs : StopBeforeLoop(r) BY <1>5 DEF StopBeforeLoop
<1>6. CASE \E r \in Runs : PreparationFails(r) BY <1>6 DEF PreparationFails, Fail, Present
<1>7. CASE \E r \in Runs : ProcessMessage(r)
  <2> PICK r \in Runs : ProcessMessage(r) BY <1>7
  <2>1. CASE Unsettled(uses[r])
    <3>1. service' = service BY <2>1 DEF ProcessMessage
    <3> QED BY <3>1, ServiceUpdates DEF ProcessMessage
  <2>2. CASE ~(Unsettled(uses[r]))
    <3>1. service' = [service EXCEPT ![uses[r]] = Locking(@, r)] BY <2>2 DEF ProcessMessage
    <3> QED BY <3>1, ServiceUpdates DEF ProcessMessage
  <2> QED BY <2>1, <2>2
<1>8. CASE \E r \in Runs : ContextReady(r)
  <2> PICK r \in Runs : ContextReady(r) BY <1>8
  <2>1. CASE ~service[uses[r]].cancelRequested
    <3>1. service' = [service EXCEPT ![uses[r]] = [@ EXCEPT !.loop = "running"]]
      BY <2>1 DEF ContextReady, ReleaseLock
    <3> QED BY <3>1, ServiceUpdates DEF ContextReady
  <2>2. CASE ~(~service[uses[r]].cancelRequested)
    <3>1. service' = [service EXCEPT ![uses[r]] = Released(@)] BY <2>2 DEF ContextReady, ReleaseLock
    <3> QED BY <3>1, ServiceUpdates DEF ContextReady
  <2> QED BY <2>1, <2>2
<1>9. CASE \E r \in Runs : ContextFails(r)
  <2> PICK r \in Runs : ContextFails(r) BY <1>9
  <2>1. service' = [service EXCEPT ![uses[r]] = Released(service[uses[r]])]
    BY DEF ContextFails, ReleaseLock
  <2> QED BY <2>1, ServiceUpdates DEF ContextFails
<1>10. CASE \E r \in Runs : LoopSettles(r) BY <1>10 DEF LoopSettles
<1>11. CASE \E r \in Runs : WrapUp(r)
  <2> PICK r \in Runs : WrapUp(r) BY <1>11
  <2>1. service' = [service EXCEPT ![uses[r]] = Released(service[uses[r]])]
    BY DEF WrapUp, ReleaseLock
  <2> QED BY <2>1, ServiceUpdates DEF WrapUp
<1>12. CASE \E r \in Runs : Publish(r) BY <1>12 DEF Publish, Add
<1>13. CASE \E r \in Runs : PersistFails(r) BY <1>13 DEF PersistFails, Fail, Present
<1>14. CASE \E r \in Runs : ReportError(r) BY <1>14 DEF ReportError, Add
<1>15. CASE \E r \in Runs : Close(r) BY <1>15 DEF Close, FreedSlot
<1>16. CASE \E r \in Runs : Withdraw(r)
  <2> PICK r \in Runs : Withdraw(r) BY <1>16
  <2>1. service' = service \/ service' = [service EXCEPT ![cache] = Destroyed(service[cache])]
    BY DEF Withdraw
  <2> QED BY <2>1, ServiceUpdates DEF Withdraw, Ids
<1>17. CASE \E r \in Runs, changed \in BOOLEAN : Obtain(r, changed)
  <2> PICK r \in Runs, changed \in BOOLEAN : Obtain(r, changed) BY <1>17
  <2>1. Detached(changed) \in [Runs -> Services] BY ServiceUpdates DEF Detached
  <2>2. service' = service \/ service' = [Detached(changed) EXCEPT ![r] = NewService] BY DEF Obtain
  <2> QED BY <2>1, <2>2, ServiceUpdates DEF Obtain, Ids
<1>18. CASE \E s \in Runs : Watchdog(s)
  <2> PICK s \in Runs : Watchdog(s) BY <1>18
  <2> QED BY ServiceUpdates DEF Watchdog
<1>19. CASE Stop
  <2>1. \/ service' = service
        \/ service' = [service EXCEPT ![StopTarget] = Cancelled(service[StopTarget])]
    BY <1>19 DEF Stop
  <2> QED BY <1>19, <2>1, ServiceUpdates DEF Stop
<1>20. CASE Remount BY <1>20 DEF Remount
<1> QED BY <1>1, <1>2, <1>3, <1>4, <1>5, <1>6, <1>7, <1>8, <1>9, <1>10, <1>11, <1>12, <1>13,
     <1>14, <1>15, <1>16, <1>17, <1>18, <1>19, <1>20 DEF Next, Prepare, Settle, Failure

\* The lock guards the session.
LEMMA LockInvStep ==
    ASSUME Types, LockInv, [Next]_vars
    PROVE  LockInv'
<1>1. CASE UNCHANGED vars BY <1>1, LockIdles DEF vars
<1>2. CASE \E r \in Runs : Start(r)
  <2> PICK r \in Runs : Start(r) BY <1>2
  <2>1. PICK x \in Stages : Moves(r, x) BY MovingSteps
  <2> QED BY <2>1, LockMoves
<1>3. CASE \E r \in Runs : StartChat(r)
  <2> PICK r \in Runs : StartChat(r) BY <1>3
  <2>1. PICK x \in Stages : Moves(r, x) BY MovingSteps
  <2> QED BY <2>1, LockMoves
<1>4. CASE \E r \in Runs : EndChat(r)
  <2> PICK r \in Runs : EndChat(r) BY <1>4
  <2>1. PICK x \in Stages : Moves(r, x) BY MovingSteps
  <2> QED BY <2>1, LockMoves
<1>5. CASE \E r \in Runs : StopBeforeLoop(r)
  <2> PICK r \in Runs : StopBeforeLoop(r) BY <1>5
  <2>1. PICK x \in Stages : Moves(r, x) BY MovingSteps
  <2> QED BY <2>1, LockMoves
<1>6. CASE \E r \in Runs : PreparationFails(r)
  <2> PICK r \in Runs : PreparationFails(r) BY <1>6
  <2>1. PICK x \in Stages : Moves(r, x) BY MovingSteps
  <2> QED BY <2>1, LockMoves
<1>7. CASE \E r \in Runs : ProcessMessage(r)
  <2> PICK r \in Runs : ProcessMessage(r) BY <1>7
  <2>1. CASE Unsettled(uses[r])
    <3>1. PICK x \in Stages : Moves(r, x) BY <2>1, MovingSteps
    <3> QED BY <3>1, LockMoves
  <2>2. CASE ~Unsettled(uses[r])  BY <2>2, LockTaken
  <2> QED BY <2>1, <2>2
<1>8. CASE \E r \in Runs : ContextReady(r)
  <2> PICK r \in Runs : ContextReady(r) BY <1>8
  <2>1. CASE service[uses[r]].cancelRequested
    <3>1. PICK x \in Stages : Leaves(r, x) BY <2>1, LeavingSteps
    <3> QED BY <3>1, LockLeaves
  <2>2. CASE ~service[uses[r]].cancelRequested BY <2>2, LockLoops
  <2> QED BY <2>1, <2>2
<1>9. CASE \E r \in Runs : ContextFails(r)
  <2> PICK r \in Runs : ContextFails(r) BY <1>9
  <2>1. PICK x \in Stages : Leaves(r, x) BY LeavingSteps
  <2> QED BY <2>1, LockLeaves
<1>10. CASE \E r \in Runs : LoopSettles(r)
  <2> PICK r \in Runs : LoopSettles(r) BY <1>10
  <2>1. PICK x \in Stages : Moves(r, x) BY MovingSteps
  <2> QED BY <2>1, LockMoves
<1>11. CASE \E r \in Runs : WrapUp(r)
  <2> PICK r \in Runs : WrapUp(r) BY <1>11
  <2>1. PICK x \in Stages : Leaves(r, x) BY LeavingSteps
  <2> QED BY <2>1, LockLeaves
<1>12. CASE \E r \in Runs : Publish(r)
  <2> PICK r \in Runs : Publish(r) BY <1>12
  <2>1. PICK x \in Stages : Moves(r, x) BY MovingSteps
  <2> QED BY <2>1, LockMoves
<1>13. CASE \E r \in Runs : PersistFails(r)
  <2> PICK r \in Runs : PersistFails(r) BY <1>13
  <2>1. PICK x \in Stages : Moves(r, x) BY MovingSteps
  <2> QED BY <2>1, LockMoves
<1>14. CASE \E r \in Runs : ReportError(r)
  <2> PICK r \in Runs : ReportError(r) BY <1>14
  <2>1. PICK x \in Stages : Moves(r, x) BY MovingSteps
  <2> QED BY <2>1, LockMoves
<1>15. CASE \E r \in Runs : Close(r)
  BY <1>15, LockCloses
<1>16. CASE \E r \in Runs : Withdraw(r)
  BY <1>16, TellingSteps, LockTells, LockIdles
<1>17. CASE \E r \in Runs, changed \in BOOLEAN : Obtain(r, changed)
  BY <1>17, LockObtains
<1>18. CASE \E s \in Runs : Watchdog(s)
  BY <1>18, TellingSteps, LockTells, LockIdles
<1>19. CASE Stop
  BY <1>19, TellingSteps, LockTells, LockIdles
<1>20. CASE Remount
  BY <1>20, LockIdles DEF Remount
<1> QED BY <1>1, <1>2, <1>3, <1>4, <1>5, <1>6, <1>7, <1>8, <1>9, <1>10, <1>11, <1>12, <1>13,
     <1>14, <1>15, <1>16, <1>17, <1>18, <1>19, <1>20 DEF Next, Prepare, Settle, Failure

\* Runs and answers keep their order.
LEMMA OrderInvStep ==
    ASSUME Types, OrderInv, [Next]_vars
    PROVE  OrderInv'
<1> USE DEF Types, RunTypes, ViewTypes, OrderInv, MessagesInOrder, Locked
<1>1. CASE UNCHANGED vars BY <1>1 DEF vars
<1>2. CASE \E r \in Runs : Start(r)
  <2> PICK r \in Runs : Start(r) BY <1>2
  <2> QED BY OrderStarts DEF Start
<1>3. CASE \E r \in Runs : StartChat(r)
  <2> PICK r \in Runs : StartChat(r) BY <1>3
  <2> QED BY OrderStarts DEF StartChat
<1>4. CASE \E r \in Runs : EndChat(r) BY <1>4 DEF EndChat, FreedSlot
<1>5. CASE \E r \in Runs : StopBeforeLoop(r) BY <1>5 DEF StopBeforeLoop
<1>6. CASE \E r \in Runs : PreparationFails(r)
  <2> PICK r \in Runs : PreparationFails(r) BY <1>6
  <2>1. PICK x \in {"reporting", "persisting", "closing"} : stage' = [stage EXCEPT ![r] = x]
    BY Ends DEF PreparationFails
  <2> QED BY <2>1 DEF PreparationFails
<1>7. CASE \E r \in Runs : ProcessMessage(r)
  <2> PICK r \in Runs : ProcessMessage(r) BY <1>7
  <2>1. PICK x \in {"reporting", "persisting", "closing", "context"} : stage' = [stage EXCEPT ![r] = x]
    BY Ends DEF ProcessMessage
  <2> QED BY <2>1 DEF ProcessMessage
<1>8. CASE \E r \in Runs : ContextReady(r)
  <2> PICK r \in Runs : ContextReady(r) BY <1>8
  <2>1. PICK x \in {"reporting", "persisting", "closing", "looping"} : stage' = [stage EXCEPT ![r] = x]
    BY Ends DEF ContextReady
  <2> QED BY <2>1 DEF ContextReady
<1>9. CASE \E r \in Runs : ContextFails(r)
  <2> PICK r \in Runs : ContextFails(r) BY <1>9
  <2>1. PICK x \in {"reporting", "persisting", "closing"} : stage' = [stage EXCEPT ![r] = x]
    BY Ends DEF ContextFails
  <2> QED BY <2>1 DEF ContextFails
<1>10. CASE \E r \in Runs : LoopSettles(r)
  <2> PICK r \in Runs : LoopSettles(r) BY <1>10
  <2>1. PICK x \in {"wrapping", "erring"} : stage' = [stage EXCEPT ![r] = x]
    BY DEF LoopSettles
  <2> QED BY <2>1 DEF LoopSettles
<1>11. CASE \E r \in Runs : WrapUp(r)
  <2> PICK r \in Runs : WrapUp(r) BY <1>11
  <2>1. PICK x \in {"reporting", "persisting", "closing"} : stage' = [stage EXCEPT ![r] = x]
    BY Ends DEF WrapUp
  <2> QED BY <2>1 DEF WrapUp
<1>12. CASE \E r \in Runs : Publish(r)
  <2> PICK r \in Runs : Publish(r) BY <1>12
  <2> QED BY OrderAdds DEF Publish, MayPublish, OwnsLatest
<1>13. CASE \E r \in Runs : PersistFails(r)
  <2> PICK r \in Runs : PersistFails(r) BY <1>13
  <2>1. PICK x \in {"reporting", "persisting", "closing"} : stage' = [stage EXCEPT ![r] = x]
    BY Ends DEF PersistFails
  <2> QED BY <2>1 DEF PersistFails
<1>14. CASE \E r \in Runs : ReportError(r)
  <2> PICK r \in Runs : ReportError(r) BY <1>14
  <2> QED BY OrderAdds DEF ReportError
<1>15. CASE \E r \in Runs : Close(r) BY <1>15 DEF Close, FreedSlot
<1>16. CASE \E r \in Runs : Withdraw(r)
  BY <1>16 DEF Withdraw, Live, Destroyed, Cancelled, ResetSession
<1>17. CASE \E r \in Runs, changed \in BOOLEAN : Obtain(r, changed)
  BY <1>17 DEF Obtain, Detached, ResetSession, NewService
<1>18. CASE \E s \in Runs : Watchdog(s) BY <1>18 DEF Watchdog, TimedOut
<1>19. CASE Stop BY <1>19 DEF Stop, StopTarget, FreedSlot, Cancelled
<1>20. CASE Remount BY <1>20 DEF Remount
<1> QED BY <1>1, <1>2, <1>3, <1>4, <1>5, <1>6, <1>7, <1>8, <1>9, <1>10, <1>11, <1>12, <1>13,
     <1>14, <1>15, <1>16, <1>17, <1>18, <1>19, <1>20 DEF Next, Prepare, Settle, Failure

\* The slot and the refs follow the run.
LEMMA SlotInvStep ==
    ASSUME Types, SlotInv, [Next]_vars
    PROVE  SlotInv'
<1> USE DEF Types, RunTypes, ViewTypes, SlotInv, SlotHeld, ViewFollows, Locked, Going, None, Ids
<1>1. CASE UNCHANGED vars BY <1>1 DEF vars
<1>2. CASE \E r \in Runs : Start(r) BY <1>2 DEF Start, TakeSlot, NextRun, SlotIsFree
<1>3. CASE \E r \in Runs : StartChat(r) BY <1>3 DEF StartChat, TakeSlot, NextRun, SlotIsFree
<1>4. CASE \E r \in Runs : EndChat(r) BY <1>4 DEF EndChat, FreedSlot
<1>5. CASE \E r \in Runs : StopBeforeLoop(r) BY <1>5 DEF StopBeforeLoop
<1>6. CASE \E r \in Runs : PreparationFails(r)
  <2> PICK r \in Runs : PreparationFails(r) BY <1>6
  <2>1. PICK x \in {"reporting", "persisting", "closing"} : stage' = [stage EXCEPT ![r] = x]
    BY Ends DEF PreparationFails
  <2> QED BY <2>1 DEF PreparationFails
<1>7. CASE \E r \in Runs : ProcessMessage(r)
  <2> PICK r \in Runs : ProcessMessage(r) BY <1>7
  <2>1. PICK x \in {"reporting", "persisting", "closing", "context"} : stage' = [stage EXCEPT ![r] = x]
    BY Ends DEF ProcessMessage
  <2> QED BY <2>1 DEF ProcessMessage
<1>8. CASE \E r \in Runs : ContextReady(r)
  <2> PICK r \in Runs : ContextReady(r) BY <1>8
  <2>1. PICK x \in {"reporting", "persisting", "closing", "looping"} : stage' = [stage EXCEPT ![r] = x]
    BY Ends DEF ContextReady
  <2> QED BY <2>1 DEF ContextReady
<1>9. CASE \E r \in Runs : ContextFails(r)
  <2> PICK r \in Runs : ContextFails(r) BY <1>9
  <2>1. PICK x \in {"reporting", "persisting", "closing"} : stage' = [stage EXCEPT ![r] = x]
    BY Ends DEF ContextFails
  <2> QED BY <2>1 DEF ContextFails
<1>10. CASE \E r \in Runs : LoopSettles(r)
  <2> PICK r \in Runs : LoopSettles(r) BY <1>10
  <2>1. PICK x \in {"wrapping", "erring"} : stage' = [stage EXCEPT ![r] = x]
    BY DEF LoopSettles
  <2> QED BY <2>1 DEF LoopSettles
<1>11. CASE \E r \in Runs : WrapUp(r)
  <2> PICK r \in Runs : WrapUp(r) BY <1>11
  <2>1. PICK x \in {"reporting", "persisting", "closing"} : stage' = [stage EXCEPT ![r] = x]
    BY Ends DEF WrapUp
  <2> QED BY <2>1 DEF WrapUp
<1>12. CASE \E r \in Runs : Publish(r) BY <1>12 DEF Publish, Add
<1>13. CASE \E r \in Runs : PersistFails(r)
  <2> PICK r \in Runs : PersistFails(r) BY <1>13
  <2>1. PICK x \in {"reporting", "persisting", "closing"} : stage' = [stage EXCEPT ![r] = x]
    BY Ends DEF PersistFails
  <2> QED BY <2>1 DEF PersistFails
<1>14. CASE \E r \in Runs : ReportError(r) BY <1>14 DEF ReportError, Add
<1>15. CASE \E r \in Runs : Close(r)
  BY <1>15, SlotCloses
<1>16. CASE \E r \in Runs : Withdraw(r)
  BY <1>16 DEF Withdraw, Live, Destroyed, Cancelled, ResetSession
<1>17. CASE \E r \in Runs, changed \in BOOLEAN : Obtain(r, changed)
  BY <1>17, SlotObtains
<1>18. CASE \E s \in Runs : Watchdog(s) BY <1>18 DEF Watchdog, TimedOut
<1>19. CASE Stop BY <1>19 DEF Stop, StopTarget, FreedSlot, Cancelled
<1>20. CASE Remount BY <1>20 DEF Remount
<1> QED BY <1>1, <1>2, <1>3, <1>4, <1>5, <1>6, <1>7, <1>8, <1>9, <1>10, <1>11, <1>12, <1>13,
     <1>14, <1>15, <1>16, <1>17, <1>18, <1>19, <1>20 DEF Next, Prepare, Settle, Failure

\* The view of the latest run keeps following it.
LEMMA LatestStep ==
    ASSUME Types, LatestIsFollowed, [Next]_vars
    PROVE  LatestIsFollowed'
<1> USE DEF Types, RunTypes, ViewTypes, LatestIsFollowed, Locked, Going
<1>1. CASE UNCHANGED vars BY <1>1 DEF vars
<1>2. CASE \E r \in Runs : Start(r) BY <1>2 DEF Start, TakeSlot, NextRun, SlotIsFree
<1>3. CASE \E r \in Runs : StartChat(r) BY <1>3 DEF StartChat, TakeSlot, NextRun, SlotIsFree
<1>4. CASE \E r \in Runs : EndChat(r) BY <1>4 DEF EndChat, FreedSlot
<1>5. CASE \E r \in Runs : StopBeforeLoop(r) BY <1>5 DEF StopBeforeLoop
<1>6. CASE \E r \in Runs : PreparationFails(r)
  <2> PICK r \in Runs : PreparationFails(r) BY <1>6
  <2>1. PICK x \in {"reporting", "persisting", "closing"} : stage' = [stage EXCEPT ![r] = x]
    BY Ends DEF PreparationFails
  <2>2. stage[r] \in Going BY DEF PreparationFails
  <2> QED BY <2>1, <2>2 DEF PreparationFails
<1>7. CASE \E r \in Runs : ProcessMessage(r)
  <2> PICK r \in Runs : ProcessMessage(r) BY <1>7
  <2>1. PICK x \in {"reporting", "persisting", "closing", "context"} : stage' = [stage EXCEPT ![r] = x]
    BY Ends DEF ProcessMessage
  <2>2. stage[r] \in Going BY DEF ProcessMessage
  <2> QED BY <2>1, <2>2 DEF ProcessMessage
<1>8. CASE \E r \in Runs : ContextReady(r)
  <2> PICK r \in Runs : ContextReady(r) BY <1>8
  <2>1. PICK x \in {"reporting", "persisting", "closing", "looping"} : stage' = [stage EXCEPT ![r] = x]
    BY Ends DEF ContextReady
  <2>2. stage[r] \in Going BY DEF ContextReady
  <2> QED BY <2>1, <2>2 DEF ContextReady
<1>9. CASE \E r \in Runs : ContextFails(r)
  <2> PICK r \in Runs : ContextFails(r) BY <1>9
  <2>1. PICK x \in {"reporting", "persisting", "closing"} : stage' = [stage EXCEPT ![r] = x]
    BY Ends DEF ContextFails
  <2>2. stage[r] \in Going BY DEF ContextFails
  <2> QED BY <2>1, <2>2 DEF ContextFails
<1>10. CASE \E r \in Runs : LoopSettles(r)
  <2> PICK r \in Runs : LoopSettles(r) BY <1>10
  <2>1. PICK x \in {"wrapping", "erring"} : stage' = [stage EXCEPT ![r] = x]
    BY DEF LoopSettles
  <2>2. stage[r] \in Going BY DEF LoopSettles
  <2> QED BY <2>1, <2>2 DEF LoopSettles
<1>11. CASE \E r \in Runs : WrapUp(r)
  <2> PICK r \in Runs : WrapUp(r) BY <1>11
  <2>1. PICK x \in {"reporting", "persisting", "closing"} : stage' = [stage EXCEPT ![r] = x]
    BY Ends DEF WrapUp
  <2>2. stage[r] \in Going BY DEF WrapUp
  <2> QED BY <2>1, <2>2 DEF WrapUp
<1>12. CASE \E r \in Runs : Publish(r) BY <1>12 DEF Publish, Add
<1>13. CASE \E r \in Runs : PersistFails(r)
  <2> PICK r \in Runs : PersistFails(r) BY <1>13
  <2>1. PICK x \in {"reporting", "persisting", "closing"} : stage' = [stage EXCEPT ![r] = x]
    BY Ends DEF PersistFails
  <2>2. stage[r] \in Going BY DEF PersistFails
  <2> QED BY <2>1, <2>2 DEF PersistFails
<1>14. CASE \E r \in Runs : ReportError(r) BY <1>14 DEF ReportError, Add
<1>15. CASE \E r \in Runs : Close(r)
  <2> PICK r \in Runs : Close(r) BY <1>15
  <2>1. \A q \in Runs : stage'[q] \in Going =>
          /\ q # r /\ stage'[q] = stage[q] /\ owner'[q] = owner[q] /\ owner[q] \in Views
    BY Closed DEF Going, Locked, Types, RunTypes
  <2>2. \A q \in Runs : refs[owner[q]].active = q /\ q # r /\ owner[q] \in Views =>
          refs'[owner[q]] = refs[owner[q]]
    BY Closed
  <2> QED BY <2>1, <2>2, Closed DEF LatestIsFollowed
<1>16. CASE \E r \in Runs : Withdraw(r)
  BY <1>16 DEF Withdraw, Live, Destroyed, Cancelled, ResetSession
<1>17. CASE \E r \in Runs, changed \in BOOLEAN : Obtain(r, changed)
  <2> PICK r \in Runs, changed \in BOOLEAN : Obtain(r, changed) BY <1>17
  <2>1. /\ stage[r] = "preparing" /\ \A q \in Runs : q # r => stage'[q] = stage[q]
        /\ UNCHANGED <<latest, owner>> /\ owner[r] \in Views
        /\ refs' = [refs EXCEPT ![owner[r]].service = uses'[r]]
    BY DEF Obtain
  <2>2. \A v \in Views : refs'[v].active = refs[v].active BY <2>1 DEF RefSets
  <2> QED BY <2>1, <2>2
<1>18. CASE \E s \in Runs : Watchdog(s) BY <1>18 DEF Watchdog, TimedOut
<1>19. CASE Stop
  BY <1>19, Stopped
<1>20. CASE Remount BY <1>20 DEF Remount
<1> QED BY <1>1, <1>2, <1>3, <1>4, <1>5, <1>6, <1>7, <1>8, <1>9, <1>10, <1>11, <1>12, <1>13,
     <1>14, <1>15, <1>16, <1>17, <1>18, <1>19, <1>20 DEF Next, Prepare, Settle, Failure

\* Who a stop is noted for: runs that began, and are halted.
LEMMA StoppedHalted ==
    ASSUME Inv, LatestIsFollowed, StoppedIsHalted, [Next]_vars
    PROVE  StoppedIsHalted'
<1> USE DEF Inv, StoppedIsHalted
<1>1. ASSUME NEW r \in stopped PROVE r \in Runs /\ stage'[r] # "unused" /\ Halted(r)'
  BY <1>1, BeganStays, HaltedStays
<1>2. CASE Stop
  <2>1. ASSUME NEW r \in Runs, r = latest, Live(r), Reaches(r)
        PROVE  stage'[r] # "unused" /\ Halted(r)'
    <3>1. stage[r] \in Going /\ stage[r] # "unused" BY <2>1 DEF Live, Going, Locked
    <3>2. refs[owner[r]].active = r BY <2>1, <3>1 DEF LatestIsFollowed
    <3>3. CASE owner[r] = view BY <1>2, <3>1, <3>2, <3>3, StopHalts, BeganStays
    <3>4. CASE StopTarget # None /\ service[StopTarget].activeRun = r
      BY <1>2, <3>1, <3>4, TargetHalts, BeganStays
    <3> QED BY <2>1, <3>3, <3>4 DEF Reaches
  <2> QED BY <1>1, <1>2, <2>1 DEF Stop
<1>3. CASE stopped' \subseteq stopped BY <1>1, <1>3
<1>4. Stop \/ stopped' \subseteq stopped
  BY DEF Next, Prepare, Settle, Failure, vars, Start, StartChat, EndChat, StopBeforeLoop,
     PreparationFails, ProcessMessage, ContextReady, ContextFails, LoopSettles, WrapUp, Publish,
     PersistFails, ReportError, Close, Withdraw, Remount, Watchdog, Obtain
<1> QED BY <1>2, <1>3, <1>4

\* The invariant holds at first.
LEMMA Initially ==
    ASSUME Init
    PROVE  Inv /\ LatestIsFollowed /\ StoppedIsHalted
<1> USE RunAssumption, ViewAssumption DEF RunAssumption, ViewAssumption, Init
<1>1. ViewTypes BY DEF ViewTypes, Views, RefSets, NoRefs, Ids
<1>2. RunTypes BY DEF RunTypes, Views, Stages, Ids
<1>3. ServiceTypes BY DEF ServiceTypes, Services, NewService, Ids
<1>4. LockInv
  BY DEF LockInv, LockGuardsSession, SessionBelongsToRun, LockIsHeldInside, Unsettled, NewService,
     Locked, None, Runs
<1>5. OrderInv
  <2>1. \A q \in Runs : ~(q <= latest) BY DEF Runs, None
  <2> QED BY <2>1 DEF OrderInv, MessagesInOrder
<1>6. SlotInv BY DEF SlotInv, SlotHeld, ViewFollows, NoRefs
<1>7. TurnInv /\ LatestIsFollowed /\ StoppedIsHalted
  BY DEF TurnInv, Halted, LatestIsFollowed, StoppedIsHalted, Going, Locked
<1> QED BY <1>1, <1>2, <1>3, <1>4, <1>5, <1>6, <1>7 DEF Inv, Types

\* Every step keeps the invariant.
LEMMA InvStep ==
    ASSUME Inv, [Next]_vars
    PROVE  Inv'
BY ViewTypesStep, RunTypesStep, ServiceTypesStep, LockInvStep, OrderInvStep, SlotInvStep,
   TurnInvStep DEF Inv, Types

\* The invariant holds.
LEMMA Invariant == Spec => []Inv
<1>1. Init => Inv BY Initially
<1> QED BY <1>1, InvStep, PTL DEF Spec

----------------------------------------------------------------------------
\* The lock of an AgentService and what it guards agree: a run inside processMessage holds the
\* lock and finds its own session, though a stop, a withdrawal or a newer run may reach the
\* service meanwhile; and a lock that is held is held by a run that is inside
\* (AgentService.ts, processMessage and cancelProcessing).
THEOREM LockIsSound == Spec => []LockGuardsSession
<1>1. Inv => LockGuardsSession BY DEF Inv, LockInv
<1> QED BY <1>1, Invariant, PTL

\* Answers and error messages are added in the order of the requests, although a stopped run
\* may settle after its successor has answered (usePlanningMode.ts, the ownership tests).
THEOREM AnswersInOrder == Spec => []MessagesInOrder
<1>1. Inv => MessagesInOrder BY DEF Inv, OrderInv
<1> QED BY <1>1, Invariant, PTL

\* The runs of a context take turns: never two loops that go on working, and the send slot is
\* not kept by a run that has ended (chatStore.startSending and finishSending).
THEOREM TurnsAreTaken == Spec => []RunsTakeTurns
<1>1. ASSUME Inv PROVE OneLiveLoop
  <2> SUFFICES ASSUME NEW r \in Runs, NEW q \in Runs, r # q,
                      stage[r] = "looping", stage[q] = "looping"
               PROVE  "cancelled" \in {service[uses[r]].loop, service[uses[q]].loop}
    BY DEF OneLiveLoop
  <2>1. Halted(r) \/ Halted(q) BY <1>1 DEF Inv, TurnInv
  <2> QED BY <2>1 DEF Halted
<1>2. ASSUME Inv PROVE SlotIsReturned
  BY <1>2 DEF Inv, SlotInv, SlotHeld, SlotIsReturned, Going, Locked
<1>3. Inv => RunsTakeTurns BY <1>1, <1>2 DEF RunsTakeTurns
<1> QED BY <1>3, Invariant, PTL

\* No answer appears for a request the user has withdrawn meanwhile (usePlanningMode.ts, the
\* test of isRequestStillPresent after the answer was stored).
THEOREM WithdrawnStaysSilent == Spec => NoAnswerAfterWithdrawal
<1>1. ASSUME Inv, [Next]_vars
      PROVE  [\A r \in withdrawn : ~Answered(r) => ~Answered(r)']_vars
  <2> SUFFICES ASSUME Next, NEW r \in withdrawn, ~Answered(r) PROVE ~Answered(r)' BY <1>1
  <2>1. CASE UNCHANGED published BY <2>1 DEF Answered
  <2>2. CASE \E q \in Runs \ {r}, kind \in {"answer", "error"} : Add(q, kind)
    <3> PICK q \in Runs \ {r}, kind \in {"answer", "error"} : Add(q, kind) BY <2>2
    <3> QED BY <1>1, AddedMessage DEF Inv
  <2>3. CASE \E q \in Runs : Add(q, "error") BY <1>1, <2>3, AddedMessage DEF Inv
  <2>4. \/ UNCHANGED published
        \/ \E q \in Runs \ {r} : Add(q, "answer")
        \/ \E q \in Runs : Add(q, "error")
    BY DEF Next, Prepare, Settle, Failure, Start, StartChat, EndChat, StopBeforeLoop,
       PreparationFails, ProcessMessage, ContextReady, ContextFails, LoopSettles, WrapUp, Publish,
       MayPublish, Present, PersistFails, ReportError, Close, Withdraw, Remount, Watchdog, Obtain,
       Stop
  <2> QED BY <2>1, <2>2, <2>3, <2>4
<1> QED BY <1>1, Invariant, PTL DEF Spec, NoAnswerAfterWithdrawal

\* A stop stops: the run it reaches, by its view or by the service it is in, is never again inside
\* a loop that goes on, also when it had no service yet (usePlanningMode.ts, stopPlanningTask and
\* the pre-cancel guards).
THEOREM StopsAreHonoured == Spec => []StopIsHonoured
<1>1. Init => Inv /\ LatestIsFollowed /\ StoppedIsHalted BY Initially
<1>2. ASSUME Inv /\ LatestIsFollowed /\ StoppedIsHalted, [Next]_vars
      PROVE  (Inv /\ LatestIsFollowed /\ StoppedIsHalted)'
  BY <1>2, InvStep, LatestStep, StoppedHalted DEF Inv
<1>3. StoppedIsHalted => StopIsHonoured
  BY DEF StoppedIsHalted, StopIsHonoured, HonoursStop, Halted
<1> QED BY <1>1, <1>2, <1>3, PTL DEF Spec
=============================================================================
