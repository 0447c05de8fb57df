-------------------------- MODULE DiffHistoryProofs --------------------------
(***************************************************************************)
(* Proofs about undo, redo and rollback of a reviewed file, for any number *)
(* of operations, versions and decisions, any depth of the history and any *)
(* number of attempts of a repair.                                         *)
(*                                                                         *)
(* The file follows the panel because of who wrote last: its reply is the  *)
(* last of the queue, and whoever handles it finds the file right or       *)
(* writes again (LastTended, Synced).  This rests on what an operation may *)
(* rely on as long as it is the newest one (OpInv, SeenInv), which needs   *)
(* that a decision always shows in the undo stack (Fits).                  *)
(***************************************************************************)
EXTENDS DiffHistory, SequenceTheorems, TLAPS

USE DEF panel, generations

Kinds == {"none", "rollback", "undo", "redo"}
Places == {"idle", "compute", "write", "written", "repair", "repaired"}
Ops == [pc : Places, kind : Kinds, to : Texts, load : Nat, content : Texts, pending : BOOLEAN,
        undo : Seq(Entries), redo : Seq(Entries), attempt : Nat, seen : Seen]
Owners == ({"agent"} \X (1 .. MaxWrites)) \cup ({"op"} \X Operations)

PanelTypes ==
    /\ disk \in Texts /\ content \in Texts /\ pending \in BOOLEAN
    /\ undo \in Seq(Entries) /\ redo \in Seq(Entries)

WorkTypes ==
    /\ mutGen \in 0 .. MaxOps /\ written \in Texts /\ loadGen \in 0 .. written
    /\ replies \in Seq(Owners)
    /\ unsynced \in BOOLEAN /\ touched \in BOOLEAN

OpTypes == ops \in [Operations -> Ops]

\* The newest load is the one of version loadGen; what it publishes is there while it runs.
LoadInv ==
    /\ loads \in [1 .. MaxWrites -> Nat]
    /\ \A v \in 1 .. MaxWrites : loads[v] \in {0, v} /\ (loads[v] # 0 => v <= loadGen)
    /\ activeLoad = IF loadGen = 0 THEN 0 ELSE loads[loadGen]
    /\ target = [gen |-> activeLoad, text |-> activeLoad]

Types == PanelTypes /\ WorkTypes /\ OpTypes /\ LoadInv

\* The agent's replies are those of the versions after loadGen, in order; an operation waits for
\* at most one.
QueueInv ==
    /\ \A i \in DOMAIN replies :
         /\ replies[i][1] = "agent" => replies[i][2] > loadGen /\ replies[i][2] <= written
         /\ replies[i][1] = "op" => ops[replies[i][2]].pc \in {"written", "repaired"}
    /\ \A i, j \in DOMAIN replies :
         /\ replies[i] = replies[j] => i = j
         /\ i < j /\ replies[i][1] = "agent" /\ replies[j][1] = "agent" => replies[i][2] < replies[j][2]
    /\ \A v \in loadGen + 1 .. written : \E i \in DOMAIN replies : replies[i] = <<"agent", v>>

\* What the panel shows once the load under way is through.
Coming == IF activeLoad # 0 THEN activeLoad ELSE content

Open(k) == ops[k].pc \in {"compute", "write", "written"}
Same(k) ==
    LET o == ops[k] IN content = o.content /\ pending = o.pending /\ undo = o.undo /\ redo = o.redo
Decided(k) == ~pending /\ ops[k].pending /\ undo # ops[k].undo

\* The newest operation, when no load has started since.
Newest(k) == k = mutGen /\ Open(k) /\ ops[k].load = loadGen

\* What an operation may rely on.
OpPart(k) ==
    /\ ops[k].pc # "idle" =>
         /\ k <= mutGen /\ ops[k].load <= loadGen
         /\ ops[k].load = loadGen => activeLoad = 0
         /\ ops[k].seen.load <= loadGen /\ ops[k].seen.mut <= mutGen
    /\ Newest(k) => touched /\ (Same(k) \/ Decided(k))
    /\ Open(k) =>
         /\ ops[k].kind # "none"
         /\ ops[k].kind = "undo" => ops[k].undo # <<>> /\ ops[k].to = Last(ops[k].undo).before
         /\ ops[k].kind = "redo" => ops[k].redo # <<>> /\ ops[k].to = Last(ops[k].redo).after
OpInv == \A k \in Operations : OpPart(k)

\* A repair that has seen all there is while the newest operation may still be committed has seen
\* the content that operation started from.
SeenPart(k, n) ==
    /\ ops[k].pc \in {"repair", "repaired"}
    /\ ops[k].seen.load = loadGen /\ ops[k].seen.mut = mutGen
    /\ Newest(n) /\ Same(n)
    => ops[k].seen.text = content
SeenInv == \A k, n \in Operations : SeenPart(k, n)

\* HistoryFits, and the same of the pending mark: undo leads to what is shown, redo comes back.
Leads(s, c, p) ==
    /\ \A i \in 1 .. Len(s) - 1 : s[i].after = s[i + 1].before /\ s[i].pendingAfter = s[i + 1].pendingBefore
    /\ s # <<>> => s[Len(s)].after = c /\ s[Len(s)].pendingAfter = p
Returns(s, c, p) ==
    /\ \A i \in 1 .. Len(s) - 1 : s[i + 1].after = s[i].before /\ s[i + 1].pendingAfter = s[i].pendingBefore
    /\ s # <<>> => s[Len(s)].before = c /\ s[Len(s)].pendingBefore = p

Fits == Leads(undo, content, pending) /\ Returns(redo, content, pending)

\* What a repair has seen is still so.
UpToDate(k) == ops[k].seen.load = loadGen /\ ops[k].seen.mut = mutGen /\ ops[k].seen.text = Coming

\* Whoever wrote last has its reply last, and will see to it that the file is right.
Tended(r) ==
    /\ r[1] = "agent" => disk = r[2]
    /\ r[1] = "op" /\ ops[r[2]].pc = "written" /\ IsCurrent(r[2]) => disk = ops[r[2]].to
    /\ r[1] = "op" /\ ops[r[2]].pc = "repaired" /\ UpToDate(r[2]) => disk = Coming
LastTended == ~unsynced /\ replies # <<>> => Tended(replies[Len(replies)])

NoRepair == \A k \in Operations : ops[k].pc # "repair"
Synced == ~unsynced /\ replies = <<>> /\ NoRepair => disk = Coming

LoadShown == ~unsynced /\ ~touched => content = loadGen \/ activeLoad # 0

Inv == Types /\ QueueInv /\ OpInv /\ SeenInv /\ Fits /\ LastTended /\ Synced /\ LoadShown

-----------------------------------------------------------------------------
(* Stacks and queues *)

\* A stack that has got an entry has it on top; below it is what was there, but for the oldest.
Pushed(t, s, e) ==
    /\ t # <<>> /\ Len(t) \in {Len(s), Len(s) + 1} /\ Len(t) \in Nat \ {0} /\ t[Len(t)] = e
    /\ Len(t) = Len(s) + 1 => \A i \in 1 .. Len(s) : t[i] = s[i]
    /\ Len(t) = Len(s) => \A i \in 1 .. Len(s) - 1 : t[i] = s[i + 1]

\* What Push does to a stack (pushHistoryEntry).
LEMMA PushFacts ==
    ASSUME NEW S, NEW s \in Seq(S), NEW e \in S
    PROVE  Push(s, e) \in Seq(S) /\ Pushed(Push(s, e), s, e)
<1> DEFINE a == Append(s, e)
<1>1. /\ a \in Seq(S) /\ a # <<>> /\ Len(a) = Len(s) + 1 /\ a[Len(s) + 1] = e
      /\ \A i \in 1 .. Len(s) : a[i] = s[i]
  BY AppendProperties
<1>2. Len(s) \in Nat /\ MaxDepth \in Nat \ {0}
  BY LenProperties, DiffHistoryAssumption DEF DiffHistoryAssumption
<1>3. CASE Len(s) = MaxDepth
  <2>1. Push(s, e) = Tail(a) BY <1>3 DEF Push
  <2>2. Tail(a) \in Seq(S) /\ Len(Tail(a)) = Len(s) /\ \A i \in 1 .. Len(s) : Tail(a)[i] = a[i + 1]
    BY <1>1, <1>2, HeadTailProperties
  <2>3. Tail(a)[Len(s)] = e BY <1>1, <1>2, <1>3, <2>2
  <2>4. Tail(a) # <<>> BY <1>2, <1>3, <2>2, EmptySeq
  <2> HIDE DEF a
  <2> QED BY <1>1, <1>2, <1>3, <2>1, <2>2, <2>3, <2>4 DEF Pushed
<1>4. CASE Len(s) # MaxDepth
  <2>1. Push(s, e) = a BY <1>4 DEF Push
  <2> HIDE DEF a
  <2> QED BY <1>1, <1>2, <2>1 DEF Pushed
<1> QED BY <1>3, <1>4

\* What is left of a stack without its top.
LEMMA FrontFacts ==
    ASSUME NEW S, NEW s \in Seq(S), s # <<>>
    PROVE  /\ Front(s) \in Seq(S) /\ Len(s) \in Nat \ {0} /\ Len(Front(s)) = Len(s) - 1
           /\ \A i \in 1 .. Len(s) - 1 : Front(s)[i] = s[i]
           /\ Last(s) = s[Len(s)] /\ Last(s) \in S
<1>1. Len(s) \in Nat \ {0} BY LenProperties, EmptySeq
<1>2. \A i \in 1 .. Len(s) : s[i] \in S BY ElementOfSeq
<1>3. Front(s) = SubSeq(s, 1, Len(s) - 1) BY DEF Front
<1> DEFINE n == Len(s) - 1
<1>4. n \in Int /\ 1 \in Int /\ \A i \in 1 .. n : s[i] \in S BY <1>1, <1>2
<1> HIDE DEF n
<1>5. /\ SubSeq(s, 1, n) \in Seq(S)
      /\ Len(SubSeq(s, 1, n)) = IF 1 <= n THEN n - 1 + 1 ELSE 0
      /\ \A i \in 1 .. n - 1 + 1 : SubSeq(s, 1, n)[i] = s[1 + i - 1]
  BY <1>4, SubSeqProperties
<1>9. n \in Nat BY <1>1 DEF n
<1>6. Len(SubSeq(s, 1, n)) = n /\ n \in Nat BY <1>5, <1>9
<1>8. ASSUME NEW i \in 1 .. n PROVE SubSeq(s, 1, n)[i] = s[i]
  <2>1. i \in 1 .. n - 1 + 1 /\ 1 + i - 1 = i BY <1>6
  <2> QED BY <1>5, <2>1
<1>7. Last(s) = s[Len(s)] /\ Last(s) \in S BY <1>1, <1>2 DEF Last
<1> QED BY <1>1, <1>3, <1>5, <1>6, <1>7, <1>8 DEF n

\* A handled reply was the first; the others move up.
LEMMA HandleFacts ==
    ASSUME NEW S, replies \in Seq(S), NEW who, Handle(who)
    PROVE  /\ replies' \in Seq(S) /\ Len(replies) \in Nat \ {0} /\ Len(replies') = Len(replies) - 1
           /\ replies[1] = who /\ replies # <<>>
           /\ DOMAIN replies = 1 .. Len(replies) /\ DOMAIN replies' = 1 .. Len(replies) - 1
           /\ \A i \in 1 .. Len(replies) - 1 : replies'[i] = replies[i + 1]
BY HeadTailProperties, LenProperties, EmptySeq DEF Handle

\* A write that lands puts one reply at the end of the queue.
LEMMA LandFacts ==
    ASSUME NEW S, replies \in Seq(S), NEW who \in S, NEW text, Land(who, text)
    PROVE  /\ replies' \in Seq(S) /\ Len(replies) \in Nat /\ Len(replies') = Len(replies) + 1
           /\ replies' # <<>> /\ replies'[Len(replies) + 1] = who
           /\ DOMAIN replies = 1 .. Len(replies) /\ DOMAIN replies' = 1 .. Len(replies) + 1
           /\ \A i \in 1 .. Len(replies) : replies'[i] = replies[i]
BY AppendProperties, LenProperties, EmptySeq DEF Land

-----------------------------------------------------------------------------
(* Chains *)

LEMMA LeadsPush ==
    ASSUME NEW s \in Seq(Entries), NEW c, NEW p, Leads(s, c, p),
           NEW e \in Entries, e.before = c, e.pendingBefore = p
    PROVE  Leads(Push(s, e), e.after, e.pendingAfter)
<1> DEFINE t == Push(s, e)
<1>1. t \in Seq(Entries) /\ Pushed(t, s, e) BY PushFacts
<1>2. Len(s) \in Nat /\ (Len(s) = 0 <=> s = <<>>) BY LenProperties, EmptySeq
<1> HIDE DEF t
<1> USE DEF Pushed
<1> SUFFICES ASSUME NEW i \in 1 .. Len(t) - 1
             PROVE  t[i].after = t[i + 1].before /\ t[i].pendingAfter = t[i + 1].pendingBefore
  BY <1>1 DEF Leads, t
<1>3. CASE Len(t) = Len(s) + 1
  <2>1. t[i] = s[i] BY <1>1, <1>2, <1>3
  <2>2. CASE i = Len(s) BY <1>1, <1>2, <1>3, <2>1, <2>2 DEF Leads
  <2>3. CASE i # Len(s)
    <3>1. i + 1 \in 1 .. Len(s) /\ i \in 1 .. Len(s) - 1 BY <1>2, <1>3, <2>3
    <3>2. t[i + 1] = s[i + 1] BY <1>1, <1>3, <3>1
    <3> QED BY <2>1, <3>1, <3>2 DEF Leads
  <2> QED BY <2>2, <2>3
<1>4. CASE Len(t) = Len(s)
  <2>1. t[i] = s[i + 1] BY <1>1, <1>2, <1>4
  <2>2. CASE i + 1 = Len(s) BY <1>1, <1>2, <1>4, <2>1, <2>2 DEF Leads
  <2>3. CASE i + 1 # Len(s)
    <3>1. i + 1 \in 1 .. Len(s) - 1 BY <1>2, <1>4, <2>3
    <3>2. t[i + 1] = s[(i + 1) + 1] BY <1>1, <1>4, <3>1
    <3> QED BY <2>1, <3>1, <3>2 DEF Leads
  <2> QED BY <2>2, <2>3
<1> QED BY <1>1, <1>3, <1>4

\* An entry that ends where a redo chain starts extends the chain.
LEMMA ReturnsPush ==
    ASSUME NEW s \in Seq(Entries), NEW c, NEW p, Returns(s, c, p),
           NEW e \in Entries, e.after = c, e.pendingAfter = p
    PROVE  Returns(Push(s, e), e.before, e.pendingBefore)
<1> DEFINE t == Push(s, e)
<1>1. t \in Seq(Entries) /\ Pushed(t, s, e) BY PushFacts
<1>2. Len(s) \in Nat /\ (Len(s) = 0 <=> s = <<>>) BY LenProperties, EmptySeq
<1> HIDE DEF t
<1> USE DEF Pushed
<1> SUFFICES ASSUME NEW i \in 1 .. Len(t) - 1
             PROVE  t[i + 1].after = t[i].before /\ t[i + 1].pendingAfter = t[i].pendingBefore
  BY <1>1 DEF Returns, t
<1>3. CASE Len(t) = Len(s) + 1
  <2>1. t[i] = s[i] BY <1>1, <1>2, <1>3
  <2>2. CASE i = Len(s) BY <1>1, <1>2, <1>3, <2>1, <2>2 DEF Returns
  <2>3. CASE i # Len(s)
    <3>1. i + 1 \in 1 .. Len(s) /\ i \in 1 .. Len(s) - 1 BY <1>2, <1>3, <2>3
    <3>2. t[i + 1] = s[i + 1] BY <1>1, <1>3, <3>1
    <3> QED BY <2>1, <3>1, <3>2 DEF Returns
  <2> QED BY <2>2, <2>3
<1>4. CASE Len(t) = Len(s)
  <2>1. t[i] = s[i + 1] BY <1>1, <1>2, <1>4
  <2>2. CASE i + 1 = Len(s) BY <1>1, <1>2, <1>4, <2>1, <2>2 DEF Returns
  <2>3. CASE i + 1 # Len(s)
    <3>1. i + 1 \in 1 .. Len(s) - 1 BY <1>2, <1>4, <2>3
    <3>2. t[i + 1] = s[(i + 1) + 1] BY <1>1, <1>4, <3>1
    <3> QED BY <2>1, <3>1, <3>2 DEF Returns
  <2> QED BY <2>2, <2>3
<1> QED BY <1>1, <1>3, <1>4

\* Without its top, a chain belongs to the other end of the top.
LEMMA FrontChains ==
    ASSUME NEW s \in Seq(Entries), s # <<>>, NEW c, NEW p
    PROVE  /\ Leads(s, c, p) => Leads(Front(s), Last(s).before, Last(s).pendingBefore)
           /\ Returns(s, c, p) => Returns(Front(s), Last(s).after, Last(s).pendingAfter)
<1> DEFINE t == Front(s)
<1>1. /\ t \in Seq(Entries) /\ Len(s) \in Nat \ {0} /\ Len(t) = Len(s) - 1
      /\ \A i \in 1 .. Len(s) - 1 : t[i] = s[i]
      /\ Last(s) = s[Len(s)]
  BY FrontFacts
<1>2. Len(t) \in Nat /\ (Len(t) = 0 <=> t = <<>>) BY <1>1, EmptySeq
<1> HIDE DEF t, Entries
<1>3. ASSUME t # <<>>
      PROVE  /\ Len(t) \in 1 .. Len(s) - 1 /\ t[Len(t)] = s[Len(t)] /\ Last(s) = s[Len(t) + 1]
  BY <1>1, <1>2, <1>3
<1>4. ASSUME NEW i \in 1 .. Len(t) - 1
      PROVE  i \in 1 .. Len(s) - 1 /\ t[i] = s[i] /\ t[i + 1] = s[i + 1]
  BY <1>1, <1>2
<1>5. Leads(s, c, p) => Leads(t, Last(s).before, Last(s).pendingBefore) BY <1>3, <1>4 DEF Leads
<1>6. Returns(s, c, p) => Returns(t, Last(s).after, Last(s).pendingAfter) BY <1>3, <1>4 DEF Returns
<1> QED BY <1>5, <1>6 DEF t

-----------------------------------------------------------------------------
(* What the actions do to loads and operations *)

LEMMA LoadFacts ==
    ASSUME Types
    PROVE  /\ activeLoad \in {0, loadGen} /\ activeLoad \in Nat /\ loadGen \in Nat /\ loadGen <= written
           /\ written \in 0 .. MaxWrites /\ MaxWrites \in Nat
           /\ target.gen = activeLoad /\ target.text = activeLoad
           /\ loadGen # 0 => loadGen \in 1 .. MaxWrites /\ activeLoad = loads[loadGen]
BY DiffHistoryAssumption DEF DiffHistoryAssumption, Types, WorkTypes, LoadInv, Texts

\* A load that ends is the newest one, which then was the active one, or it is of no effect.
LEMMA EndLoadFacts ==
    ASSUME Types, NEW v \in 1 .. MaxWrites, loads[v] # 0, EndLoad(v)
    PROVE  /\ LoadInv' /\ loads[v] = v /\ v <= loadGen
           /\ v = loadGen => activeLoad = v /\ activeLoad' = 0
           /\ v # loadGen => activeLoad' = activeLoad /\ target' = target
           /\ \A w \in 1 .. MaxWrites : w # v => loads'[w] = loads[w]
<1> USE LoadFacts
<1>1. loads[v] = v /\ v <= loadGen /\ v \in Nat BY DEF Types, LoadInv
<1>2. /\ loads' \in [1 .. MaxWrites -> Nat] /\ loads'[v] = 0
      /\ \A w \in 1 .. MaxWrites : w # v => loads'[w] = loads[w]
  BY DEF EndLoad, Types, LoadInv
<1>3. loadGen' = loadGen BY DEF EndLoad
<1>4. CASE v = loadGen
  <2>1. activeLoad = v /\ activeLoad' = 0 /\ target' = NoTarget BY <1>1, <1>4 DEF EndLoad
  <2> QED BY <1>1, <1>2, <1>3, <1>4, <2>1 DEF Types, LoadInv, NoTarget
<1>5. CASE v # loadGen
  <2>1. activeLoad' = activeLoad /\ target' = target BY <1>1, <1>5 DEF EndLoad
  <2> QED BY <1>1, <1>2, <1>3, <1>5, <2>1 DEF Types, LoadInv
<1> QED BY <1>4, <1>5

\* The agent's versions are loaded in the order of their writes.
LEMMA HeadAgent ==
    ASSUME Types, QueueInv, NEW v \in 1 .. MaxWrites, Handle(<<"agent", v>>)
    PROVE  v = loadGen + 1 /\ v <= written
<1>1. /\ Len(replies) \in Nat \ {0} /\ replies[1] = <<"agent", v>> /\ DOMAIN replies = 1 .. Len(replies)
  BY HandleFacts DEF Types, WorkTypes
<1>2. v > loadGen /\ v <= written BY <1>1 DEF QueueInv
<1>3. loadGen + 1 \in loadGen + 1 .. written BY <1>2, LoadFacts
<1>4. PICK i \in DOMAIN replies : replies[i] = <<"agent", loadGen + 1>> BY <1>3 DEF QueueInv
<1>5. i # 1 => replies[1][2] < replies[i][2] BY <1>1, <1>4 DEF QueueInv
<1> QED BY <1>1, <1>2, <1>4, <1>5, LoadFacts

\* A load starts for the oldest version that has none, and becomes the newest.
LEMMA StartLoadFacts ==
    ASSUME Types, QueueInv, NEW v \in 1 .. MaxWrites, StartLoad(v)
    PROVE  LoadInv' /\ v = loadGen + 1 /\ v <= written /\ loadGen' = v /\ activeLoad' = v
<1>1. v = loadGen + 1 /\ v <= written BY HeadAgent DEF StartLoad
<1>2. /\ loads' = [loads EXCEPT ![v] = v] /\ loadGen' = v /\ activeLoad' = v
      /\ target' = [gen |-> v, text |-> v]
  BY <1>1 DEF StartLoad
<1>3. v # 0 BY LoadFacts
<1> QED BY <1>1, <1>2, <1>3, LoadFacts DEF Types, LoadInv

\* How an action changes one operation: the others stay, and so does what it took when it began.
Only(k) == \A j \in Operations \ {k} : ops'[j] = ops[j]
KeepsTaken(k) ==
    /\ ops'[k].kind = ops[k].kind /\ ops'[k].to = ops[k].to /\ ops'[k].load = ops[k].load
    /\ ops'[k].content = ops[k].content /\ ops'[k].pending = ops[k].pending
    /\ ops'[k].undo = ops[k].undo /\ ops'[k].redo = ops[k].redo
Moves(k, place) == Only(k) /\ KeepsTaken(k) /\ ops'[k].pc = place /\ ops'[k].seen = ops[k].seen
Leaves(k) == Only(k) /\ ops'[k].pc = "idle"
Repairs(k) ==
    /\ Only(k) /\ KeepsTaken(k) /\ ops'[k].pc = "repair"
    /\ ops'[k].seen.load = loadGen /\ ops'[k].seen.mut = mutGen /\ ops'[k].seen.text = CurrentTarget(k)
Takes(k, kind, place, text) ==
    /\ Only(k) /\ ops'[k].pc = place /\ ops'[k].kind = kind /\ ops'[k].to = text
    /\ ops'[k].load = loadGen /\ ops'[k].content = content /\ ops'[k].pending = pending
    /\ ops'[k].undo = undo /\ ops'[k].redo = redo
    /\ ops'[k].seen.load = 0 /\ ops'[k].seen.mut = 0

\* The empty record is one.
LEMMA NoOpType == NoOp \in Ops
<1>1. <<>> \in Seq(Entries) BY EmptySeq
<1>2. [load |-> 0, mut |-> 0, text |-> 0] \in Seen
  BY DiffHistoryAssumption DEF DiffHistoryAssumption, Seen, Texts
<1>3. 0 \in Texts BY DiffHistoryAssumption DEF DiffHistoryAssumption, Texts
<1> QED BY <1>1, <1>2, <1>3 DEF NoOp, Ops, Places, Kinds

\* An operation that goes on keeps all it took.
LEMMA MovesFacts ==
    ASSUME OpTypes, NEW k \in Operations, NEW place \in Places, ops' = [ops EXCEPT ![k].pc = place]
    PROVE  OpTypes' /\ Moves(k, place)
<1> USE DEF OpTypes
<1>1. ops[k] \in Ops BY DEF OpTypes
<1> DEFINE o == [ops[k] EXCEPT !.pc = place]
<1>2. o \in Ops BY <1>1 DEF Ops
<1>3. /\ o.pc = place /\ o.seen = ops[k].seen
      /\ o.kind = ops[k].kind /\ o.to = ops[k].to /\ o.load = ops[k].load
      /\ o.content = ops[k].content /\ o.pending = ops[k].pending
      /\ o.undo = ops[k].undo /\ o.redo = ops[k].redo
  BY <1>1 DEF Ops
<1>4. ops' = [ops EXCEPT ![k] = o] OBVIOUS
<1> HIDE DEF o
<1>5. ops' \in [Operations -> Ops] /\ ops'[k] = o /\ Only(k) BY <1>2, <1>4 DEF Only
<1> QED BY <1>3, <1>5 DEF Moves, KeepsTaken

\* An operation that ends leaves the others alone.
LEMMA LeavesFacts ==
    ASSUME OpTypes, NEW k \in Operations, ops' = [ops EXCEPT ![k] = NoOp]
    PROVE  OpTypes' /\ Leaves(k)
<1>1. NoOp.pc = "idle" BY DEF NoOp
<1> QED BY <1>1, NoOpType DEF OpTypes, Leaves, Only

\* A repair takes what it sees now.
LEMMA RepairsFacts ==
    ASSUME Types, NEW k \in Operations, NEW attempt \in Nat, Repair(k, attempt)
    PROVE  OpTypes' /\ Repairs(k)
<1> USE DEF OpTypes
<1>1. ops[k] \in Ops BY DEF Types
<1>2. CurrentTarget(k) \in Texts BY LoadFacts DEF CurrentTarget, Types, PanelTypes, Texts
<1>3. loadGen \in Nat /\ mutGen \in Nat BY LoadFacts DEF Types, WorkTypes
<1>4. SeenBy(k) \in Seen BY <1>2, <1>3 DEF SeenBy, Seen
<1> DEFINE o == [ops[k] EXCEPT !.pc = "repair", !.attempt = attempt, !.seen = SeenBy(k)]
<1>5. o \in Ops BY <1>1, <1>4 DEF Ops, Places
<1>6. /\ o.pc = "repair" /\ o.seen = SeenBy(k)
      /\ o.kind = ops[k].kind /\ o.to = ops[k].to /\ o.load = ops[k].load
      /\ o.content = ops[k].content /\ o.pending = ops[k].pending
      /\ o.undo = ops[k].undo /\ o.redo = ops[k].redo
  BY <1>1 DEF Ops
<1>7. ops' = [ops EXCEPT ![k] = o] BY DEF Repair, Types
<1> HIDE DEF o
<1>8. ops' \in [Operations -> Ops] /\ ops'[k] = o /\ Only(k) BY <1>5, <1>7 DEF Only, Types
<1> QED BY <1>6, <1>8 DEF Repairs, KeepsTaken, SeenBy

\* An operation that begins gets the next number and takes what the panel shows.
LEMMA TakesFacts ==
    ASSUME Types, NEW kind \in Kinds, NEW place \in Places, NEW text \in Texts, Begin(kind, place, text)
    PROVE  OpTypes' /\ mutGen + 1 \in Operations /\ Takes(mutGen + 1, kind, place, text)
<1> DEFINE k == mutGen + 1
           o == [NoOp EXCEPT !.pc = place, !.kind = kind, !.to = text, !.load = loadGen, !.content = content,
                             !.pending = pending, !.undo = undo, !.redo = redo]
<1>1. k \in Operations
  BY DiffHistoryAssumption DEF DiffHistoryAssumption, Begin, Types, WorkTypes, Operations
<1>2. loadGen \in Nat BY LoadFacts
<1>3. o \in Ops BY <1>2, NoOpType DEF Ops, Types, PanelTypes
<1>4. /\ o.pc = place /\ o.kind = kind /\ o.to = text /\ o.load = loadGen /\ o.content = content
      /\ o.pending = pending /\ o.undo = undo /\ o.redo = redo /\ o.seen.load = 0 /\ o.seen.mut = 0
  BY DEF NoOp
<1>5. ops' = [ops EXCEPT ![k] = o] BY DEF Begin
<1> HIDE DEF o, k
<1>6. ops' \in [Operations -> Ops] /\ ops'[k] = o /\ Only(k)
  BY <1>1, <1>3, <1>5 DEF Only, OpTypes, Types
<1> QED BY <1>1, <1>4, <1>6 DEF Takes, OpTypes, k

\* What a history operation makes of the queue and of itself, by place.
LEMMA OpFacts ==
    ASSUME Types, NEW k \in Operations, OpStep(k)
    PROVE  OpTypes' /\ (Leaves(k) \/ Repairs(k) \/ \E place \in Places : Moves(k, place))
<1> USE DEF Places
<1>1. OpTypes /\ ops[k].attempt + 1 \in Nat BY DEF Types, OpTypes, Ops
<1>2. CASE Computed(k) BY <1>1, <1>2, MovesFacts, LeavesFacts DEF Computed
<1>3. CASE WriteLands(k) BY <1>1, <1>3, MovesFacts DEF WriteLands
<1>4. CASE WriteFails(k) BY <1>1, <1>4, LeavesFacts DEF WriteFails
<1>5. CASE CommitOp(k) BY <1>1, <1>5, LeavesFacts DEF CommitOp
<1>6. CASE Compensate(k) BY <1>6, RepairsFacts DEF Compensate
<1>7. CASE Repaired(k) BY <1>1, <1>7, RepairsFacts, LeavesFacts DEF Repaired
<1> QED BY <1>2, <1>3, <1>4, <1>5, <1>6, <1>7 DEF OpStep

\* A step of an operation changes the record of no other one.
LEMMA OpOnly == ASSUME Types, NEW k \in Operations, OpStep(k) PROVE Only(k)
BY OpFacts DEF Leaves, Repairs, Moves

-----------------------------------------------------------------------------
(* The panel *)

LEMMA EmptyChains == ASSUME NEW c, NEW p PROVE Leads(<<>>, c, p) /\ Returns(<<>>, c, p)
BY EmptySeq DEF Leads, Returns

\* A decision always shows in the undo stack, even when it falls on a full one.
LEMMA DecideFacts ==
    ASSUME Types, Fits, NEW text \in Texts, Decide(text)
    PROVE  PanelTypes' /\ Fits' /\ undo' # undo /\ pending /\ ~pending' /\ disk' = text /\ content' = text
<1> DEFINE e == [before |-> content, after |-> text, pendingBefore |-> TRUE, pendingAfter |-> FALSE]
<1>1. content \in Texts /\ undo \in Seq(Entries) BY DEF Types, PanelTypes
<1>2. e \in Entries BY <1>1 DEF Entries
<1>3. /\ e.before = content /\ e.after = text
      /\ e.pendingBefore = TRUE /\ e.pendingAfter = FALSE
  OBVIOUS
<1>4. undo' = Push(undo, e) /\ redo' = <<>> /\ content' = text /\ disk' = text
  BY DEF Decide, RedoCleared
<1>5. pending = TRUE /\ pending' = FALSE BY Zenon DEF Decide, Types, PanelTypes
<1> HIDE DEF e
<1>6. undo' \in Seq(Entries) /\ Pushed(undo', undo, e) BY <1>1, <1>2, <1>4, PushFacts
<1>7. Leads(undo, content, e.pendingBefore) BY <1>3, <1>5 DEF Fits
<1>8. Leads(undo', content', pending') BY <1>1, <1>2, <1>3, <1>4, <1>5, <1>7, LeadsPush
<1>9. Returns(redo', content', pending') BY <1>4, EmptyChains
<1>10. undo' # undo
  <2> SUFFICES ASSUME undo' = undo PROVE FALSE OBVIOUS
  <2>1. undo # <<>> /\ undo[Len(undo)] = e BY <1>6 DEF Pushed
  <2>2. e.pendingAfter = e.pendingBefore BY <1>7, <2>1 DEF Leads
  <2> QED BY <1>3, <2>2
<1>11. redo' \in Seq(Entries) BY <1>4, EmptySeq
<1>12. PanelTypes' BY <1>4, <1>5, <1>6, <1>11 DEF PanelTypes
<1>13. Fits' BY <1>8, <1>9 DEF Fits
<1> QED BY <1>4, <1>5, <1>10, <1>12, <1>13

\* What was undone is on top of the redo stack, what was redone on top of the undo stack.
LEMMA CommitFacts ==
    ASSUME Types, OpInv, Fits, NEW k \in Operations, CommitOp(k)
    PROVE  PanelTypes' /\ Fits'
<1> DEFINE o == ops[k]
<1>1. /\ IsCurrent(k) /\ Open(k) /\ Apply(o) /\ content' = o.to /\ disk' = disk
  BY DEF CommitOp, Open
<1>2. o \in Ops BY DEF Types, OpTypes
<1>3. o.to \in Texts /\ o.kind \in Kinds BY <1>2 DEF Ops
<1>4. /\ content \in Texts /\ disk \in Texts /\ undo \in Seq(Entries) /\ redo \in Seq(Entries)
  BY DEF Types, PanelTypes
<1>5. pending \in BOOLEAN BY DEF Types, PanelTypes
<1>6. o.kind # "none" BY <1>1 DEF OpInv, OpPart
<1>7. CASE o.kind = "rollback"
  <2> DEFINE e == [before |-> content, after |-> o.to, pendingBefore |-> pending, pendingAfter |-> pending']
  <2>1. undo' = Push(undo, e) /\ redo' = <<>> BY <1>1, <1>7 DEF Apply
  <2>2. pending' \in BOOLEAN BY <1>1, <1>7, Zenon DEF Apply
  <2>3. e \in Entries BY <1>3, <1>4, <1>5, <2>2 DEF Entries
  <2>4. e.before = content /\ e.after = o.to /\ e.pendingBefore = pending /\ e.pendingAfter = pending' OBVIOUS
  <2> HIDE DEF e
  <2>5. undo' \in Seq(Entries) BY <1>4, <2>1, <2>3, PushFacts
  <2>6. Leads(undo', content', pending')
    <3>1. Leads(undo, content, pending) BY DEF Fits
    <3>2. Leads(Push(undo, e), e.after, e.pendingAfter) BY ONLY <1>4, <2>3, <2>4, <3>1, LeadsPush
    <3> QED BY <1>1, <2>1, <2>4, <3>2
  <2>7. Returns(redo', content', pending') BY <2>1, EmptyChains
  <2>8. redo' \in Seq(Entries) BY <2>1, EmptySeq
  <2> QED BY <1>1, <1>3, <1>4, <2>2, <2>5, <2>6, <2>7, <2>8 DEF PanelTypes, Fits
<1>8. CASE o.kind = "undo"
  <2> DEFINE e == Last(undo)
  <2>1. undo # <<>> /\ o.to = e.before BY <1>1, <1>8 DEF OpInv, OpPart, IsCurrent
  <2>2. undo' = Front(undo) /\ redo' = Push(redo, e) /\ pending' = e.pendingBefore
    BY <1>1, <1>8 DEF Apply
  <2>3. e \in Entries /\ e = undo[Len(undo)] /\ undo' \in Seq(Entries)
    BY <1>4, <2>1, <2>2, FrontFacts
  <2>4. redo' \in Seq(Entries) BY <1>4, <2>2, <2>3, PushFacts
  <2>5. pending' \in BOOLEAN
    <3>1. e.pendingBefore \in BOOLEAN BY <2>3 DEF Entries
    <3> QED BY <2>2, <3>1
  <2>6. Leads(undo', content', pending') BY <1>1, <1>4, <2>1, <2>2, FrontChains DEF Fits
  <2>7. Returns(redo', content', pending')
    <3>1. Leads(undo, content, pending) /\ Returns(redo, content, pending) BY DEF Fits
    <3>2. e.after = content /\ e.pendingAfter = pending BY <2>1, <2>3, <3>1 DEF Leads
    <3> HIDE DEF e
    <3>3. Returns(redo, e.after, e.pendingAfter) BY <3>1, <3>2
    <3>4. Returns(Push(redo, e), e.before, e.pendingBefore) BY ONLY <1>4, <2>3, <3>3, ReturnsPush
    <3> QED BY <1>1, <2>1, <2>2, <3>4
  <2> QED BY <1>1, <1>3, <1>4, <2>3, <2>4, <2>5, <2>6, <2>7 DEF PanelTypes, Fits
<1>9. CASE o.kind = "redo"
  <2> DEFINE e == Last(redo)
  <2>1. redo # <<>> /\ o.to = e.after BY <1>1, <1>9 DEF OpInv, OpPart, IsCurrent
  <2>2. redo' = Front(redo) /\ undo' = Push(undo, e) /\ pending' = e.pendingAfter
    BY <1>1, <1>9 DEF Apply
  <2>3. e \in Entries /\ e = redo[Len(redo)] /\ redo' \in Seq(Entries)
    BY <1>4, <2>1, <2>2, FrontFacts
  <2>4. undo' \in Seq(Entries) BY <1>4, <2>2, <2>3, PushFacts
  <2>5. pending' \in BOOLEAN
    <3>1. e.pendingAfter \in BOOLEAN BY <2>3 DEF Entries
    <3> QED BY <2>2, <3>1
  <2>6. Returns(redo', content', pending') BY <1>1, <1>4, <2>1, <2>2, FrontChains DEF Fits
  <2>7. Leads(undo', content', pending')
    <3>1. Leads(undo, content, pending) /\ Returns(redo, content, pending) BY DEF Fits
    <3>2. e.before = content /\ e.pendingBefore = pending BY <2>1, <2>3, <3>1 DEF Returns
    <3> HIDE DEF e
    <3>3. Leads(undo, e.before, e.pendingBefore) BY <3>1, <3>2
    <3>4. Leads(Push(undo, e), e.after, e.pendingAfter) BY ONLY <1>4, <2>3, <3>3, LeadsPush
    <3> QED BY <1>1, <2>1, <2>2, <3>4
  <2> QED BY <1>1, <1>3, <1>4, <2>3, <2>4, <2>5, <2>6, <2>7 DEF PanelTypes, Fits
<1> QED BY <1>3, <1>6, <1>7, <1>8, <1>9 DEF Kinds

-----------------------------------------------------------------------------
(* The steps *)

\* What an operation that begins is to write.
Fitting(kind, text) ==
    /\ kind # "none"
    /\ kind = "undo" => undo # <<>> /\ text = Last(undo).before
    /\ kind = "redo" => redo # <<>> /\ text = Last(redo).after

\* The steps the proofs below go through.
LEMMA Cases ==
    ASSUME Types, [Next]_vars
    PROVE  \/ UNCHANGED vars \/ AgentWrites
           \/ \E v \in 1 .. MaxWrites : StartLoad(v) \/ CommitLoad(v) \/ DropLoad(v) \/ LoadFails(v)
           \/ \E text \in Texts : Decide(text)
           \/ \E kind \in Kinds, place \in {"compute", "write"}, text \in Texts :
                Begin(kind, place, text) /\ Fitting(kind, text)
           \/ \E k \in Operations : OpStep(k)
<1>1. content \in Texts /\ undo \in Seq(Entries) /\ redo \in Seq(Entries) BY DEF Types, PanelTypes
<1>2. 0 \in Texts BY DiffHistoryAssumption DEF DiffHistoryAssumption, Texts
<1>3. CASE Accept BY <1>1, <1>3 DEF Accept
<1>4. CASE Reject BY <1>2, <1>4 DEF Reject
<1>5. CASE BeginRollback
  <2>1. PICK v \in 0 .. written : Begin("rollback", "compute", v) BY <1>5 DEF BeginRollback
  <2>2. v \in Texts BY LoadFacts DEF Texts
  <2> QED BY <2>1, <2>2 DEF Fitting, Kinds
<1>6. CASE BeginUndo
  <2>1. Last(undo) \in Entries BY <1>1, <1>6, FrontFacts DEF BeginUndo
  <2>2. Last(undo).before \in Texts BY <2>1 DEF Entries
  <2>3. Fitting("undo", Last(undo).before) BY <1>6 DEF BeginUndo, Fitting
  <2> QED BY <1>6, <2>2, <2>3 DEF BeginUndo, Kinds
<1>7. CASE BeginRedo
  <2>1. Last(redo) \in Entries BY <1>1, <1>7, FrontFacts DEF BeginRedo
  <2>2. Last(redo).after \in Texts BY <2>1 DEF Entries
  <2>3. Fitting("redo", Last(redo).after) BY <1>7 DEF BeginRedo, Fitting
  <2> QED BY <1>7, <2>2, <2>3 DEF BeginRedo, Kinds
<1> QED BY <1>3, <1>4, <1>5, <1>6, <1>7 DEF Next, LoadStep

\* Where the reply of a write that landed is.
LEMMA LandedQueue ==
    ASSUME Types, NEW k \in Operations, WriteLands(k)
    PROVE  /\ replies' \in Seq(Owners) /\ Len(replies) \in Nat /\ Len(replies') = Len(replies) + 1
           /\ replies' # <<>> /\ replies'[Len(replies) + 1] = <<"op", k>>
           /\ DOMAIN replies = 1 .. Len(replies) /\ DOMAIN replies' = 1 .. Len(replies) + 1
           /\ \A i \in 1 .. Len(replies) : replies'[i] = replies[i]
<1>1. <<"op", k>> \in Owners BY DEF Owners
<1>2. \E text : Land(<<"op", k>>, text) BY DEF WriteLands
<1> QED BY <1>1, <1>2, LandFacts DEF Types, WorkTypes

\* What a write puts into the file is a text.
LEMMA LandedText ==
    ASSUME Types, NEW k \in Operations, WriteLands(k)
    PROVE  PanelTypes'
<1>1. ops[k] \in Ops BY DEF Types, OpTypes
<1>2. ops[k].to \in Texts /\ ops[k].seen.text \in Texts BY <1>1 DEF Ops, Seen
<1>3. disk' \in Texts BY <1>2 DEF WriteLands, Land
<1> QED BY <1>3 DEF WriteLands, Types, PanelTypes

\* What the queue is made of.
LEMMA QueueFacts ==
    ASSUME Types
    PROVE  /\ replies \in Seq(Owners) /\ Len(replies) \in Nat /\ DOMAIN replies = 1 .. Len(replies)
           /\ replies # <<>> => Len(replies) \in Nat \ {0}
           /\ \A i \in DOMAIN replies : replies[i] \in Owners
           /\ \A i \in DOMAIN replies : replies[i][1] = "agent" => replies[i][2] \in Nat
           /\ \A i \in DOMAIN replies :
                replies[i][1] = "op" => replies[i][2] \in Operations /\ replies[i] = <<"op", replies[i][2]>>
<1>1. replies \in Seq(Owners) BY DEF Types, WorkTypes
<1>2. /\ Len(replies) \in Nat /\ DOMAIN replies = 1 .. Len(replies)
      /\ replies # <<>> => Len(replies) \in Nat \ {0}
      /\ \A i \in DOMAIN replies : replies[i] \in Owners
  BY <1>1, LenProperties, ElementOfSeq, EmptySeq
<1>3. \A who \in Owners :
        /\ who[1] = "agent" => who[2] \in Nat
        /\ who[1] = "op" => who[2] \in Operations /\ who = <<"op", who[2]>>
  BY LoadFacts DEF Owners
<1> QED BY <1>1, <1>2, <1>3

\* The queue stays what it is when an operation that no reply is for moves.
LEMMA QueueStays ==
    ASSUME Types, QueueInv, replies' = replies, loadGen' = loadGen, written' = written,
           \A k \in Operations :
             ops[k].pc \in {"written", "repaired"} => ops'[k].pc \in {"written", "repaired"}
    PROVE  QueueInv'
BY QueueFacts DEF QueueInv

\* Handling the first reply leaves a queue in which its owner is not.
LEMMA QueueShrinks ==
    ASSUME Types, QueueInv, NEW k \in Operations, Handle(<<"op", k>>), Only(k),
           loadGen' = loadGen, written' = written
    PROVE  QueueInv'
<1>1. /\ DOMAIN replies = 1 .. Len(replies) /\ Len(replies) \in Nat \ {0} /\ replies[1] = <<"op", k>>
      /\ DOMAIN replies' = 1 .. Len(replies) - 1
      /\ \A i \in 1 .. Len(replies) - 1 : replies'[i] = replies[i + 1]
  BY HandleFacts DEF Types, WorkTypes
<1>2. ASSUME NEW i \in DOMAIN replies'
      PROVE  /\ i + 1 \in DOMAIN replies /\ replies'[i] = replies[i + 1] /\ replies[i + 1] # <<"op", k>>
             /\ i \in Nat
  <2>1. i + 1 \in DOMAIN replies /\ 1 \in DOMAIN replies /\ i + 1 # 1 BY <1>1
  <2> QED BY <1>1, <2>1 DEF QueueInv
<1>3. ASSUME NEW i \in DOMAIN replies'
      PROVE  /\ replies'[i][1] = "agent" => replies'[i][2] > loadGen' /\ replies'[i][2] <= written'
             /\ replies'[i][1] = "op" => ops'[replies'[i][2]].pc \in {"written", "repaired"}
  <2>1. replies[i + 1][1] = "agent" => replies[i + 1][2] > loadGen /\ replies[i + 1][2] <= written
    BY <1>2 DEF QueueInv
  <2>2. ASSUME replies[i + 1][1] = "op" PROVE ops'[replies[i + 1][2]].pc \in {"written", "repaired"}
    <3>1. replies[i + 1][2] \in Operations \ {k} BY <1>2, <2>2, QueueFacts
    <3> QED BY <1>2, <2>2, <3>1 DEF QueueInv, Only
  <2> QED BY <1>2, <2>1, <2>2
<1>4. ASSUME NEW i \in DOMAIN replies', NEW j \in DOMAIN replies'
      PROVE  /\ replies'[i] = replies'[j] => i = j
             /\ i < j /\ replies'[i][1] = "agent" /\ replies'[j][1] = "agent"
                  => replies'[i][2] < replies'[j][2]
  <2>1. i + 1 = j + 1 => i = j BY <1>2
  <2>2. i < j => i + 1 < j + 1 BY <1>2
  <2> QED BY <1>2, <2>1, <2>2 DEF QueueInv
<1>5. ASSUME NEW v \in loadGen' + 1 .. written'
      PROVE  \E i \in DOMAIN replies' : replies'[i] = <<"agent", v>>
  <2>1. PICK i \in DOMAIN replies : replies[i] = <<"agent", v>> BY <1>5 DEF QueueInv
  <2>2. i # 1 BY <1>1, <2>1
  <2>3. i - 1 \in DOMAIN replies' /\ (i - 1) + 1 = i BY <1>1, <2>2
  <2> QED BY <1>2, <2>1, <2>3
<1> QED BY <1>3, <1>4, <1>5 DEF QueueInv

\* The reply to the next version makes way for the one after it.
LEMMA QueueStarts ==
    ASSUME Types, QueueInv, NEW v \in 1 .. MaxWrites, StartLoad(v)
    PROVE  QueueInv'
<1>1. /\ DOMAIN replies = 1 .. Len(replies) /\ Len(replies) \in Nat \ {0} /\ replies[1] = <<"agent", v>>
      /\ DOMAIN replies' = 1 .. Len(replies) - 1
      /\ \A i \in 1 .. Len(replies) - 1 : replies'[i] = replies[i + 1]
  BY HandleFacts DEF StartLoad, Types, WorkTypes
<1>2. v = loadGen + 1 /\ loadGen' = v /\ written' = written /\ ops' = ops
  BY StartLoadFacts DEF StartLoad
<1>3. ASSUME NEW i \in DOMAIN replies'
      PROVE  /\ i + 1 \in DOMAIN replies /\ replies'[i] = replies[i + 1] /\ i \in Nat
             /\ replies[i + 1][1] = "agent" => v < replies[i + 1][2]
  <2>1. i + 1 \in DOMAIN replies /\ 1 \in DOMAIN replies /\ 1 < i + 1 BY <1>1
  <2>2. replies[1][1] = "agent" /\ replies[1][2] = v BY <1>1
  <2> QED BY <1>1, <2>1, <2>2 DEF QueueInv
<1>4. ASSUME NEW i \in DOMAIN replies'
      PROVE  /\ replies'[i][1] = "agent" => replies'[i][2] > loadGen' /\ replies'[i][2] <= written'
             /\ replies'[i][1] = "op" => ops'[replies'[i][2]].pc \in {"written", "repaired"}
  <2>1. replies[i + 1][1] = "agent" => replies[i + 1][2] > v /\ replies[i + 1][2] <= written
    <3>1. replies[i + 1][1] = "agent" => replies[i + 1][2] \in Nat BY <1>3, QueueFacts
    <3> QED BY <1>3, <3>1, LoadFacts, <1>2 DEF QueueInv
  <2> QED BY <1>2, <1>3, <2>1 DEF QueueInv
<1>5. ASSUME NEW i \in DOMAIN replies', NEW j \in DOMAIN replies'
      PROVE  /\ replies'[i] = replies'[j] => i = j
             /\ i < j /\ replies'[i][1] = "agent" /\ replies'[j][1] = "agent"
                  => replies'[i][2] < replies'[j][2]
  <2>1. i + 1 = j + 1 => i = j BY <1>3
  <2>2. i < j => i + 1 < j + 1 BY <1>3
  <2> QED BY <1>3, <2>1, <2>2 DEF QueueInv
<1>6. ASSUME NEW w \in loadGen' + 1 .. written'
      PROVE  \E i \in DOMAIN replies' : replies'[i] = <<"agent", w>>
  <2>1. w \in loadGen + 1 .. written /\ w # v BY <1>2, LoadFacts
  <2>2. PICK i \in DOMAIN replies : replies[i] = <<"agent", w>> BY <2>1 DEF QueueInv
  <2>3. i # 1 BY <1>1, <2>1, <2>2
  <2>4. i - 1 \in DOMAIN replies' /\ (i - 1) + 1 = i BY <1>1, <2>3
  <2> QED BY <1>3, <2>2, <2>4
<1> QED BY <1>4, <1>5, <1>6 DEF QueueInv

\* A reply that is new is the last.
LEMMA QueueGrows ==
    ASSUME Types, QueueInv, NEW who \in Owners, NEW text, Land(who, text), loadGen' = loadGen,
           \/ who = <<"agent", written + 1>> /\ written' = written + 1 /\ ops' = ops
           \/ \E k \in Operations :
                /\ who = <<"op", k>> /\ written' = written /\ Only(k)
                /\ ops[k].pc \notin {"written", "repaired"} /\ ops'[k].pc \in {"written", "repaired"}
    PROVE  QueueInv'
<1> DEFINE n == Len(replies) + 1
<1>1. /\ Len(replies) \in Nat /\ replies'[n] = who /\ DOMAIN replies = 1 .. Len(replies)
      /\ DOMAIN replies' = 1 .. n /\ \A i \in 1 .. Len(replies) : replies'[i] = replies[i]
  BY LandFacts DEF Types, WorkTypes
<1>2. ASSUME NEW i \in DOMAIN replies'
      PROVE  i = n \/ (i \in DOMAIN replies /\ i < n /\ replies'[i] = replies[i])
  <2>1. i \in 1 .. Len(replies) + 1 BY <1>1
  <2>2. Len(replies) \in Nat BY <1>1
  <2>3. i = n \/ (i \in 1 .. Len(replies) /\ i < n) BY <2>1, <2>2
  <2> QED BY <1>1, <2>3
<1>3. /\ n \in DOMAIN replies' /\ n \notin DOMAIN replies
      /\ \A i \in DOMAIN replies : i \in DOMAIN replies' /\ replies'[i] = replies[i] /\ i < n
  <2>1. n \in 1 .. n /\ n \notin 1 .. Len(replies) BY <1>1
  <2>2. \A i \in 1 .. Len(replies) : i \in 1 .. n /\ i < n BY <1>1
  <2> QED BY <1>1, <2>1, <2>2
<1> HIDE DEF n
<1>4. CASE who = <<"agent", written + 1>> /\ written' = written + 1 /\ ops' = ops
  <2>1. \A i \in DOMAIN replies : replies[i] # who
    BY <1>4, LoadFacts DEF QueueInv
  <2>2. \A i \in DOMAIN replies : replies[i][1] = "agent" => replies[i][2] < written + 1
    BY LoadFacts, QueueFacts DEF QueueInv
  <2>3. ASSUME NEW i \in DOMAIN replies'
        PROVE  /\ replies'[i][1] = "agent" => replies'[i][2] > loadGen /\ replies'[i][2] <= written + 1
               /\ replies'[i][1] = "op" => ops[replies'[i][2]].pc \in {"written", "repaired"}
    <3>1. CASE i = n BY <1>1, <1>4, <3>1, LoadFacts DEF n
    <3>2. CASE i # n
      <4>1. i \in DOMAIN replies /\ replies'[i] = replies[i] BY <1>2, <3>2
      <4>2. replies[i][1] = "agent" => replies[i][2] \in Nat BY <4>1, QueueFacts
      <4> QED BY <4>1, <4>2, LoadFacts DEF QueueInv
    <3> QED BY <3>1, <3>2
  <2>4. ASSUME NEW i \in DOMAIN replies', NEW j \in DOMAIN replies'
        PROVE  /\ replies'[i] = replies'[j] => i = j
               /\ i < j /\ replies'[i][1] = "agent" /\ replies'[j][1] = "agent"
                    => replies'[i][2] < replies'[j][2]
    <3>1. replies'[n] = who /\ who[2] = written + 1 BY <1>1, <1>4 DEF n
    <3>2. ~(n < n) /\ \A x \in DOMAIN replies : ~(n < x) BY <1>1 DEF n
    <3> QED BY <1>2, <2>1, <2>2, <3>1, <3>2 DEF QueueInv
  <2>5. ASSUME NEW v \in loadGen + 1 .. written + 1
        PROVE  \E i \in DOMAIN replies' : replies'[i] = <<"agent", v>>
    <3>1. CASE v = written + 1 BY <1>1, <1>3, <1>4, <3>1 DEF n
    <3>2. CASE v # written + 1
      <4>1. v \in loadGen + 1 .. written BY <3>2, LoadFacts
      <4>2. PICK i \in DOMAIN replies : replies[i] = <<"agent", v>> BY <4>1 DEF QueueInv
      <4> QED BY <1>3, <4>2
    <3> QED BY <3>1, <3>2
  <2> QED BY <1>4, <2>3, <2>4, <2>5 DEF QueueInv
<1>5. ASSUME NEW k \in Operations, who = <<"op", k>>, written' = written, Only(k),
             ops[k].pc \notin {"written", "repaired"}, ops'[k].pc \in {"written", "repaired"}
      PROVE  QueueInv'
  <2>1. \A i \in DOMAIN replies : replies[i] # who BY <1>5 DEF QueueInv
  <2>2. who[1] = "op" /\ who[2] = k /\ replies'[n] = who BY <1>1, <1>5 DEF n
  <2>3. ASSUME NEW i \in DOMAIN replies'
        PROVE  /\ replies'[i][1] = "agent" => replies'[i][2] > loadGen /\ replies'[i][2] <= written
               /\ replies'[i][1] = "op" => ops'[replies'[i][2]].pc \in {"written", "repaired"}
    <3>1. CASE i = n BY <1>5, <2>2, <3>1
    <3>2. CASE i # n
      <4>1. i \in DOMAIN replies /\ replies'[i] = replies[i] BY <1>2, <3>2
      <4>2. ASSUME replies[i][1] = "op" PROVE ops'[replies[i][2]].pc \in {"written", "repaired"}
        <5>1. replies[i][2] \in Operations \ {k} BY <1>5, <2>1, <4>1, <4>2, QueueFacts
        <5> QED BY <4>1, <4>2, <5>1 DEF QueueInv, Only
      <4> QED BY <4>1, <4>2 DEF QueueInv
    <3> QED BY <3>1, <3>2
  <2>4. ASSUME NEW i \in DOMAIN replies', NEW j \in DOMAIN replies'
        PROVE  /\ replies'[i] = replies'[j] => i = j
               /\ i < j /\ replies'[i][1] = "agent" /\ replies'[j][1] = "agent"
                    => replies'[i][2] < replies'[j][2]
    BY <1>2, <2>1, <2>2 DEF QueueInv
  <2>5. ASSUME NEW v \in loadGen + 1 .. written
        PROVE  \E i \in DOMAIN replies' : replies'[i] = <<"agent", v>>
    BY <1>3 DEF QueueInv
  <2> QED BY <1>5, <2>3, <2>4, <2>5 DEF QueueInv
<1> QED BY <1>4, <1>5

\* Types.
LEMMA TypesStep ==
    ASSUME Types, QueueInv, OpInv, Fits, [Next]_vars
    PROVE  Types'
<1>1. CASE UNCHANGED vars BY <1>1 DEF vars, Types, PanelTypes, WorkTypes, OpTypes, LoadInv
<1>2. CASE AgentWrites
  <2>1. written + 1 \in 1 .. MaxWrites /\ written' = written + 1 BY <1>2, LoadFacts DEF AgentWrites
  <2>2. <<"agent", written + 1>> \in Owners BY <2>1 DEF Owners
  <2>3. replies' \in Seq(Owners) /\ disk' = written + 1
    BY <1>2, <2>2, LandFacts DEF AgentWrites, Land, Types, WorkTypes
  <2>4. PanelTypes' BY <1>2, <2>1, <2>3 DEF AgentWrites, Types, PanelTypes, Texts
  <2>5. WorkTypes' BY <1>2, <2>1, <2>3, LoadFacts DEF AgentWrites, Types, WorkTypes, Texts
  <2> QED BY <1>2, <2>4, <2>5 DEF AgentWrites, Types, OpTypes, LoadInv
<1>3. ASSUME NEW v \in 1 .. MaxWrites, StartLoad(v) PROVE Types'
  <2>1. LoadInv' /\ v <= written /\ loadGen' = v BY <1>3, StartLoadFacts
  <2>2. replies' \in Seq(Owners) BY <1>3, HandleFacts DEF StartLoad, Types, WorkTypes
  <2>3. PanelTypes' BY <1>3 DEF StartLoad, Types, PanelTypes
  <2>4. touched' \in BOOLEAN BY <1>3 DEF StartLoad
  <2>5. WorkTypes' BY <1>3, <2>1, <2>2, <2>4, LoadFacts DEF StartLoad, Types, WorkTypes
  <2> QED BY <1>3, <2>1, <2>3, <2>5 DEF StartLoad, Types, OpTypes
<1>4. ASSUME NEW v \in 1 .. MaxWrites, CommitLoad(v) PROVE Types'
  <2>1. LoadInv' BY <1>4, EndLoadFacts DEF CommitLoad
  <2>2. v \in Texts BY LoadFacts DEF Texts
  <2>3. PanelTypes' BY <1>4, <2>2, EmptySeq DEF CommitLoad, EndLoad, Types, PanelTypes
  <2> QED BY <1>4, <2>1, <2>3 DEF CommitLoad, EndLoad, Types, OpTypes, WorkTypes
<1>5. ASSUME NEW v \in 1 .. MaxWrites, DropLoad(v) PROVE Types'
  <2>1. LoadInv' BY <1>5, EndLoadFacts DEF DropLoad
  <2> QED BY <1>5, <2>1 DEF DropLoad, EndLoad, Types, OpTypes, PanelTypes, WorkTypes
<1>6. ASSUME NEW v \in 1 .. MaxWrites, LoadFails(v) PROVE Types'
  <2>1. LoadInv' BY <1>6, EndLoadFacts DEF LoadFails
  <2>2. unsynced' \in BOOLEAN BY <1>6 DEF LoadFails, Types, WorkTypes
  <2> QED BY <1>6, <2>1, <2>2 DEF LoadFails, EndLoad, Types, OpTypes, PanelTypes, WorkTypes
<1>7. ASSUME NEW text \in Texts, Decide(text) PROVE Types'
  <2>1. PanelTypes' BY <1>7, DecideFacts
  <2>2. touched' \in BOOLEAN BY <1>7 DEF Decide
  <2> QED BY <1>7, <2>1, <2>2 DEF Decide, Types, OpTypes, WorkTypes, LoadInv
<1>8. ASSUME NEW kind \in Kinds, NEW place \in {"compute", "write"},
             NEW text \in Texts, Begin(kind, place, text), Fitting(kind, text)
      PROVE  Types'
  <2>1. OpTypes' /\ mutGen + 1 \in Operations BY <1>8, TakesFacts DEF Places
  <2>2. touched' \in BOOLEAN BY <1>8 DEF Begin
  <2>3. mutGen' \in 0 .. MaxOps
    BY <1>8, <2>1, DiffHistoryAssumption DEF DiffHistoryAssumption, Begin, Operations
  <2> QED BY <1>8, <2>1, <2>2, <2>3 DEF Begin, Types, PanelTypes, WorkTypes, LoadInv
<1>9. ASSUME NEW k \in Operations, Computed(k) PROVE Types'
  <2>1. OpTypes' BY <1>9, OpFacts DEF OpStep
  <2>2. replies' \in Seq(Owners) BY <1>9, Types DEF Computed, Types, WorkTypes
  <2>3. PanelTypes' BY <1>9 DEF Computed, Types, PanelTypes
  <2>4. unsynced' \in BOOLEAN BY <1>9 DEF Computed, Types, WorkTypes
  <2> QED BY <1>9, <2>1, <2>2, <2>3, <2>4 DEF Computed, Types, WorkTypes, LoadInv
<1>10. ASSUME NEW k \in Operations, WriteLands(k) PROVE Types'
  <2>1. OpTypes' BY <1>10, OpFacts DEF OpStep
  <2>2. replies' \in Seq(Owners) BY <1>10, LandedQueue
  <2>3. PanelTypes' BY <1>10, LandedText
  <2>4. unsynced' \in BOOLEAN BY <1>10 DEF WriteLands, Types, WorkTypes
  <2> QED BY <1>10, <2>1, <2>2, <2>3, <2>4 DEF WriteLands, Types, WorkTypes, LoadInv
<1>11. ASSUME NEW k \in Operations, WriteFails(k) PROVE Types'
  <2>1. OpTypes' BY <1>11, OpFacts DEF OpStep
  <2>2. replies' \in Seq(Owners) BY <1>11, Types DEF WriteFails, Types, WorkTypes
  <2>3. PanelTypes' BY <1>11 DEF WriteFails, Types, PanelTypes
  <2>4. unsynced' \in BOOLEAN BY <1>11 DEF WriteFails, Types, WorkTypes
  <2> QED BY <1>11, <2>1, <2>2, <2>3, <2>4 DEF WriteFails, Types, WorkTypes, LoadInv
<1>12. ASSUME NEW k \in Operations, CommitOp(k) PROVE Types'
  <2>1. OpTypes' BY <1>12, OpFacts DEF OpStep
  <2>2. replies' \in Seq(Owners) BY <1>12, HandleFacts DEF CommitOp, Types, WorkTypes
  <2>3. PanelTypes' BY <1>12, CommitFacts
  <2>4. unsynced' \in BOOLEAN BY <1>12 DEF CommitOp, Types, WorkTypes
  <2> QED BY <1>12, <2>1, <2>2, <2>3, <2>4 DEF CommitOp, Types, WorkTypes, LoadInv
<1>13. ASSUME NEW k \in Operations, Compensate(k) PROVE Types'
  <2>1. OpTypes' BY <1>13, OpFacts DEF OpStep
  <2>2. replies' \in Seq(Owners) BY <1>13, HandleFacts DEF Compensate, Types, WorkTypes
  <2>3. PanelTypes' BY <1>13 DEF Compensate, Types, PanelTypes
  <2>4. unsynced' \in BOOLEAN BY <1>13 DEF Compensate, Types, WorkTypes
  <2> QED BY <1>13, <2>1, <2>2, <2>3, <2>4 DEF Compensate, Types, WorkTypes, LoadInv
<1>14. ASSUME NEW k \in Operations, Repaired(k) PROVE Types'
  <2>1. OpTypes' BY <1>14, OpFacts DEF OpStep
  <2>2. replies' \in Seq(Owners) BY <1>14, HandleFacts DEF Repaired, Types, WorkTypes
  <2>3. PanelTypes' BY <1>14 DEF Repaired, Types, PanelTypes
  <2>4. unsynced' \in BOOLEAN BY <1>14 DEF Repaired, Types, WorkTypes
  <2> QED BY <1>14, <2>1, <2>2, <2>3, <2>4 DEF Repaired, Types, WorkTypes, LoadInv
<1> QED BY <1>1, <1>2, <1>3, <1>4, <1>5, <1>6, <1>7, <1>8, <1>9, <1>10, <1>11, <1>12, <1>13,
     <1>14, Cases DEF OpStep

\* The replies on their way.
LEMMA QueueStep ==
    ASSUME Types, QueueInv, OpInv, [Next]_vars
    PROVE  QueueInv'
<1>1. CASE UNCHANGED vars BY <1>1, QueueStays DEF vars
<1>2. CASE AgentWrites
  <2>1. written + 1 \in 1 .. MaxWrites BY <1>2, LoadFacts DEF AgentWrites
  <2>2. <<"agent", written + 1>> \in Owners BY <2>1 DEF Owners
  <2> QED BY <1>2, <2>2, QueueGrows DEF AgentWrites
<1>3. ASSUME NEW v \in 1 .. MaxWrites, StartLoad(v) PROVE QueueInv' BY <1>3, QueueStarts
<1>4. ASSUME NEW v \in 1 .. MaxWrites, CommitLoad(v) PROVE QueueInv'
  BY <1>4, QueueStays DEF CommitLoad, EndLoad
<1>5. ASSUME NEW v \in 1 .. MaxWrites, DropLoad(v) PROVE QueueInv'
  BY <1>5, QueueStays DEF DropLoad, EndLoad
<1>6. ASSUME NEW v \in 1 .. MaxWrites, LoadFails(v) PROVE QueueInv'
  BY <1>6, QueueStays DEF LoadFails, EndLoad
<1>7. ASSUME NEW text \in Texts, Decide(text) PROVE QueueInv' BY <1>7, QueueStays DEF Decide
<1>8. ASSUME NEW kind \in Kinds, NEW place \in {"compute", "write"},
             NEW text \in Texts, Begin(kind, place, text), Fitting(kind, text)
      PROVE  QueueInv'
  <2>1. Takes(mutGen + 1, kind, place, text) /\ mutGen + 1 \in Operations
    BY <1>8, TakesFacts DEF Places
  <2>2. ops[mutGen + 1].pc = "idle"
    BY <2>1, LoadFacts DEF OpInv, OpPart, Types, WorkTypes
  <2> QED BY <1>8, <2>1, <2>2, QueueStays DEF Begin, Takes, Only
<1>9. ASSUME NEW k \in Operations, Computed(k) PROVE QueueInv'
  <2>1. Only(k) BY <1>9, OpOnly DEF OpStep
  <2> QED BY <1>9, <2>1, QueueStays DEF Computed, Only
<1>10. ASSUME NEW k \in Operations, WriteLands(k) PROVE QueueInv'
  <2>1. Only(k) BY <1>10, OpOnly DEF OpStep
  <2>2. <<"op", k>> \in Owners BY DEF Owners
  <2>3. ops[k].pc \notin {"written", "repaired"} BY <1>10 DEF WriteLands
  <2>4. ops'[k].pc \in {"written", "repaired"}
    BY <1>10, MovesFacts DEF WriteLands, Moves, Types, Places
  <2>5. \E text : Land(<<"op", k>>, text) BY <1>10 DEF WriteLands
  <2> QED BY <1>10, <2>1, <2>2, <2>3, <2>4, <2>5, QueueGrows DEF WriteLands
<1>11. ASSUME NEW k \in Operations, WriteFails(k) PROVE QueueInv'
  <2>1. Only(k) BY <1>11, OpOnly DEF OpStep
  <2> QED BY <1>11, <2>1, QueueStays DEF WriteFails, Only
<1>12. ASSUME NEW k \in Operations, CommitOp(k) PROVE QueueInv'
  <2>1. Only(k) BY <1>12, OpOnly DEF OpStep
  <2> QED BY <1>12, <2>1, QueueShrinks DEF CommitOp
<1>13. ASSUME NEW k \in Operations, Compensate(k) PROVE QueueInv'
  <2>1. Only(k) BY <1>13, OpOnly DEF OpStep
  <2> QED BY <1>13, <2>1, QueueShrinks DEF Compensate
<1>14. ASSUME NEW k \in Operations, Repaired(k) PROVE QueueInv'
  <2>1. Only(k) BY <1>14, OpOnly DEF OpStep
  <2> QED BY <1>14, <2>1, QueueShrinks DEF Repaired
<1> QED BY <1>1, <1>2, <1>3, <1>4, <1>5, <1>6, <1>7, <1>8, <1>9, <1>10, <1>11, <1>12, <1>13,
     <1>14, Cases DEF OpStep

\* The fields of a record have their types.
LEMMA OpFields ==
    ASSUME Types
    PROVE  \A k \in Operations :
             /\ k \in Nat /\ k # 0 /\ ops[k].load \in Nat /\ ops[k].to \in Texts
             /\ ops[k].seen.load \in Nat /\ ops[k].seen.mut \in Nat /\ ops[k].seen.text \in Texts
<1> SUFFICES ASSUME NEW k \in Operations
             PROVE  /\ k \in Nat /\ k # 0 /\ ops[k].load \in Nat /\ ops[k].to \in Texts
                    /\ ops[k].seen.load \in Nat /\ ops[k].seen.mut \in Nat /\ ops[k].seen.text \in Texts
  OBVIOUS
<1>1. ops[k] \in Ops BY DEF Types, OpTypes
<1>2. ops[k].seen \in Seen /\ ops[k].load \in Nat /\ ops[k].to \in Texts BY <1>1 DEF Ops
<1> QED BY <1>2, DiffHistoryAssumption DEF DiffHistoryAssumption, Seen, Operations

\* While nothing but one operation moves, every one may rely on what it relied on.
LEMMA OpMoves ==
    ASSUME Types, OpInv, NEW k \in Operations,
           UNCHANGED <<loadGen, activeLoad, mutGen, content, pending, undo, redo, touched>>,
           \/ Leaves(k)
           \/ Repairs(k) /\ ops[k].pc # "idle"
           \/ Moves(k, "write") /\ ops[k].pc = "compute"
           \/ Moves(k, "written") /\ ops[k].pc = "write"
           \/ Moves(k, "repaired") /\ ops[k].pc = "repair"
    PROVE  OpInv'
<1>1. ASSUME NEW j \in Operations \ {k} PROVE OpPart(j)'
  <2>1. ops'[j] = ops[j] BY DEF Leaves, Repairs, Moves, Only
  <2>2. OpPart(j) BY DEF OpInv, OpPart
  <2> QED BY <2>1, <2>2 DEF OpPart, Open, Newest, Same, Decided
<1>2. CASE Leaves(k)
  <2>1. OpPart(k)' BY <1>2 DEF Leaves, OpPart, Open, Newest
  <2> QED BY <1>1, <2>1 DEF OpInv, OpPart
<1>3. CASE Repairs(k) /\ ops[k].pc # "idle"
  <2>1. mutGen \in Nat BY DEF Types, WorkTypes
  <2>2. OpPart(k)' BY <1>3, <2>1, LoadFacts DEF Repairs, KeepsTaken, OpInv, OpPart, Open, Newest
  <2> QED BY <1>1, <2>2 DEF OpInv, OpPart
<1>4. CASE \/ Moves(k, "write") /\ ops[k].pc = "compute"
           \/ Moves(k, "written") /\ ops[k].pc = "write"
           \/ Moves(k, "repaired") /\ ops[k].pc = "repair"
  <2>1. OpPart(k) BY DEF OpInv, OpPart
  <2>2. Open(k)' => Open(k) BY <1>4 DEF Moves, Open
  <2>3. ops[k].pc # "idle" BY <1>4
  <2>4. ops'[k].seen = ops[k].seen /\ KeepsTaken(k) BY <1>4 DEF Moves
  <2>5. OpPart(k)' BY <2>1, <2>2, <2>3, <2>4 DEF KeepsTaken, OpPart, Newest, Same, Decided
  <2> QED BY <1>1, <2>5 DEF OpInv, OpPart
<1> QED BY <1>2, <1>3, <1>4

\* What an operation may rely on.
LEMMA OpInvStep ==
    ASSUME Types, QueueInv, OpInv, Fits, [Next]_vars
    PROVE  OpInv'
<1>1. CASE UNCHANGED vars BY <1>1 DEF vars, OpInv, OpPart, Open, Newest, Same, Decided
<1>2. CASE AgentWrites BY <1>2 DEF AgentWrites, OpInv, OpPart, Open, Newest, Same, Decided
<1>3. ASSUME NEW v \in 1 .. MaxWrites, StartLoad(v) PROVE OpInv'
  <2>1. loadGen' = loadGen + 1 BY <1>3, StartLoadFacts
  <2>2. \A k \in Operations : ops[k].load \in Nat /\ ops[k].seen.load \in Nat BY OpFields
  <2>3. ops' = ops /\ mutGen' = mutGen BY <1>3 DEF StartLoad
  <2> QED BY <2>1, <2>2, <2>3, LoadFacts DEF OpInv, OpPart, Open, Newest
<1>4. ASSUME NEW v \in 1 .. MaxWrites, CommitLoad(v) PROVE OpInv'
  <2>1. activeLoad # 0 /\ ops' = ops /\ mutGen' = mutGen /\ loadGen' = loadGen
    BY <1>4, EndLoadFacts DEF CommitLoad, EndLoad
  <2>2. \A k \in Operations : ops[k].pc # "idle" => ops[k].load # loadGen BY <2>1 DEF OpInv, OpPart
  <2> QED BY <2>1, <2>2 DEF OpInv, OpPart, Open, Newest
<1>5. ASSUME NEW v \in 1 .. MaxWrites, DropLoad(v) PROVE OpInv'
  <2>1. activeLoad' = activeLoad BY <1>5, EndLoadFacts DEF DropLoad
  <2> QED BY <1>5, <2>1 DEF DropLoad, EndLoad, OpInv, OpPart, Open, Newest, Same, Decided
<1>6. ASSUME NEW v \in 1 .. MaxWrites, LoadFails(v) PROVE OpInv'
  <2>1. activeLoad' = 0 \/ activeLoad' = activeLoad BY <1>6, EndLoadFacts DEF LoadFails
  <2> QED BY <1>6, <2>1 DEF LoadFails, EndLoad, OpInv, OpPart, Open, Newest, Same, Decided
<1>7. ASSUME NEW text \in Texts, Decide(text) PROVE OpInv'
  <2>1. undo' # undo /\ pending /\ ~pending' BY <1>7, DecideFacts
  <2>2. /\ ops' = ops /\ touched' = TRUE
        /\ loadGen' = loadGen /\ mutGen' = mutGen /\ activeLoad' = activeLoad
    BY <1>7 DEF Decide
  <2>3. ASSUME NEW k \in Operations, Newest(k) PROVE Decided(k)'
    <3>1. Same(k) BY <2>1, <2>3 DEF OpInv, OpPart, Decided
    <3>2. ops[k].undo = undo /\ ops[k].pending BY <2>1, <3>1 DEF Same
    <3> QED BY <2>1, <2>2, <3>2 DEF Decided
  <2> QED BY <2>2, <2>3 DEF OpInv, OpPart, Open, Newest
<1>8. ASSUME NEW kind \in Kinds, NEW place \in {"compute", "write"},
             NEW text \in Texts, Begin(kind, place, text), Fitting(kind, text)
      PROVE  OpInv'
  <2>1. /\ Takes(mutGen + 1, kind, place, text) /\ mutGen + 1 \in Operations
    BY <1>8, TakesFacts DEF Places
  <2>2. /\ activeLoad = 0 /\ mutGen' = mutGen + 1 /\ touched' = TRUE
        /\ UNCHANGED <<loadGen, activeLoad, content, pending, undo, redo>>
    BY <1>8 DEF Begin
  <2>3. mutGen \in Nat /\ loadGen \in Nat BY LoadFacts DEF Types, WorkTypes
  <2>4. \A k \in Operations : ops[k].seen.mut \in Nat /\ k \in Nat BY OpFields
  <2>5. ASSUME NEW k \in Operations \ {mutGen + 1}, ops[k].pc # "idle"
        PROVE  k <= mutGen' /\ k # mutGen' /\ ops[k].seen.mut <= mutGen'
    BY <2>2, <2>3, <2>4, <2>5 DEF OpInv, OpPart
  <2>6. ASSUME NEW k \in Operations, k = mutGen + 1 PROVE OpPart(k)'
    <3>1. /\ ops'[k].kind = kind /\ ops'[k].to = text /\ ops'[k].load = loadGen
          /\ ops'[k].seen.load = 0 /\ ops'[k].seen.mut = 0 /\ ops'[k].undo = undo /\ ops'[k].redo = redo
      BY <2>1, <2>6 DEF Takes
    <3>2. Same(k)' BY <2>1, <2>2, <2>6 DEF Takes, Same
    <3> QED BY <1>8, <2>2, <2>3, <2>6, <3>1, <3>2 DEF OpPart, Open, Newest, Fitting
  <2>7. ASSUME NEW k \in Operations \ {mutGen + 1} PROVE OpPart(k)'
    BY <2>1, <2>2, <2>5, <2>7 DEF Takes, Only, OpInv, OpPart, Open, Newest
  <2> QED BY <2>6, <2>7 DEF OpInv
<1>9. ASSUME NEW k \in Operations, Computed(k) PROVE OpInv'
  <2>1. \/ Moves(k, "write") /\ ops[k].pc = "compute"
        \/ Leaves(k)
    BY <1>9, MovesFacts, LeavesFacts DEF Computed, Types, Places
  <2>2. /\ UNCHANGED <<loadGen, activeLoad, mutGen, content, pending, undo, redo, touched>>
    BY <1>9 DEF Computed
  <2> QED BY <2>1, <2>2, OpMoves
<1>10. ASSUME NEW k \in Operations, WriteLands(k) PROVE OpInv'
  <2>1. \/ Moves(k, "written") /\ ops[k].pc = "write"
        \/ Moves(k, "repaired") /\ ops[k].pc = "repair"
    BY <1>10, MovesFacts DEF WriteLands, Types, Places
  <2>2. /\ UNCHANGED <<loadGen, activeLoad, mutGen, content, pending, undo, redo, touched>>
    BY <1>10 DEF WriteLands
  <2> QED BY <2>1, <2>2, OpMoves
<1>11. ASSUME NEW k \in Operations, WriteFails(k) PROVE OpInv'
  <2>1. Leaves(k) BY <1>11, LeavesFacts DEF WriteFails, Types
  <2>2. /\ UNCHANGED <<loadGen, activeLoad, mutGen, content, pending, undo, redo, touched>>
    BY <1>11 DEF WriteFails
  <2> QED BY <2>1, <2>2, OpMoves
<1>12. ASSUME NEW k \in Operations, CommitOp(k) PROVE OpInv'
  <2>1. Leaves(k) BY <1>12, LeavesFacts DEF CommitOp, Types
  <2>2. mutGen = k /\ UNCHANGED <<loadGen, activeLoad, mutGen, touched>>
    BY <1>12 DEF CommitOp, IsCurrent
  <2> QED BY <2>1, <2>2 DEF OpInv, OpPart, Leaves, Only, Open, Newest
<1>13. ASSUME NEW k \in Operations, Compensate(k) PROVE OpInv'
  <2>1. Repairs(k) /\ ops[k].pc = "written" BY <1>13, RepairsFacts DEF Compensate
  <2>2. /\ UNCHANGED <<loadGen, activeLoad, mutGen, content, pending, undo, redo, touched>>
    BY <1>13 DEF Compensate
  <2> QED BY <2>1, <2>2, OpMoves
<1>14. ASSUME NEW k \in Operations, Repaired(k) PROVE OpInv'
  <2>1. Leaves(k) \/ (Repairs(k) /\ ops[k].pc = "repaired")
    <3>1. ops[k].attempt + 1 \in Nat BY DEF Types, OpTypes, Ops
    <3> QED BY <1>14, <3>1, RepairsFacts, LeavesFacts DEF Repaired, Types
  <2>2. /\ UNCHANGED <<loadGen, activeLoad, mutGen, content, pending, undo, redo, touched>>
    BY <1>14 DEF Repaired
  <2> QED BY <2>1, <2>2, OpMoves
<1> QED BY <1>1, <1>2, <1>3, <1>4, <1>5, <1>6, <1>7, <1>8, <1>9, <1>10, <1>11, <1>12, <1>13,
     <1>14, Cases DEF OpStep

\* A step of one operation leaves what the repairs have seen.
LEMMA SeenMoves ==
    ASSUME Types, OpInv, SeenInv, NEW k \in Operations,
           UNCHANGED <<loadGen, activeLoad, mutGen, content, pending, undo, redo, target>>,
           \/ Leaves(k)
           \/ Repairs(k) /\ ops[k].pc # "idle"
           \/ Moves(k, "write") /\ ops[k].pc = "compute"
           \/ Moves(k, "written") /\ ops[k].pc = "write"
           \/ Moves(k, "repaired") /\ ops[k].pc = "repair"
    PROVE  SeenInv'
<1>1. ASSUME NEW n \in Operations, Newest(n)', Same(n)'
      PROVE  Newest(n) /\ Same(n)
  <2>1. CASE n # k BY <1>1, <2>1 DEF Leaves, Repairs, Moves, Only, Newest, Open, Same
  <2>2. CASE n = k BY <1>1, <2>2 DEF Leaves, Repairs, Moves, KeepsTaken, Newest, Open, Same
  <2> QED BY <2>1, <2>2
<1>2. ASSUME NEW j \in Operations, NEW n \in Operations, Newest(n)', Same(n)',
             ops'[j].pc \in {"repair", "repaired"}, ops'[j].seen.load = loadGen', ops'[j].seen.mut = mutGen'
      PROVE  ops'[j].seen.text = content'
  <2>1. Newest(n) /\ Same(n) BY <1>1, <1>2
  <2>2. CASE j # k
    <3>1. ops'[j] = ops[j] BY <2>2 DEF Leaves, Repairs, Moves, Only
    <3> QED BY <1>2, <2>1, <3>1 DEF SeenInv, SeenPart
  <2>3. CASE j = k /\ Repairs(k)
    <3>1. activeLoad = 0 BY <2>1 DEF OpInv, OpPart, Newest, Open
    <3>2. CurrentTarget(k) = content BY <3>1, LoadFacts DEF CurrentTarget
    <3> QED BY <2>3, <3>2 DEF Repairs
  <2>4. CASE j = k /\ ~Repairs(k)
    <3>1. ops[k].pc = "repair" /\ ops'[k].seen = ops[k].seen BY <1>2, <2>4 DEF Leaves, Moves
    <3> QED BY <1>2, <2>1, <2>4, <3>1 DEF SeenInv, SeenPart
  <2> QED BY <2>2, <2>3, <2>4
<1> QED BY <1>2 DEF SeenInv, SeenPart

\* What a repair has seen.
LEMMA SeenInvStep ==
    ASSUME Types, QueueInv, OpInv, Fits, SeenInv, [Next]_vars
    PROVE  SeenInv'
<1>1. CASE UNCHANGED vars BY <1>1 DEF vars, SeenInv, SeenPart, Newest, Open, Same
<1>2. CASE AgentWrites BY <1>2 DEF AgentWrites, SeenInv, SeenPart, Newest, Open, Same
<1>3. ASSUME NEW v \in 1 .. MaxWrites, StartLoad(v) PROVE SeenInv'
  <2>1. loadGen' = loadGen + 1 /\ ops' = ops BY <1>3, StartLoadFacts DEF StartLoad
  <2>2. \A k \in Operations : ops[k].pc # "idle" => ops[k].seen.load <= loadGen BY DEF OpInv, OpPart
  <2>3. \A k \in Operations : ops[k].pc # "idle" => ops[k].seen.load # loadGen'
    BY <2>1, <2>2, OpFields, LoadFacts
  <2> QED BY <2>1, <2>3 DEF SeenInv, SeenPart
<1>4. ASSUME NEW v \in 1 .. MaxWrites, CommitLoad(v) PROVE SeenInv'
  <2>1. activeLoad # 0 /\ ops' = ops /\ mutGen' = mutGen /\ loadGen' = loadGen
    BY <1>4, EndLoadFacts DEF CommitLoad, EndLoad
  <2>2. \A n \in Operations : ops[n].pc # "idle" => ops[n].load # loadGen BY <2>1 DEF OpInv, OpPart
  <2> QED BY <2>1, <2>2 DEF SeenInv, SeenPart, Newest, Open
<1>5. ASSUME NEW v \in 1 .. MaxWrites, DropLoad(v) PROVE SeenInv'
  BY <1>5 DEF DropLoad, EndLoad, SeenInv, SeenPart, Newest, Open, Same
<1>6. ASSUME NEW v \in 1 .. MaxWrites, LoadFails(v) PROVE SeenInv'
  BY <1>6 DEF LoadFails, EndLoad, SeenInv, SeenPart, Newest, Open, Same
<1>7. ASSUME NEW text \in Texts, Decide(text) PROVE SeenInv'
  <2>1. pending /\ ~pending' BY <1>7, DecideFacts
  <2>2. UNCHANGED <<ops, loadGen, mutGen>> BY <1>7 DEF Decide
  <2>3. ASSUME NEW n \in Operations, Newest(n)' PROVE ~Same(n)'
    <3>1. Newest(n) BY <2>2, <2>3 DEF Newest, Open
    <3>2. Same(n) BY <2>1, <3>1 DEF OpInv, OpPart, Decided
    <3>3. ops'[n].pending BY <2>1, <2>2, <3>2 DEF Same
    <3> QED BY <2>1, <3>3 DEF Same
  <2> QED BY <2>3 DEF SeenInv, SeenPart
<1>8. ASSUME NEW kind \in Kinds, NEW place \in {"compute", "write"},
             NEW text \in Texts, Begin(kind, place, text), Fitting(kind, text)
      PROVE  SeenInv'
  <2>1. /\ Takes(mutGen + 1, kind, place, text) /\ mutGen + 1 \in Operations
    BY <1>8, TakesFacts DEF Places
  <2>2. mutGen' = mutGen + 1 /\ mutGen \in Nat BY <1>8 DEF Begin, Types, WorkTypes
  <2>3. ASSUME NEW k \in Operations, ops'[k].pc \in {"repair", "repaired"}
        PROVE  ops'[k].seen.mut # mutGen'
    <3>1. k # mutGen + 1 BY <1>8, <2>1, <2>3 DEF Takes
    <3>2. ops'[k] = ops[k] BY <2>1, <3>1 DEF Takes, Only
    <3>3. ops[k].seen.mut <= mutGen /\ ops[k].seen.mut \in Nat
      BY <2>3, <3>2, OpFields DEF OpInv, OpPart
    <3> QED BY <2>2, <3>2, <3>3
  <2> QED BY <2>3 DEF SeenInv, SeenPart
<1>9. ASSUME NEW k \in Operations, Computed(k) PROVE SeenInv'
  <2>1. \/ Moves(k, "write") /\ ops[k].pc = "compute"
        \/ Leaves(k)
    BY <1>9, MovesFacts, LeavesFacts DEF Computed, Types, Places
  <2> QED BY <1>9, <2>1, SeenMoves DEF Computed
<1>10. ASSUME NEW k \in Operations, WriteLands(k) PROVE SeenInv'
  <2>1. \/ Moves(k, "written") /\ ops[k].pc = "write"
        \/ Moves(k, "repaired") /\ ops[k].pc = "repair"
    BY <1>10, MovesFacts DEF WriteLands, Types, Places
  <2> QED BY <1>10, <2>1, SeenMoves DEF WriteLands
<1>11. ASSUME NEW k \in Operations, WriteFails(k) PROVE SeenInv'
  <2>1. Leaves(k) BY <1>11, LeavesFacts DEF WriteFails, Types
  <2> QED BY <1>11, <2>1, SeenMoves DEF WriteFails
<1>12. ASSUME NEW k \in Operations, CommitOp(k) PROVE SeenInv'
  <2>1. Leaves(k) BY <1>12, LeavesFacts DEF CommitOp, Types
  <2>2. mutGen = k /\ mutGen' = mutGen BY <1>12 DEF CommitOp, IsCurrent
  <2>3. \A n \in Operations : ~Newest(n)' BY <2>1, <2>2 DEF Leaves, Newest, Open
  <2> QED BY <2>3 DEF SeenInv, SeenPart
<1>13. ASSUME NEW k \in Operations, Compensate(k) PROVE SeenInv'
  <2>1. Repairs(k) /\ ops[k].pc = "written" BY <1>13, RepairsFacts DEF Compensate
  <2> QED BY <1>13, <2>1, SeenMoves DEF Compensate
<1>14. ASSUME NEW k \in Operations, Repaired(k) PROVE SeenInv'
  <2>1. Leaves(k) \/ (Repairs(k) /\ ops[k].pc = "repaired")
    <3>1. ops[k].attempt + 1 \in Nat BY DEF Types, OpTypes, Ops
    <3> QED BY <1>14, <3>1, RepairsFacts, LeavesFacts DEF Repaired, Types
  <2> QED BY <1>14, <2>1, SeenMoves DEF Repaired
<1> QED BY <1>1, <1>2, <1>3, <1>4, <1>5, <1>6, <1>7, <1>8, <1>9, <1>10, <1>11, <1>12, <1>13,
     <1>14, Cases DEF OpStep

\* The stacks fit.
LEMMA FitsStep ==
    ASSUME Types, OpInv, Fits, [Next]_vars
    PROVE  Fits'
<1>1. CASE UNCHANGED vars BY <1>1 DEF vars, Fits
<1>2. CASE AgentWrites BY <1>2 DEF AgentWrites, Fits
<1>3. ASSUME NEW v \in 1 .. MaxWrites, StartLoad(v) PROVE Fits'
  BY <1>3 DEF StartLoad, EndLoad, Fits
<1>4. ASSUME NEW v \in 1 .. MaxWrites, CommitLoad(v) PROVE Fits'
  BY <1>4, EmptyChains DEF CommitLoad, Fits
<1>5. ASSUME NEW v \in 1 .. MaxWrites, DropLoad(v) PROVE Fits' BY <1>5 DEF DropLoad, EndLoad, Fits
<1>6. ASSUME NEW v \in 1 .. MaxWrites, LoadFails(v) PROVE Fits'
  BY <1>6 DEF LoadFails, EndLoad, Fits
<1>7. ASSUME NEW text \in Texts, Decide(text) PROVE Fits' BY <1>7, DecideFacts
<1>8. ASSUME NEW kind \in Kinds, NEW place \in {"compute", "write"},
             NEW text \in Texts, Begin(kind, place, text), Fitting(kind, text)
      PROVE  Fits'
  BY <1>8 DEF Begin, EndLoad, Fits
<1>9. ASSUME NEW k \in Operations, Computed(k) PROVE Fits' BY <1>9 DEF Computed, EndLoad, Fits
<1>10. ASSUME NEW k \in Operations, WriteLands(k) PROVE Fits'
  BY <1>10 DEF WriteLands, EndLoad, Fits
<1>11. ASSUME NEW k \in Operations, WriteFails(k) PROVE Fits'
  BY <1>11 DEF WriteFails, EndLoad, Fits
<1>12. ASSUME NEW k \in Operations, CommitOp(k) PROVE Fits' BY <1>12, CommitFacts
<1>13. ASSUME NEW k \in Operations, Compensate(k) PROVE Fits'
  BY <1>13 DEF Compensate, EndLoad, Fits
<1>14. ASSUME NEW k \in Operations, Repaired(k) PROVE Fits' BY <1>14 DEF Repaired, EndLoad, Fits
<1> QED BY <1>1, <1>2, <1>3, <1>4, <1>5, <1>6, <1>7, <1>8, <1>9, <1>10, <1>11, <1>12, <1>13,
     <1>14, Cases DEF OpStep

OfQueue(r) ==
    r[1] = "op" => r[2] \in Operations /\ ops[r[2]].pc # "idle" /\ ops[r[2]].pc \in {"written", "repaired"}

\* There is somebody whose reply is the last.
LEMMA LastThere ==
    ASSUME Types, QueueInv, LastTended, ~unsynced, replies # <<>>
    PROVE  \E r \in Owners : r = replies[Len(replies)] /\ Tended(r) /\ OfQueue(r)
<1>1. Len(replies) \in DOMAIN replies BY QueueFacts
<1> QED BY <1>1, QueueFacts DEF LastTended, QueueInv, OfQueue

\* As long as more replies are waiting, the last one stays the last.
LEMMA LastStays ==
    ASSUME Types, QueueInv, LastTended, NEW who, Handle(who), ~unsynced, replies' # <<>>
    PROVE  /\ Len(replies) # 1
           /\ \E r \in Owners :
                r = replies[Len(replies)] /\ replies'[Len(replies')] = r /\ Tended(r) /\ OfQueue(r)
<1>1. /\ DOMAIN replies = 1 .. Len(replies) /\ Len(replies) \in Nat \ {0} /\ replies # <<>>
      /\ Len(replies') = Len(replies) - 1 /\ replies' \in Seq(Owners)
      /\ \A i \in 1 .. Len(replies) - 1 : replies'[i] = replies[i + 1]
  BY HandleFacts DEF Types, WorkTypes
<1>2. Len(replies') # 0 BY <1>1, EmptySeq
<1>3. replies'[Len(replies')] = replies[Len(replies)] BY <1>1, <1>2
<1> QED BY <1>1, <1>2, <1>3, LastThere

\* It is another operation's then.
LEMMA LastOther ==
    ASSUME Types, QueueInv, LastTended, NEW k \in Operations, Handle(<<"op", k>>), ~unsynced, replies' # <<>>
    PROVE  \E r \in Owners :
             /\ replies'[Len(replies')] = r /\ Tended(r)
             /\ r[1] = "op" => r[2] \in Operations \ {k} /\ ops[r[2]].pc # "idle"
<1>1. PICK r \in Owners : r = replies[Len(replies)] /\ replies'[Len(replies')] = r /\ Tended(r) /\ OfQueue(r)
  BY LastStays
<1>2. replies[1] = <<"op", k>> /\ 1 \in DOMAIN replies /\ Len(replies) \in DOMAIN replies
  BY HandleFacts DEF Types, WorkTypes
<1>3. Len(replies) # 1 BY LastStays
<1>4. r # <<"op", k>> BY <1>1, <1>2, <1>3 DEF QueueInv
<1>5. r[1] = "op" => r = <<"op", r[2]>> BY <1>1, <1>2, QueueFacts
<1> QED BY <1>1, <1>4, <1>5 DEF OfQueue

\* Who wrote last decides.
LEMMA TendedBy == ASSUME NEW r, replies'[Len(replies')] = r, Tended(r)' PROVE LastTended'
BY DEF LastTended, Tended

\* What does not touch file or panel leaves it so.
LEMMA TendedStays ==
    ASSUME NEW r \in Owners, Tended(r),
           UNCHANGED <<disk, content, activeLoad, loadGen, mutGen, pending, undo, redo>>,
           r[1] = "op" => ops'[r[2]] = ops[r[2]]
    PROVE  Tended(r)'
BY DEF Tended, IsCurrent, UpToDate, Coming

\* An operation that is still current is the newest one, and the panel is the one it began with.
LEMMA CurrentFacts ==
    ASSUME OpInv, NEW k \in Operations, IsCurrent(k), ops[k].pc = "written"
    PROVE  activeLoad = 0 /\ mutGen = k /\ Newest(k) /\ Same(k)
<1>1. activeLoad = 0 /\ mutGen = k /\ Newest(k) BY DEF IsCurrent, Newest, Open
<1>2. Same(k) \/ Decided(k) BY <1>1 DEF OpInv, OpPart
<1>3. ops[k].kind = "rollback" => ops[k].pending = pending BY DEF IsCurrent
<1>4. ops[k].kind # "rollback" => ops[k].undo = undo BY DEF IsCurrent
<1>5. ~Decided(k) BY <1>3, <1>4 DEF Decided
<1> QED BY <1>1, <1>2, <1>5

\* Whoever wrote last will see to the file.
LEMMA TendedStep ==
    ASSUME Types, QueueInv, OpInv, SeenInv, Fits, LastTended, [Next]_vars
    PROVE  LastTended'
<1>1. CASE UNCHANGED vars 
  <2> SUFFICES ASSUME ~unsynced', replies' # <<>> PROVE LastTended' BY DEF LastTended
  <2>1. replies' = replies /\ ~unsynced BY <1>1 DEF vars
  <2>2. PICK r \in Owners : r = replies[Len(replies)] /\ Tended(r) /\ OfQueue(r) BY <2>1, LastThere
  <2>3. Tended(r)' BY <1>1, <2>2, TendedStays DEF vars
  <2> QED BY <2>1, <2>2, <2>3, TendedBy
<1>2. CASE AgentWrites
  <2>1. written + 1 \in 1 .. MaxWrites BY <1>2, LoadFacts DEF AgentWrites
  <2>2. <<"agent", written + 1>> \in Owners BY <2>1 DEF Owners
  <2>3. replies'[Len(replies')] = <<"agent", written + 1>> /\ disk' = written + 1
    BY <1>2, <2>2, LandFacts DEF AgentWrites, Land, Types, WorkTypes
  <2> QED BY <2>3 DEF LastTended, Tended
<1>3. ASSUME NEW v \in 1 .. MaxWrites, StartLoad(v) PROVE LastTended'
  <2> SUFFICES ASSUME ~unsynced', replies' # <<>> PROVE LastTended' BY DEF LastTended
  <2>1. Handle(<<"agent", v>>) /\ ops' = ops /\ disk' = disk /\ ~unsynced BY <1>3 DEF StartLoad
  <2>2. loadGen' = loadGen + 1 BY <1>3, StartLoadFacts
  <2>3. \A k \in Operations : ops[k].pc # "idle" => ops[k].load # loadGen' /\ ops[k].seen.load # loadGen'
    <3>1. \A k \in Operations : ops[k].pc # "idle" => ops[k].load <= loadGen /\ ops[k].seen.load <= loadGen
      BY DEF OpInv, OpPart
    <3> QED BY <2>2, <3>1, OpFields, LoadFacts
  <2>4. PICK r \in Owners : replies'[Len(replies')] = r /\ Tended(r) /\ OfQueue(r)
    BY <2>1, LastStays
  <2>5. Tended(r)' BY <2>1, <2>3, <2>4 DEF Tended, IsCurrent, UpToDate, OfQueue
  <2> QED BY <2>4, <2>5, TendedBy
<1>4. ASSUME NEW v \in 1 .. MaxWrites, CommitLoad(v) PROVE LastTended'
  <2> SUFFICES ASSUME ~unsynced', replies' # <<>> PROVE LastTended' BY DEF LastTended
  <2>1. replies' = replies /\ ~unsynced /\ ops' = ops /\ disk' = disk /\ loadGen' = loadGen /\ mutGen' = mutGen
    BY <1>4 DEF CommitLoad, EndLoad
  <2>2. activeLoad = v /\ v # 0 /\ activeLoad' = 0 /\ content' = v
    BY <1>4, EndLoadFacts DEF CommitLoad
  <2>3. Coming' = Coming BY <2>2 DEF Coming
  <2>4. \A k \in Operations : ops[k].pc # "idle" => ops[k].load # loadGen BY <2>2 DEF OpInv, OpPart
  <2>5. PICK r \in Owners : r = replies[Len(replies)] /\ Tended(r) /\ OfQueue(r) BY <2>1, LastThere
  <2>6. Tended(r)' BY <2>1, <2>3, <2>4, <2>5 DEF Tended, IsCurrent, UpToDate, OfQueue
  <2> QED BY <2>1, <2>5, <2>6, TendedBy
<1>5. ASSUME NEW v \in 1 .. MaxWrites, DropLoad(v) PROVE LastTended'
  <2> SUFFICES ASSUME ~unsynced', replies' # <<>> PROVE LastTended' BY DEF LastTended
  <2>1. replies' = replies /\ ~unsynced BY <1>5 DEF DropLoad, EndLoad
  <2>2. PICK r \in Owners : r = replies[Len(replies)] /\ Tended(r) /\ OfQueue(r) BY <2>1, LastThere
  <2>3. activeLoad' = activeLoad BY <1>5, EndLoadFacts DEF DropLoad
  <2>4. Tended(r)' BY <1>5, <2>2, <2>3, TendedStays DEF DropLoad, EndLoad
  <2> QED BY <2>1, <2>2, <2>4, TendedBy
<1>6. ASSUME NEW v \in 1 .. MaxWrites, LoadFails(v) PROVE LastTended'
  <2> SUFFICES ASSUME ~unsynced', replies' # <<>> PROVE LastTended' BY DEF LastTended
  <2>1. replies' = replies /\ ~unsynced /\ v # loadGen
    BY <1>6, EndLoadFacts DEF LoadFails, EndLoad
  <2>2. PICK r \in Owners : r = replies[Len(replies)] /\ Tended(r) /\ OfQueue(r) BY <2>1, LastThere
  <2>3. activeLoad' = activeLoad BY <1>6, <2>1, EndLoadFacts DEF LoadFails
  <2>4. Tended(r)' BY <1>6, <2>2, <2>3, TendedStays DEF LoadFails, EndLoad
  <2> QED BY <2>1, <2>2, <2>4, TendedBy
<1>7. ASSUME NEW text \in Texts, Decide(text) PROVE LastTended'
  <2> SUFFICES ASSUME ~unsynced', replies' # <<>> PROVE LastTended' BY DEF LastTended
  <2>1. /\ replies' = replies /\ ~unsynced /\ ops' = ops /\ loadGen' = loadGen /\ mutGen' = mutGen
        /\ disk' = text /\ content' = text /\ activeLoad = 0 /\ activeLoad' = 0
    BY <1>7 DEF Decide
  <2>2. undo' # undo /\ pending /\ ~pending' BY <1>7, DecideFacts
  <2>3. Coming' = disk' BY <2>1 DEF Coming
  <2>4. ASSUME NEW k \in Operations, ops[k].pc = "written" PROVE ~IsCurrent(k)'
    <3> SUFFICES ASSUME IsCurrent(k)' PROVE FALSE OBVIOUS
    <3>1. Newest(k) BY <2>1, <2>4 DEF IsCurrent, Newest, Open
    <3>2. Same(k) BY <2>2, <3>1 DEF OpInv, OpPart, Decided
    <3>3. ops'[k].pending /\ ops'[k].undo = undo BY <2>1, <2>2, <3>2 DEF Same
    <3> QED BY <2>2, <3>3 DEF IsCurrent
  <2>5. PICK r \in Owners : r = replies[Len(replies)] /\ Tended(r) /\ OfQueue(r) BY <2>1, LastThere
  <2>6. r[1] # "agent"
    <3>1. r \in ToSet(replies) BY <2>1, <2>5, QueueFacts DEF ToSet
    <3> QED BY <1>7, <3>1 DEF Decide
  <2>7. Tended(r)' BY <2>1, <2>3, <2>4, <2>5, <2>6 DEF Tended, OfQueue
  <2> QED BY <2>1, <2>5, <2>7, TendedBy
<1>8. ASSUME NEW kind \in Kinds, NEW place \in {"compute", "write"},
             NEW text \in Texts, Begin(kind, place, text), Fitting(kind, text)
      PROVE  LastTended'
  <2> SUFFICES ASSUME ~unsynced', replies' # <<>> PROVE LastTended' BY DEF LastTended
  <2>1. /\ replies' = replies /\ ~unsynced /\ mutGen' = mutGen + 1 /\ disk' = disk BY <1>8 DEF Begin
  <2>2. Takes(mutGen + 1, kind, place, text) /\ mutGen + 1 \in Operations
    BY <1>8, TakesFacts DEF Places
  <2>3. mutGen \in Nat BY DEF Types, WorkTypes
  <2>4. ASSUME NEW k \in Operations, ops[k].pc # "idle"
        PROVE  k # mutGen' /\ ops'[k] = ops[k] /\ ops[k].seen.mut # mutGen'
    <3>1. k <= mutGen /\ ops[k].seen.mut <= mutGen BY <2>4 DEF OpInv, OpPart
    <3>2. k # mutGen' /\ ops[k].seen.mut # mutGen' BY <2>1, <2>3, <3>1, OpFields
    <3> QED BY <2>1, <2>2, <3>2 DEF Takes, Only
  <2>5. PICK r \in Owners : r = replies[Len(replies)] /\ Tended(r) /\ OfQueue(r) BY <2>1, LastThere
  <2>6. Tended(r)' BY <2>1, <2>4, <2>5 DEF Tended, IsCurrent, UpToDate, OfQueue
  <2> QED BY <2>1, <2>5, <2>6, TendedBy
<1>9. ASSUME NEW k \in Operations, Computed(k) PROVE LastTended'
  <2> SUFFICES ASSUME ~unsynced', replies' # <<>> PROVE LastTended' BY DEF LastTended
  <2>1. replies' = replies /\ ~unsynced BY <1>9 DEF Computed
  <2>2. PICK r \in Owners : r = replies[Len(replies)] /\ Tended(r) /\ OfQueue(r) BY <2>1, LastThere
  <2>3. Only(k) /\ ops[k].pc = "compute" BY <1>9, OpOnly DEF OpStep, Computed
  <2>4. Tended(r)' BY <1>9, <2>2, <2>3, TendedStays DEF Computed, OfQueue, Only
  <2> QED BY <2>1, <2>2, <2>4, TendedBy
<1>10. ASSUME NEW k \in Operations, WriteLands(k) PROVE LastTended'
  <2>1. replies'[Len(replies')] = <<"op", k>> BY <1>10, LandedQueue
  <2>2. CASE ops[k].pc = "write"
    <3>1. ops'[k].pc = "written" /\ ops'[k].to = ops[k].to /\ disk' = ops[k].to
      BY <1>10, <2>2, MovesFacts DEF WriteLands, Land, Moves, KeepsTaken, Types, Places
    <3> QED BY <2>1, <3>1 DEF LastTended, Tended
  <2>3. CASE ops[k].pc = "repair"
    <3>1. ops'[k].pc = "repaired" /\ ops'[k].seen = ops[k].seen /\ disk' = ops[k].seen.text
      BY <1>10, <2>3, MovesFacts DEF WriteLands, Land, Moves, Types, Places
    <3> QED BY <2>1, <3>1 DEF LastTended, Tended, UpToDate
  <2> QED BY <1>10, <2>2, <2>3 DEF WriteLands
<1>11. ASSUME NEW k \in Operations, WriteFails(k) PROVE LastTended'
  <2> SUFFICES ASSUME ~unsynced', replies' # <<>> PROVE LastTended' BY DEF LastTended
  <2>1. replies' = replies /\ ~unsynced BY <1>11 DEF WriteFails
  <2>2. PICK r \in Owners : r = replies[Len(replies)] /\ Tended(r) /\ OfQueue(r) BY <2>1, LastThere
  <2>3. Only(k) /\ ops[k].pc \in {"write", "repair"} BY <1>11, OpOnly DEF OpStep, WriteFails
  <2>4. Tended(r)' BY <1>11, <2>2, <2>3, TendedStays DEF WriteFails, OfQueue, Only
  <2> QED BY <2>1, <2>2, <2>4, TendedBy
<1>12. ASSUME NEW k \in Operations, CommitOp(k) PROVE LastTended'
  <2> SUFFICES ASSUME ~unsynced', replies' # <<>> PROVE LastTended' BY DEF LastTended
  <2>1. /\ Handle(<<"op", k>>) /\ ~unsynced /\ IsCurrent(k) /\ ops[k].pc = "written"
        /\ content' = ops[k].to /\ UNCHANGED <<disk, loadGen, activeLoad, mutGen>>
    BY <1>12 DEF CommitOp
  <2>2. PICK r \in Owners : /\ replies'[Len(replies')] = r /\ Tended(r)
                            /\ r[1] = "op" => r[2] \in Operations \ {k} /\ ops[r[2]].pc # "idle"
    BY <2>1, LastOther
  <2>3. Only(k) BY <1>12, OpOnly DEF OpStep
  <2>4. activeLoad = 0 /\ mutGen = k /\ Newest(k) /\ Same(k) BY <2>1, CurrentFacts
  <2>5. Coming = content /\ Coming' = content' BY <2>1, <2>4 DEF Coming
  <2>6. ASSUME r[1] = "op", ops'[r[2]].pc = "repaired", UpToDate(r[2])' PROVE disk' = Coming'
    <3>1. ops'[r[2]] = ops[r[2]] /\ r[2] \in Operations BY <2>2, <2>3, <2>6 DEF Only
    <3>2. ops[r[2]].seen.load = loadGen /\ ops[r[2]].seen.mut = mutGen /\ ops[r[2]].seen.text = content'
      BY <2>1, <2>5, <2>6, <3>1 DEF UpToDate
    <3>3. ops[r[2]].seen.text = content BY <2>4, <2>6, <3>1, <3>2 DEF SeenInv, SeenPart
    <3>4. disk = Coming BY <2>2, <2>5, <2>6, <3>1, <3>2, <3>3 DEF Tended, UpToDate
    <3> QED BY <2>1, <2>5, <3>2, <3>3, <3>4
  <2>7. r[1] = "op" => ~IsCurrent(r[2])' BY <2>1, <2>2, <2>4 DEF IsCurrent
  <2>8. Tended(r)' BY <2>1, <2>2, <2>6, <2>7 DEF Tended
  <2> QED BY <2>2, <2>8, TendedBy
<1>13. ASSUME NEW k \in Operations, Compensate(k) PROVE LastTended'
  <2> SUFFICES ASSUME ~unsynced', replies' # <<>> PROVE LastTended' BY DEF LastTended
  <2>1. Handle(<<"op", k>>) /\ ~unsynced BY <1>13 DEF Compensate
  <2>2. PICK r \in Owners : /\ replies'[Len(replies')] = r /\ Tended(r)
                            /\ r[1] = "op" => r[2] \in Operations \ {k} /\ ops[r[2]].pc # "idle"
    BY <2>1, LastOther
  <2>3. Only(k) BY <1>13, OpOnly DEF OpStep
  <2>4. Tended(r)' BY <1>13, <2>2, <2>3, TendedStays DEF Compensate, Only
  <2> QED BY <2>2, <2>4, TendedBy
<1>14. ASSUME NEW k \in Operations, Repaired(k) PROVE LastTended'
  <2> SUFFICES ASSUME ~unsynced', replies' # <<>> PROVE LastTended' BY DEF LastTended
  <2>1. Handle(<<"op", k>>) /\ ~unsynced BY <1>14 DEF Repaired
  <2>2. PICK r \in Owners : /\ replies'[Len(replies')] = r /\ Tended(r)
                            /\ r[1] = "op" => r[2] \in Operations \ {k} /\ ops[r[2]].pc # "idle"
    BY <2>1, LastOther
  <2>3. Only(k) BY <1>14, OpOnly DEF OpStep
  <2>4. Tended(r)' BY <1>14, <2>2, <2>3, TendedStays DEF Repaired, Only
  <2> QED BY <2>2, <2>4, TendedBy
<1> QED BY <1>1, <1>2, <1>3, <1>4, <1>5, <1>6, <1>7, <1>8, <1>9, <1>10, <1>11, <1>12, <1>13,
     <1>14, Cases DEF OpStep

\* A queue that got a reply is not empty.
LEMMA AppendNotEmpty == ASSUME NEW S, NEW s \in Seq(S), NEW e PROVE Append(s, e) # <<>>
<1>1. s \in Seq(S \cup {e}) BY SeqMonotonic
<1> QED BY <1>1, AppendProperties

\* The last reply to be handled was the last written.
LEMMA LastHandled ==
    ASSUME Types, LastTended, NEW who, Handle(who), ~unsynced, replies' = <<>>
    PROVE  Tended(who)
<1>1. /\ Len(replies) \in Nat \ {0} /\ replies # <<>> /\ Len(replies') = Len(replies) - 1
      /\ replies[1] = who
  BY HandleFacts DEF Types, WorkTypes
<1>2. Len(replies) = 1 BY <1>1, EmptySeq
<1> QED BY <1>1, <1>2 DEF LastTended

\* A repair that settles has seen what is coming.
LEMMA SettledFacts ==
    ASSUME Types, OpInv, NEW k \in Operations, ops[k].pc # "idle", Settled(k)
    PROVE  UpToDate(k)
<1>1. ops[k].seen.load = loadGen /\ ops[k].seen.mut = mutGen /\ ops[k].seen.text = CurrentTarget(k)
  BY DEF Settled, SeenBy
<1>2. activeLoad # 0 => ops[k].load # loadGen BY DEF OpInv, OpPart
<1>3. CurrentTarget(k) = Coming BY <1>2, LoadFacts DEF CurrentTarget, Coming
<1> QED BY <1>1, <1>3 DEF UpToDate

\* With nothing on its way the file is right.
LEMMA SyncedStep ==
    ASSUME Types, QueueInv, OpInv, Fits, LastTended, Synced, [Next]_vars
    PROVE  Synced'
<1>1. CASE UNCHANGED vars BY <1>1 DEF vars, Synced, NoRepair, Coming
<1>2. CASE AgentWrites BY <1>2, AppendNotEmpty DEF AgentWrites, Land, Synced, Types, WorkTypes
<1>3. ASSUME NEW v \in 1 .. MaxWrites, StartLoad(v) PROVE Synced'
  <2> SUFFICES ASSUME ~unsynced', replies' = <<>> PROVE disk' = Coming' BY DEF Synced
  <2>1. Handle(<<"agent", v>>) /\ ~unsynced /\ disk' = disk BY <1>3 DEF StartLoad
  <2>2. Tended(<<"agent", v>>) BY <2>1, LastHandled
  <2>3. activeLoad' = v /\ v # 0 BY <1>3, StartLoadFacts, LoadFacts
  <2> QED BY <2>1, <2>2, <2>3 DEF Tended, Coming
<1>4. ASSUME NEW v \in 1 .. MaxWrites, CommitLoad(v) PROVE Synced'
  <2>1. activeLoad = v /\ v # 0 /\ activeLoad' = 0 /\ content' = v
    BY <1>4, EndLoadFacts DEF CommitLoad
  <2>2. Coming' = Coming BY <2>1 DEF Coming
  <2> QED BY <1>4, <2>2 DEF CommitLoad, EndLoad, Synced, NoRepair
<1>5. ASSUME NEW v \in 1 .. MaxWrites, DropLoad(v) PROVE Synced'
  <2>1. activeLoad' = activeLoad BY <1>5, EndLoadFacts DEF DropLoad
  <2> QED BY <1>5, <2>1 DEF DropLoad, EndLoad, Synced, NoRepair, Coming
<1>6. ASSUME NEW v \in 1 .. MaxWrites, LoadFails(v) PROVE Synced'
  <2>1. unsynced' \/ activeLoad' = activeLoad BY <1>6, EndLoadFacts DEF LoadFails, EndLoad
  <2> QED BY <1>6, <2>1 DEF LoadFails, EndLoad, Synced, NoRepair, Coming
<1>7. ASSUME NEW text \in Texts, Decide(text) PROVE Synced'
  <2>1. disk' = text /\ content' = text /\ activeLoad' = 0 BY <1>7 DEF Decide
  <2> QED BY <2>1 DEF Synced, Coming
<1>8. ASSUME NEW kind \in Kinds, NEW place \in {"compute", "write"},
             NEW text \in Texts, Begin(kind, place, text), Fitting(kind, text)
      PROVE  Synced'
  <2>1. /\ Takes(mutGen + 1, kind, place, text) /\ mutGen + 1 \in Operations
    BY <1>8, TakesFacts DEF Places
  <2>2. ops[mutGen + 1].pc = "idle" BY <2>1, LoadFacts DEF OpInv, OpPart, Types, WorkTypes
  <2>3. NoRepair' => NoRepair BY <2>1, <2>2 DEF Takes, Only, NoRepair
  <2> QED BY <1>8, <2>3 DEF Begin, Synced, Coming
<1>9. ASSUME NEW k \in Operations, Computed(k) PROVE Synced'
  <2>1. Only(k) BY <1>9, OpOnly DEF OpStep
  <2>2. NoRepair' => NoRepair BY <1>9, <2>1 DEF Computed, Only, NoRepair
  <2> QED BY <1>9, <2>2 DEF Computed, Synced, Coming
<1>10. ASSUME NEW k \in Operations, WriteLands(k) PROVE Synced' BY <1>10, LandedQueue DEF Synced
<1>11. ASSUME NEW k \in Operations, WriteFails(k) PROVE Synced'
  <2>1. Only(k) BY <1>11, OpOnly DEF OpStep
  <2>2. CASE ops[k].pc = "repair" BY <1>11, <2>2 DEF WriteFails, Synced
  <2>3. CASE ops[k].pc = "write"
    <3>1. NoRepair' => NoRepair BY <2>1, <2>3 DEF Only, NoRepair
    <3>2. unsynced' = (unsynced \/ FALSE) BY <1>11, <2>3 DEF WriteFails
    <3> QED BY <1>11, <3>1, <3>2 DEF WriteFails, Synced, Coming
  <2> QED BY <1>11, <2>2, <2>3 DEF WriteFails
<1>12. ASSUME NEW k \in Operations, CommitOp(k) PROVE Synced'
  <2> SUFFICES ASSUME ~unsynced', replies' = <<>> PROVE disk' = Coming' BY DEF Synced
  <2>1. /\ Handle(<<"op", k>>) /\ ~unsynced /\ disk' = disk /\ IsCurrent(k) /\ ops[k].pc = "written"
        /\ content' = ops[k].to /\ activeLoad' = activeLoad
    BY <1>12 DEF CommitOp
  <2>2. Tended(<<"op", k>>) BY <2>1, LastHandled
  <2>3. activeLoad = 0 BY <2>1, CurrentFacts
  <2> QED BY <2>1, <2>2, <2>3 DEF Tended, Coming
<1>13. ASSUME NEW k \in Operations, Compensate(k) PROVE Synced'
  <2>1. Repairs(k) BY <1>13, RepairsFacts DEF Compensate
  <2> QED BY <2>1 DEF Repairs, Synced, NoRepair
<1>14. ASSUME NEW k \in Operations, Repaired(k) PROVE Synced'
  <2> SUFFICES ASSUME ~unsynced', replies' = <<>>, NoRepair' PROVE disk' = Coming' BY DEF Synced
  <2>1. /\ Handle(<<"op", k>>) /\ disk' = disk /\ ops[k].pc = "repaired"
        /\ UNCHANGED <<content, activeLoad>>
    BY <1>14 DEF Repaired
  <2>2. Settled(k) /\ ~unsynced
    <3>1. ops[k].attempt + 1 \in Nat BY DEF Types, OpTypes, Ops
    <3>2. ~Repair(k, ops[k].attempt + 1) BY <3>1, RepairsFacts DEF Repairs, NoRepair
    <3> QED BY <1>14, <3>2 DEF Repaired
  <2>3. UpToDate(k) BY <2>1, <2>2, SettledFacts
  <2>4. Tended(<<"op", k>>) BY <2>1, <2>2, LastHandled
  <2>5. disk = Coming BY <2>1, <2>3, <2>4 DEF Tended
  <2> QED BY <2>1, <2>5 DEF Coming
<1> QED BY <1>1, <1>2, <1>3, <1>4, <1>5, <1>6, <1>7, <1>8, <1>9, <1>10, <1>11, <1>12, <1>13,
     <1>14, Cases DEF OpStep

\* The newest load is shown, or under way.
LEMMA ShownStep ==
    ASSUME Types, QueueInv, OpInv, LoadShown, [Next]_vars
    PROVE  LoadShown'
<1>1. CASE UNCHANGED vars BY <1>1 DEF vars, LoadShown
<1>2. CASE AgentWrites BY <1>2 DEF AgentWrites, LoadShown
<1>3. ASSUME NEW v \in 1 .. MaxWrites, StartLoad(v) PROVE LoadShown'
  <2>1. activeLoad' = v /\ v # 0 BY <1>3, StartLoadFacts, LoadFacts
  <2> QED BY <2>1 DEF LoadShown
<1>4. ASSUME NEW v \in 1 .. MaxWrites, CommitLoad(v) PROVE LoadShown'
  BY <1>4, EndLoadFacts DEF CommitLoad, EndLoad, LoadShown
<1>5. ASSUME NEW v \in 1 .. MaxWrites, DropLoad(v) PROVE LoadShown'
  <2>1. activeLoad' = activeLoad BY <1>5, EndLoadFacts DEF DropLoad
  <2> QED BY <1>5, <2>1 DEF DropLoad, EndLoad, LoadShown
<1>6. ASSUME NEW v \in 1 .. MaxWrites, LoadFails(v) PROVE LoadShown'
  <2>1. unsynced' \/ activeLoad' = activeLoad BY <1>6, EndLoadFacts DEF LoadFails, EndLoad
  <2> QED BY <1>6, <2>1 DEF LoadFails, EndLoad, LoadShown
<1>7. ASSUME NEW text \in Texts, Decide(text) PROVE LoadShown' BY <1>7 DEF Decide, LoadShown
<1>8. ASSUME NEW kind \in Kinds, NEW place \in {"compute", "write"},
             NEW text \in Texts, Begin(kind, place, text), Fitting(kind, text)
      PROVE  LoadShown'
  BY <1>8 DEF Begin, LoadShown
<1>9. ASSUME NEW k \in Operations, Computed(k) PROVE LoadShown' BY <1>9 DEF Computed, LoadShown
<1>10. ASSUME NEW k \in Operations, WriteLands(k) PROVE LoadShown'
  BY <1>10 DEF WriteLands, LoadShown
<1>11. ASSUME NEW k \in Operations, WriteFails(k) PROVE LoadShown'
  BY <1>11 DEF WriteFails, LoadShown
<1>12. ASSUME NEW k \in Operations, CommitOp(k) PROVE LoadShown'
  <2>1. Newest(k) BY <1>12, CurrentFacts DEF CommitOp
  <2>2. touched' BY <1>12, <2>1 DEF CommitOp, OpInv, OpPart
  <2> QED BY <2>2 DEF LoadShown
<1>13. ASSUME NEW k \in Operations, Compensate(k) PROVE LoadShown'
  BY <1>13 DEF Compensate, LoadShown
<1>14. ASSUME NEW k \in Operations, Repaired(k) PROVE LoadShown' BY <1>14 DEF Repaired, LoadShown
<1> QED BY <1>1, <1>2, <1>3, <1>4, <1>5, <1>6, <1>7, <1>8, <1>9, <1>10, <1>11, <1>12, <1>13,
     <1>14, Cases DEF OpStep

-----------------------------------------------------------------------------
(* Theorems *)

LEMMA InitHolds == ASSUME Init PROVE Inv
<1> USE DEF Init
<1>1. 0 \in Texts /\ MaxOps \in Nat BY DiffHistoryAssumption DEF DiffHistoryAssumption, Texts
<1>2. PanelTypes BY <1>1, EmptySeq DEF PanelTypes
<1>3. WorkTypes
  <2>1. <<>> \in Seq(Owners) BY EmptySeq
  <2>2. 0 \in 0 .. MaxOps /\ 0 \in 0 .. 0 BY <1>1
  <2> QED BY <1>1, <2>1, <2>2 DEF WorkTypes
<1>4. OpTypes BY NoOpType DEF OpTypes
<1>5. LoadInv BY DEF LoadInv, NoTarget
<1>6. QueueInv
  <2>1. DOMAIN replies = {} BY EmptySeq
  <2>2. loadGen + 1 .. written = {} OBVIOUS
  <2> QED BY <2>1, <2>2 DEF QueueInv
<1>7. \A k \in Operations : ops[k].pc = "idle" BY DEF NoOp
<1>8. OpInv /\ SeenInv BY <1>7 DEF OpInv, OpPart, SeenInv, SeenPart, Newest, Open
<1>9. Fits BY EmptyChains DEF Fits
<1>10. LastTended /\ Synced /\ LoadShown BY DEF LastTended, Synced, Coming, LoadShown
<1> QED BY <1>2, <1>3, <1>4, <1>5, <1>6, <1>8, <1>9, <1>10 DEF Inv, Types

\* The invariant holds.
LEMMA Invariance == Spec => []Inv
<1>1. Init => Inv BY InitHolds
<1>2. Inv /\ [Next]_vars => Inv'
  BY TypesStep, QueueStep, OpInvStep, SeenInvStep, FitsStep, TendedStep, SyncedStep, ShownStep DEF
     Inv
<1> QED BY <1>1, <1>2, PTL DEF Spec

\* DiskFollowsPanel: once nothing is under way the file is what the panel shows.
THEOREM FileIsRepaired == Spec => []DiskFollowsPanel
<1>1. Inv => DiskFollowsPanel
  <2> SUFFICES ASSUME Inv, Quiet, ~unsynced PROVE disk = content BY DEF DiskFollowsPanel
  <2>1. NoRepair /\ replies = <<>> BY DEF Quiet, NoRepair
  <2>2. activeLoad = 0 BY LoadFacts DEF Inv, Quiet
  <2> QED BY <2>1, <2>2 DEF Inv, Synced, Coming
<1> QED BY <1>1, Invariance, PTL

\* AgentTextKept: an operation that a load has superseded takes nothing away from the agent.
THEOREM AgentWins == Spec => []AgentTextKept
<1>1. Inv => AgentTextKept
  <2> SUFFICES ASSUME Inv, Quiet, ~unsynced, ~touched PROVE disk = written /\ content = written
    BY DEF AgentTextKept
  <2>1. NoRepair /\ replies = <<>> BY DEF Quiet, NoRepair
  <2>2. activeLoad = 0 BY LoadFacts DEF Inv, Quiet
  <2>3. disk = content /\ content = loadGen BY <2>1, <2>2 DEF Inv, Synced, Coming, LoadShown
  <2>4. loadGen = written
    <3>1. DOMAIN replies = {} BY <2>1, EmptySeq
    <3>2. loadGen + 1 \notin loadGen + 1 .. written BY <3>1 DEF Inv, QueueInv
    <3> QED BY <3>2, LoadFacts DEF Inv
  <2> QED BY <2>3, <2>4
<1> QED BY <1>1, Invariance, PTL

\* HistoryFits: undo and redo always lead from and to what is shown.
THEOREM StacksFit == Spec => []HistoryFits
<1>1. Inv => HistoryFits
  <2> SUFFICES ASSUME Inv PROVE HistoryFits OBVIOUS
  <2>1. Leads(undo, content, pending) /\ Returns(redo, content, pending) BY DEF Inv, Fits
  <2>2. Len(redo) \in Nat /\ redo \in Seq(Entries) BY LenProperties DEF Inv, Types, PanelTypes
  <2>3. Chained(undo) BY <2>1 DEF Chained, Leads
  <2>4. Chained(Reverse(redo))
    <3> DEFINE n == Len(redo)
               r == [i \in 1 .. n |-> redo[(n - i) + 1]]
    <3>1. Reverse(redo) = r BY DEF Reverse
    <3>2. Len(r) = n
      <4>1. \A i \in 1 .. n : redo[(n - i) + 1] \in Entries BY <2>2, ElementOfSeq
      <4> QED BY <2>2, <4>1, IsASeq
    <3>3. ASSUME NEW i \in 1 .. n - 1 PROVE r[i].after = r[i + 1].before
      <4>1. r[i] = redo[(n - i) + 1] /\ r[i + 1] = redo[n - i] BY <2>2
      <4>2. n - i \in 1 .. n - 1 BY <2>2
      <4> QED BY <2>1, <4>1, <4>2 DEF Returns
    <3> HIDE DEF r
    <3> QED BY <3>1, <3>2, <3>3 DEF Chained
  <2>5. /\ undo # <<>> => Last(undo).after = content
        /\ redo # <<>> => Last(redo).before = content
    BY <2>1 DEF Leads, Returns, Last
  <2> QED BY <2>3, <2>4, <2>5 DEF HistoryFits
<1> QED BY <1>1, Invariance, PTL

=============================================================================
