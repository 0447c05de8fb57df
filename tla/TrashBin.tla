------------------------------ MODULE TrashBin ------------------------------
(***************************************************************************)
(* The trash bin: what `rm` and its relatives do when an agent runs them.  *)
(* An item is moved into a store of the application, can be given back or  *)
(* purged, and a manifest on disk says how far each move has come, so that *)
(* a process that died half way is tidied up by the next one               *)
(* (trash_bin.rs, trash_transfer.rs).                                      *)
(*                                                                         *)
(* A path in Local is on the volume of the store and its item is renamed.  *)
(* A path in Remote is not: its item is copied to a candidate, taken by    *)
(* renaming it to a claim beside it, compared, published as payload, and   *)
(* only then the claim is removed.  Giving back mirrors this through a     *)
(* staging directory that carries a marker of its owner.                   *)
(*                                                                         *)
(* An item is a version number; Torn is a tree of which a part is missing. *)
(* Every section that holds the manifest lock is a run of `op` over the    *)
(* entries in todo; each file operation and each write of the manifest is  *)
(* a step, and between two steps the process may die, the call may fail or *)
(* a user may write to the original paths.                                 *)
(***************************************************************************)
EXTENDS Naturals, FiniteSets, SequencesExt

CONSTANTS
    Local, Remote, \* paths on the volume of the store, and on another one
    None, Torn,    \* nothing there; an item of which a part is missing
    Bare, Marked,  \* a staging directory without and with its owner's marker
    MaxEntries,    \* bound: entries ever recorded
    MaxItems,      \* bound: versions ever written by the user
    MaxMishaps,    \* bound: crashes and failed calls
    Recreates      \* whether a user creates a file where an unrecorded claim stands

Paths == Local \cup Remote
Entries == 1 .. MaxEntries
Items == 1 .. MaxItems

States == {"Pending", "PayloadReady", "Claimed", "PayloadVerified", "Ready"}
TrashEntry == [path: Paths, state: States, restore: {None, "Preparing", "Committed"}]

ASSUME TrashAssumption ==
    /\ Local \cap Remote = {}
    /\ {MaxEntries, MaxItems, MaxMishaps} \subseteq Nat
    /\ Recreates \in BOOLEAN
    /\ {None, Torn, Bare, Marked} \cap Items = {}
    /\ None \notin {Torn, Bare, Marked, "Preparing", "Committed"} /\ None \notin TrashEntry
    /\ Torn \notin {Bare, Marked} /\ Bare # Marked

VARIABLES
    src,       \* [Paths -> item]: what stands at the original path
    payload,   \* [Entries -> item]: the item in the store
    claim,     \* [Entries -> item]: the original, renamed and hidden beside its path
    candidate, \* [Entries -> item]: a copy in the store that is not the payload yet
    staging,   \* [Entries -> ...]: a directory beside the path; an item stands for marked with it
    manifest,  \* [Entries -> record]: on disk
    mem,       \* [Entries -> record]: the list of whoever holds the lock
    op, at,    \* what the lock is held for, and the step it is at
    todo,      \* entries the section has still to visit, the smallest one now
    drop,      \* entries the section will leave out when it writes the manifest
    used,      \* entries ever recorded
    tidied,    \* a reconciliation succeeded in the life of this process
    items, mishaps, \* versions written, crashes and failures so far
    taken,     \* history: [Entries -> the item that left its path for this entry]
    given      \* history: entries given back, or purged at the user's word

files == <<payload, claim, candidate, staging>>
history == <<taken, given, used, items, tidied>>
vars == <<src, files, manifest, mem, op, at, todo, drop, mishaps, history>>

e == CHOOSE x \in todo : \A y \in todo : x <= y
entry == mem[e]
p == entry.path

\* Mutant: two trees compare equal when both are there.
MatchLoosely(a, b) == a # None /\ b # None
\* items_match: a copy of which a part is missing never compares equal.
Match(a, b) == a = b /\ a # Torn
\* restore_staging_is_owned: the marker in the directory is this transaction's.
Owned == staging[e] \notin {None, Bare}
WithState(s) == [mem EXCEPT ![e].state = s]
WithRestore(r) == [mem EXCEPT ![e].restore = r]

Init ==
    /\ src = [q \in Paths |-> None]
    /\ payload = [x \in Entries |-> None] /\ claim = payload
    /\ candidate = payload /\ staging = payload /\ taken = payload
    /\ manifest = payload /\ mem = payload
    /\ op = "idle" /\ at = "idle" /\ todo = {} /\ drop = {} /\ given = {}
    /\ tidied = FALSE
    /\ used = 0 /\ items = 0 /\ mishaps = 0

---------------------------------------------------------------------------
\* The end of one entry's turn, and of the section.

Advance == /\ todo' = todo \ {e}
           /\ at' = IF todo = {e} THEN "close" ELSE "look"
           /\ UNCHANGED op
Skip == Advance /\ UNCHANGED drop
Done == Advance /\ drop' = drop \cup {e}
Goto(step) == at' = step /\ UNCHANGED <<op, todo, drop>>
Idle == /\ op' = "idle" /\ at' = "idle" /\ todo' = {} /\ drop' = {}
        /\ mem' = [x \in Entries |-> None]
Mishap == mishaps < MaxMishaps /\ mishaps' = mishaps + 1

\* A write that reports failure may have replaced the file or not: the parent
\* directory is synchronised after the rename.
Save(m) == manifest' = m /\ mem' = m /\ UNCHANGED mishaps
SaveFails(m) == manifest' \in {manifest, m} /\ mem' = m /\ Mishap

\* transfer_failure and its caller: without something to recover, the candidate
\* and the entry go; with it, both stay for reconciliation.
DeleteFails ==
    IF src[p] = None \/ payload[e] # None
    THEN Skip /\ UNCHANGED files
    ELSE Done /\ candidate' = [candidate EXCEPT ![e] = None]
         /\ UNCHANGED <<payload, claim, staging>>

---------------------------------------------------------------------------
\* Moving a batch of items into the store.

\* trash_single_item, trash_multiple_items: the targets exist, and the whole batch
\* is recorded as Pending before the first item moves.
Delete(batch) ==
    LET new == used + 1 .. used + Len(batch)
        m == [x \in Entries |->
                IF x \in new
                THEN [path |-> batch[x - used], state |-> "Pending", restore |-> None]
                ELSE manifest[x]]
    IN  /\ op = "idle" /\ new \subseteq Entries
        /\ \A i \in DOMAIN batch : src[batch[i]] # None
        /\ used' = used + Len(batch)
        /\ \/ /\ Save(m)
              /\ op' = "delete" /\ at' = "look" /\ todo' = new /\ drop' = {}
           \/ manifest' \in {manifest, m} /\ Mishap /\ Idle
        /\ UNCHANGED <<src, files, taken, given, items, tidied>>

\* final_validation, with the test that no restore to this path is under way.
Captured == \E x \in Entries :
    mem[x] # None /\ mem[x].restore # None /\ mem[x].path = p
LookDelete ==
    /\ op = "delete" /\ at = "look"
    /\ \/ src[p] # None /\ ~Captured /\ Goto("take") /\ UNCHANGED mishaps
       \/ (src[p] = None \/ Captured) /\ Done /\ UNCHANGED mishaps
       \/ Mishap /\ Done
    /\ UNCHANGED <<src, files, manifest, mem, history>>

\* try_direct_move: one rename on the volume of the store.
TakeLocal ==
    /\ at = "take" /\ p \in Local
    /\ \/ /\ src[p] # None /\ UNCHANGED mishaps
          /\ payload' = [payload EXCEPT ![e] = src[p]]
          /\ taken' = [taken EXCEPT ![e] = src[p]]
          /\ src' = [src EXCEPT ![p] = None]
          /\ Goto("saveReady") /\ UNCHANGED <<claim, candidate, staging>>
       \/ /\ IF src[p] = None THEN UNCHANGED mishaps ELSE Mishap
          /\ DeleteFails /\ UNCHANGED <<src, taken>>
    /\ UNCHANGED <<manifest, mem, given, used, items, tidied>>

\* copy_source_to_candidate: a copy that did not compare equal is removed.
TakeRemote ==
    /\ at = "take" /\ p \in Remote
    /\ \/ /\ src[p] # None /\ UNCHANGED mishaps
          /\ candidate' = [candidate EXCEPT ![e] = src[p]]
          /\ Goto("saveCopied") /\ UNCHANGED <<payload, claim, staging>>
       \/ /\ IF src[p] = None THEN UNCHANGED mishaps ELSE Mishap
          /\ DeleteFails
    /\ UNCHANGED <<src, manifest, mem, history>>
SaveCopied ==
    /\ at = "saveCopied"
    /\ \/ Save(WithState("PayloadReady")) /\ Goto("claim") /\ UNCHANGED files
       \/ SaveFails(WithState("PayloadReady")) /\ DeleteFails
    /\ UNCHANGED <<src, history>>

\* claim_source: the user's name for the item is gone from here on.
ClaimSource ==
    /\ at = "claim"
    /\ \/ /\ src[p] # None /\ UNCHANGED mishaps
          /\ claim' = [claim EXCEPT ![e] = src[p]]
          /\ taken' = [taken EXCEPT ![e] = src[p]]
          /\ src' = [src EXCEPT ![p] = None]
          /\ Goto("saveClaimed") /\ UNCHANGED <<payload, candidate, staging>>
       \/ /\ IF src[p] = None THEN UNCHANGED mishaps ELSE Mishap
          /\ DeleteFails /\ UNCHANGED <<src, taken>>
    /\ UNCHANGED <<manifest, mem, given, used, items, tidied>>

\* persist_transfer_state after the source was claimed: a failure leaves the
\* entry for reconciliation.
Persist(step, state, next) ==
    /\ at = step
    /\ \/ Save(WithState(state)) /\ (IF next = "end" THEN Skip ELSE Goto(next))
       \/ SaveFails(WithState(state)) /\ Skip
    /\ UNCHANGED <<src, files, history>>
SaveClaimed == Persist("saveClaimed", "Claimed", "compare")
SaveVerified == Persist("saveVerified", "PayloadVerified", "clean")
SaveReady == Persist("saveReady", "Ready", "end")

\* The user wrote to the source while it was copied: copy the claim again.
Compare ==
    /\ at = "compare"
    /\ candidate' = [candidate EXCEPT ![e] = claim[e]]
    /\ Goto("publish")
    /\ UNCHANGED <<src, payload, claim, staging, manifest, mem, mishaps, history>>

\* publish_candidate; the directory is synchronised after the rename, and when
\* that fails the payload stands although the step did not succeed.
Publish ==
    /\ at = "publish" /\ payload[e] = None
    /\ payload' = [payload EXCEPT ![e] = candidate[e]]
    /\ candidate' = [candidate EXCEPT ![e] = None]
    /\ (Goto("verify") /\ UNCHANGED mishaps) \/ (Skip /\ Mishap)
    /\ UNCHANGED <<src, claim, staging, manifest, mem, history>>

\* Mutant: what was published is not compared with the claim again.
VerifyNothing ==
    /\ at = "verify" /\ Goto("saveVerified")
    /\ UNCHANGED <<src, files, manifest, mem, mishaps, history>>
\* verify_claim_payload: the last comparison before the original is destroyed.
Verify ==
    /\ at = "verify"
    /\ IF Match(claim[e], payload[e]) THEN Goto("saveVerified") ELSE Skip
    /\ UNCHANGED <<src, files, manifest, mem, mishaps, history>>

\* finish_verified_claim_cleanup.  Reconciliation also removes the candidate and
\* leaves the record of Ready to its final write.
Clean ==
    /\ at = "clean"
    /\ claim' = [claim EXCEPT ![e] = None]
    /\ IF op = "delete"
       THEN Goto("saveReady") /\ UNCHANGED <<candidate, mem>>
       ELSE /\ Skip /\ mem' = WithState("Ready")
            /\ candidate' = [candidate EXCEPT ![e] = None]
    /\ UNCHANGED <<src, payload, staging, manifest, mishaps, history>>

---------------------------------------------------------------------------
\* Reconciliation: the first thing every list, restore or purge does.

Recorded == {x \in Entries : manifest[x] # None}
Open(o, S) ==
    /\ op = "idle" /\ S \subseteq Recorded
    /\ op' = o /\ at' = (IF S = {} THEN "close" ELSE "look") /\ todo' = S /\ drop' = {} /\ mem' = manifest
    /\ UNCHANGED <<src, files, manifest, mishaps, history>>
Reconcile == Open("reconcile", Recorded)

\* The branches for an interrupted restore: what stands at the path, and in the store.
LookRestoring ==
    /\ op = "reconcile" /\ at = "look" /\ entry.restore # None
    /\ LET back == src[p] # None
           stored == payload[e] # None
       IN  \/ back /\ entry.restore = "Preparing" /\ Goto("verifyBack")
           \/ back /\ entry.restore = "Committed"
              /\ Goto(IF stored THEN "finishBack" ELSE "unstage")
           \/ ~back /\ stored /\ entry.restore = "Preparing" /\ Goto("retry")
           \/ ~back /\ (stored => entry.restore = "Committed") /\ Skip
    /\ UNCHANGED <<src, files, manifest, mem, mishaps, history>>

\* The branches for an interrupted delete, in the order of the code.
LookMoving ==
    /\ op = "reconcile" /\ at = "look" /\ entry.restore = None
    /\ LET stored == payload[e] # None
           claimed == claim[e] # None
           left == entry.state = "Claimed" \/ src[p] = None
           moving == entry.state \notin {"Ready", "PayloadVerified"}
       IN  \/ entry.state = "Ready" /\ Skip /\ UNCHANGED mem
           \/ entry.state = "PayloadVerified" /\ UNCHANGED mem
              /\ IF stored THEN Goto("clean") ELSE Skip
           \/ moving /\ stored /\ ~claimed /\ left /\ Goto("tidy") /\ UNCHANGED mem
           \/ moving /\ claimed /\ left /\ mem' = WithState("Claimed")
              /\ Goto(IF stored THEN "verify" ELSE "compare")
           \/ moving /\ ~(left /\ (stored \/ claimed)) /\ UNCHANGED mem
              /\ IF /\ entry.state \in {"Pending", "PayloadReady"}
                    /\ src[p] # None /\ ~stored
                 THEN Goto("abandon") ELSE Skip
    /\ UNCHANGED <<src, files, manifest, mishaps, history>>

\* remove_candidate_if_present: the move is complete, or was never begun.
Tidy ==
    /\ at \in {"tidy", "abandon"}
    /\ candidate' = [candidate EXCEPT ![e] = None]
    /\ IF at = "tidy" THEN Skip /\ mem' = WithState("Ready") ELSE Done /\ UNCHANGED mem
    /\ UNCHANGED <<src, payload, claim, staging, manifest, mishaps, history>>

---------------------------------------------------------------------------
\* Giving items back.

\* The manifest still says that the original has not been touched although it was
\* already claimed.  Unless Recreates, nothing is put there again.
Unrecorded(q) == \E x \in Recorded :
    manifest[x].path = q /\ manifest[x].state = "PayloadReady" /\ claim[x] # None

Restore(S) == /\ tidied /\ Open("restore", S)
              /\ Recreates \/ \A x \in S : ~Unrecorded(manifest[x].path)
LookRestore ==
    /\ op = "restore" /\ at = "look"
    /\ LET ready == entry.state = "Ready" /\ entry.restore = None
       IN  \/ ~ready /\ Skip /\ UNCHANGED <<mem, staging>>
           \/ ready /\ payload[e] = None /\ Done /\ UNCHANGED <<mem, staging>>
           \/ ready /\ payload[e] # None /\ src[p] # None /\ Skip /\ UNCHANGED <<mem, staging>>
           \/ /\ ready /\ payload[e] # None /\ src[p] = None
              /\ mem' = WithRestore("Preparing")
              /\ staging' = [staging EXCEPT ![e] = None] \* a new id, a new directory
              /\ Goto("savePreparing")
    /\ UNCHANGED <<src, payload, claim, candidate, manifest, mishaps, history>>
SavePreparing ==
    /\ at = "savePreparing"
    /\ \/ Save(mem) /\ Goto("giveBack")
       \/ Mishap /\ manifest' \in {manifest, mem} /\ mem' = WithRestore(None) /\ Skip
    /\ UNCHANGED <<src, files, history>>

\* Mutant: the rename replaces what stands there.
PutBackOver(item) ==
    /\ src' = [src EXCEPT ![p] = item]
    /\ given' = given \cup {e}
    /\ Goto("verifyBack")
\* commit_restore: a rename that replaces nothing, from the store or, on another
\* volume, from a marked staging directory the payload was copied to.
PutBack(item) ==
    /\ src[p] = None
    /\ src' = [src EXCEPT ![p] = item]
    /\ given' = given \cup {e}
    /\ Goto("verifyBack")
GiveBackLocal ==
    /\ at = "giveBack" /\ p \in Local
    /\ PutBack(payload[e]) /\ payload' = [payload EXCEPT ![e] = None]
    /\ UNCHANGED <<claim, candidate, staging, manifest, mem, mishaps, taken, used, items, tidied>>
Stage ==
    /\ at = "giveBack" /\ p \in Remote
    /\ staging' = [staging EXCEPT ![e] = Marked] /\ Goto("copyBack")
    /\ UNCHANGED <<src, payload, claim, candidate, manifest, mem, mishaps, history>>
CopyBack ==
    /\ at = "copyBack"
    /\ staging' = [staging EXCEPT ![e] = payload[e]] /\ Goto("putBack")
    /\ UNCHANGED <<src, payload, claim, candidate, manifest, mem, mishaps, history>>
GiveBackRemote ==
    /\ at = "putBack"
    /\ PutBack(staging[e]) /\ staging' = [staging EXCEPT ![e] = Marked]
    /\ UNCHANGED <<payload, claim, candidate, manifest, mem, mishaps, taken, used, items, tidied>>
\* Something stands at the path again: rename replaces nothing.
Occupied ==
    /\ \/ at = "giveBack" /\ p \in Local
       \/ at = "putBack"
    /\ src[p] # None /\ Goto("undo")
    /\ UNCHANGED <<src, files, manifest, mem, mishaps, history>>

\* discard_restore_staging, and the journal forgets the attempt.
Undo ==
    /\ at = "undo"
    /\ IF staging[e] = Bare THEN Skip /\ UNCHANGED <<mem, staging>>
       ELSE /\ staging' = [staging EXCEPT ![e] = None]
            /\ mem' = WithRestore(None) /\ Goto("saveUndone")
    /\ UNCHANGED <<src, payload, claim, candidate, manifest, mishaps, history>>
SaveUndone ==
    /\ at = "saveUndone" /\ Skip
    /\ Save(mem) \/ SaveFails(mem)
    /\ UNCHANGED <<src, files, history>>

\* verify_restore_commit and the record that the destination is complete.  From here
\* on the item counts as given back, whoever put it there.
VerifyBack ==
    /\ at = "verifyBack"
    /\ IF src[p] # None /\ (payload[e] # None => Match(payload[e], src[p]))
       THEN Goto("saveCommitted") /\ given' = given \cup {e} ELSE Skip /\ UNCHANGED given
    /\ UNCHANGED <<src, files, manifest, mem, mishaps, taken, used, items, tidied>>
SaveCommitted ==
    /\ at = "saveCommitted"
    /\ \/ /\ Save(WithRestore("Committed"))
          /\ Goto(IF op = "reconcile" /\ payload[e] = None THEN "unstage" ELSE "finishBack")
       \/ SaveFails(WithRestore("Committed")) /\ Skip
    /\ UNCHANGED <<src, files, history>>

\* finish_committed_restore: the staging first, the stored item last.  An unmarked
\* directory is only removed while the stored item is still there.
FinishBack ==
    /\ at = "finishBack"
    /\ IF staging[e] = Bare /\ payload[e] = None THEN Skip /\ UNCHANGED staging
       ELSE /\ staging' = [staging EXCEPT ![e] = None]
            /\ IF payload[e] = None THEN Done ELSE Goto("clearPayload")
    /\ UNCHANGED <<src, payload, claim, candidate, manifest, mem, mishaps, history>>
ClearPayload ==
    /\ at = "clearPayload" /\ Done
    /\ payload' = [payload EXCEPT ![e] = None]
    /\ UNCHANGED <<src, claim, candidate, staging, manifest, mem, mishaps, history>>
\* Reconciliation: the item is back and the store is empty; or it is not back and
\* the attempt can be forgotten.
Unstage ==
    /\ at \in {"unstage", "retry"}
    /\ staging' = IF Owned THEN [staging EXCEPT ![e] = None] ELSE staging
    /\ IF at = "unstage" THEN Done /\ UNCHANGED mem ELSE Skip /\ mem' = WithRestore(None)
    /\ UNCHANGED <<src, payload, claim, candidate, manifest, mishaps, history>>

---------------------------------------------------------------------------
\* delete_entries_matching, cleanup_expired_items: only what is Ready goes.

Purge(S) == tidied /\ Open("purge", S)
LookPurge ==
    /\ op = "purge" /\ at = "look"
    /\ LET ready == entry.state = "Ready" /\ entry.restore = None
       IN  \/ ~ready /\ Skip /\ UNCHANGED given
           \/ ready /\ payload[e] = None /\ Done /\ UNCHANGED given
           \/ ready /\ payload[e] # None /\ Goto("clearPayload") /\ given' = given \cup {e}
    /\ UNCHANGED <<src, files, manifest, mem, mishaps, taken, used, items, tidied>>

---------------------------------------------------------------------------
\* The final write of every section, and what goes wrong.

Close ==
    /\ at = "close"
    /\ LET m == [x \in Entries |-> IF x \in drop THEN None ELSE mem[x]]
       IN  \/ manifest' = m /\ UNCHANGED mishaps /\ tidied' = (tidied \/ op = "reconcile")
           \/ manifest' \in {manifest, m} /\ Mishap /\ UNCHANGED tidied
    /\ Idle /\ UNCHANGED <<src, files, taken, given, used, items>>

\* How the object under work may be left by a call that fails or a process that
\* dies in the middle of it.
Half(f, steps, left) == {f} \cup
    IF at \in steps /\ f[e] # None THEN {[f EXCEPT ![e] = x] : x \in left} ELSE {}
Halfway ==
    /\ candidate' \in Half(candidate, {"compare"}, {None, Torn})
         \cup IF at = "take" /\ p \in Remote
              THEN {[candidate EXCEPT ![e] = Torn]} ELSE {}
    /\ claim' \in Half(claim, {"clean"}, {Torn})
    /\ payload' \in Half(payload, {"clearPayload"}, {Torn})
    /\ staging' \in
         Half(staging, {"copyBack"}, {None, Bare, Torn})
         \cup Half(staging, {"putBack"}, {None, Bare, Marked, Torn})
         \cup (IF at = "giveBack" /\ p \in Remote
               THEN {[staging EXCEPT ![e] = Bare]} ELSE {})
         \cup (IF Owned THEN Half(staging, {"finishBack", "unstage", "retry", "undo"},
                                  {Bare, Marked, Torn}) ELSE {})

\* Mutant: a copy that stopped half way is put back all the same.
CallFailsUnseen ==
    /\ todo # {} /\ Mishap /\ Halfway
    /\ at = "copyBack" /\ Goto("putBack")
    /\ UNCHANGED <<src, manifest, mem, history>>
CallFails ==
    /\ todo # {} /\ Mishap /\ Halfway
    /\ \/ at \in {"giveBack", "copyBack", "putBack"} /\ Goto("undo")
       \/ at = "look" /\ op # "delete" /\ Skip
       \/ at \in {"compare", "publish", "verify", "clean", "tidy", "abandon", "undo",
                  "verifyBack", "finishBack", "clearPayload", "unstage", "retry"} /\ Skip
    /\ UNCHANGED <<src, manifest, mem, history>>

Crash ==
    /\ op # "idle" /\ Mishap /\ Idle /\ tidied' = FALSE
    /\ IF todo = {} THEN UNCHANGED files ELSE Halfway
    /\ UNCHANGED <<src, manifest, taken, given, used, items>>

---------------------------------------------------------------------------
\* The user, and programs that still hold the item open.

\* Writes or creates.
Write(q) ==
    /\ items < MaxItems /\ items' = items + 1
    /\ Recreates \/ ~Unrecorded(q)
    /\ src' = [src EXCEPT ![q] = items + 1]
    /\ UNCHANGED <<files, manifest, mem, op, at, todo, drop, mishaps, taken, given, used, tidied>>
Discard(q) ==
    /\ src[q] # None
    /\ src' = [src EXCEPT ![q] = None]
    /\ UNCHANGED <<files, manifest, mem, op, at, todo, drop, mishaps, history>>
\* An open handle follows the rename.  Not once the claim was compared for the
\* last time: the window up to its removal is an assumption about the environment.
LateWrite(x) ==
    /\ claim[x] \in Items /\ items < MaxItems /\ items' = items + 1
    /\ \A m \in {manifest[x], mem[x]} : m # None => m.state # "PayloadVerified"
    /\ ~(x \in todo /\ x = e /\ at \in {"saveVerified", "clean"})
    /\ claim' = [claim EXCEPT ![x] = items + 1]
    /\ taken' = [taken EXCEPT ![x] = items + 1]
    /\ UNCHANGED <<src, payload, candidate, staging, manifest, mem, op, at, todo, drop,
                   mishaps, given, used, tidied>>

Batches == {q \in SeqOf(Paths, Cardinality(Paths)) : q # <<>> /\ IsInjective(q)}
User == \/ \E q \in Paths : Write(q) \/ Discard(q)
        \/ \E x \in Entries : LateWrite(x)
Move == \/ LookDelete \/ TakeLocal \/ TakeRemote \/ SaveCopied \/ ClaimSource
        \/ SaveClaimed \/ Compare \/ Publish \/ Verify \/ SaveVerified \/ Clean \/ SaveReady
Recover == LookRestoring \/ LookMoving \/ Tidy \/ Unstage
Return == \/ LookRestore \/ SavePreparing \/ GiveBackLocal \/ Stage \/ CopyBack
          \/ GiveBackRemote \/ Occupied \/ Undo \/ SaveUndone \/ VerifyBack
          \/ SaveCommitted \/ FinishBack \/ ClearPayload
Request == \/ \E batch \in Batches : Delete(batch)
           \/ Reconcile
           \/ \E S \in SUBSET Recorded : Restore(S) \/ Purge(S)
Bin == Request \/ Move \/ Recover \/ Return \/ LookPurge \/ Close \/ CallFails \/ Crash
Next == Bin \/ User
Spec == Init /\ [][Next]_vars
---------------------------------------------------------------------------
\* Properties.

\* Every variable has its type, and the list in memory exists only under the lock.
TypeOK ==
    /\ src \in [Paths -> Items \cup {None, Torn}]
    /\ {payload, claim, candidate, taken} \subseteq [Entries -> Items \cup {None, Torn}]
    /\ staging \in [Entries -> Items \cup {None, Torn, Bare, Marked}]
    /\ {manifest, mem} \subseteq [Entries -> TrashEntry \cup {None}]
    /\ todo \cup drop \cup given \subseteq 1 .. used
    /\ used \in 0 .. MaxEntries /\ items \in 0 .. MaxItems /\ mishaps \in 0 .. MaxMishaps
    /\ op = "idle" => at = "idle" /\ todo = {} /\ mem = [x \in Entries |-> None]
    /\ op # "idle" => at = "close" <=> todo = {}

\* An item that left its path and was neither given back nor purged is recorded on
\* disk, and stands whole in the store or in its claim: whatever crashed or failed
\* (trash_bin.rs:5056).
NothingIsLost ==
    \A x \in Entries : taken[x] # None /\ x \notin given =>
        manifest[x] # None /\ taken[x] \in {payload[x], claim[x]}

\* What the list offers for restoring is exactly what was deleted: an entry that the
\* manifest calls Ready has it whole in the store, no matter how its move was finished.
ReadyIsWhole ==
    \A x \in Entries :
        /\ manifest[x] # None /\ manifest[x].state = "Ready" /\ manifest[x].restore = None
        /\ x \notin given
        => payload[x] = taken[x] /\ taken[x] # None

\* The trash bin never destroys what stands at a user's path: it takes it, whole, for
\* an entry of that path, and never puts anything over it (rename_no_replace).
NothingIsOverwritten ==
    [][~User => \A q \in Paths : src[q] # None /\ src'[q] # src[q] =>
          /\ src'[q] = None
          /\ \E x \in Entries : taken[x] = None /\ taken'[x] = src[q]
                              /\ manifest[x].path = q]_vars

\* What a restore puts at the path is what was deleted from there.
RestoreGivesBack ==
    [][\A x \in given' \ given : op = "restore" => src'[p] = taken[x] /\ x = e]_vars

===========================================================================
