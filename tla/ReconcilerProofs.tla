---------------------------- MODULE ReconcilerProofs ----------------------------
(* Type correctness of the reconciliation loop, the references the rows hold,  *)
(* and the refinement of Lifecycle, for any number of releases, rows, slots    *)
(* and crashes: what the loop does with a listing that requests, TorBox and    *)
(* the other loops have overtaken.                                             *)
EXTENDS Reconciler, RequestsProofs

(* The last part of reconcilePass, row by row, and the steps with a row at hand. *)
Each     == {"each", "confirm", "found", "fail", "failClear", "failMark"}
Handling == Each \ {"each"}
NoneAtHand == {"idle", "arr", "prune", "listed", "mylist", "reap", "each"}

(* A listed row is the row of its release still, active, or it is deleted: no  *)
(* other loop moves an active row, and no id is given twice.                   *)
Held(t) == /\ t.id <= lastId
           /\ rows[t.id].state \in {"NONE", "TORBOX_ACTIVE"}
           /\ Exists(rows, t.id) => rows[t.id].hash = t.hash

OnePerRow(listed) == \A t, other \in listed : t.id = other.id => t = other

Worklists ==
  /\ \A t \in active : Held(t)
  /\ OnePerRow(active)
  /\ at \in Each => /\ active = {} /\ OnePerRow(todo)
                    /\ \A t \in todo : Held(t)
  /\ at \in Handling => Held(cur) /\ \A t \in todo : t.id # cur.id
  /\ at \notin NoneAtHand => cur \in Listing

(* mylist, as read, is right still about the release of an id, or the id is free. *)
Shown == \A tb \in TbIds : seen[tb] # NoEntry => StandsFor(account, tb, seen[tb].hash)

PassType ==
  /\ at \in Steps
  /\ todo \subseteq Listing
  /\ active \subseteq Listing
  /\ seen \in [TbIds -> Entry]
  /\ cur \in Listing \cup {NoCur}
  /\ tried \subseteq Ids
  /\ crashes \in 0 .. MaxCrashes

Stored == SharedTypeOK /\ DeletesNamed /\ Sound(rows, lastId)

(* The inductive invariant, and what a step does. *)
IInv == Stored /\ OwnRefs(rows, account) /\ Shown /\ PassType /\ Worklists

Effect == IInv' /\ [Life!Next]_(Life!lifeVars)

-----------------------------------------------------------------------------
(* Each statement of the store, as a step of Lifecycle. *)

LEMMA LifeStutters ==
  ASSUME SameLife(rows, rows'), lastId' = lastId
  PROVE  UNCHANGED Life!lifeVars
BY DEF SameLife, StatesOf, HashesOf, Life!lifeVars

LEMMA LifeMoves ==
  ASSUME rows \in Table, NEW id \in Ids, NEW state,
         <<rows[id].state, state>> \in Life!Moves,
         StatesOf(rows') = [StatesOf(rows) EXCEPT ![id] = state],
         HashesOf(rows') = HashesOf(rows), lastId' = lastId
  PROVE  Life!Next
<1>1. Life!Move(id)
  BY DEF Life!Move, StatesOf, HashesOf
<1>. QED  BY <1>1 DEF Life!Next

(* The instance counts with the Cardinality of its own module. *)
LEMMA LifeCounts ==
  ASSUME NEW ids
  PROVE  Life!Cardinality(ids) = Cardinality(ids)
BY DEF Life!Cardinality, Cardinality

LEMMA LifeSubmits ==
  ASSUME rows \in Table, NEW id \in Ids, rows[id].state = "QUEUED",
         CountActiveSlots(rows) < MaxSlots,
         StatesOf(rows') = [StatesOf(rows) EXCEPT ![id] = "TORBOX_ACTIVE"],
         HashesOf(rows') = HashesOf(rows), lastId' = lastId
  PROVE  Life!Next
<1> DEFINE states == [other \in Ids |-> rows[other].state]
           holding == {other \in Ids : states[other] = "TORBOX_ACTIVE"}
<1>1. holding = InState(rows, {"TORBOX_ACTIVE"})
  BY DEF InState
<1>2. Life!Cardinality(holding) < MaxSlots
  BY <1>1, LifeCounts DEF CountActiveSlots
<1>3. /\ states[id] = "QUEUED"
      /\ [other \in Ids |-> rows'[other].state] = [states EXCEPT ![id] = "TORBOX_ACTIVE"]
      /\ [other \in Ids |-> rows'[other].hash] = [other \in Ids |-> rows[other].hash]
  BY DEF StatesOf, HashesOf
<1>4. Life!Submit(id)
  BY <1>2, <1>3 DEF Life!Submit
<1>. QED  BY <1>4 DEF Life!Next

LEMMA RequestLives ==
  ASSUME SharedTypeOK, Sound(rows, lastId), NEW h \in Hashes, RequestLife(h)
  PROVE  [Life!Next]_(Life!lifeVars)
<1>1. CASE SameLife(rows, rows') /\ lastId' = lastId
  BY <1>1, LifeStutters
<1>2. ASSUME NEW id \in Ids, id = lastId + 1, lastId' = id, RowsOf(rows, h) = {},
             StatesOf(rows') = [StatesOf(rows) EXCEPT ![id] = "QUEUED"],
             HashesOf(rows') = [HashesOf(rows) EXCEPT ![id] = h]
      PROVE  Life!Next
  <2>1. id \notin 1 .. lastId /\ 1 .. lastId' = (1 .. lastId) \cup {id}
    BY <1>2 DEF SharedTypeOK
  <2>2. \A other \in Life!Rows : HashesOf(rows)[other] # h
    BY <1>2 DEF Life!Rows, RowsOf, Exists, HashesOf
  <2>3. Life!Track(id, h)
    BY <1>2, <2>1, <2>2 DEF Life!Track, StatesOf, HashesOf
  <2>. QED  BY <2>3 DEF Life!Next
<1>3. CASE OneRequeued(rows, rows') /\ lastId' = lastId
  <2>1. PICK id \in Ids : /\ rows[id].state = "ERROR"
                          /\ StatesOf(rows') = [StatesOf(rows) EXCEPT ![id] = "QUEUED"]
    BY <1>3 DEF OneRequeued
  <2>2. <<rows[id].state, "QUEUED">> \in Life!Moves
    BY <2>1 DEF Life!Moves
  <2>. QED  BY <1>3, <2>1, <2>2, LifeMoves DEF SharedTypeOK, Table, OneRequeued
<1>4. CASE OneDropped(rows, rows') /\ lastId' = lastId
  <2>1. PICK id \in Ids : /\ Exists(rows, id)
                          /\ StatesOf(rows') = [StatesOf(rows) EXCEPT ![id] = "NONE"]
                          /\ HashesOf(rows') = [HashesOf(rows) EXCEPT ![id] = NoHash]
    BY <1>4 DEF OneDropped
  <2>2. Life!Forget(id)
    BY <1>4, <2>1 DEF Life!Forget, Life!Rows, StatesOf, HashesOf, Exists
  <2>. QED  BY <2>2 DEF Life!Next
<1>. QED  BY <1>1, <1>2, <1>3, <1>4 DEF RequestLife

-----------------------------------------------------------------------------
(* What a step has to show. *)

LEMMA StoredParts ==
  ASSUME IInv
  PROVE  /\ rows \in Table /\ lastId \in Nat /\ account \in [TbIds -> Entry]
         /\ Sound(rows, lastId) /\ SharedTypeOK /\ DeletesNamed
BY DEF IInv, Stored, SharedTypeOK, Table

(* A statement that keeps the rows and their torrents, or none. *)
LEMMA StoredKept ==
  ASSUME IInv, rows' \in Table, RowsKept(rows, rows'), account' \in [TbIds -> Entry],
         UNCHANGED <<lastId, adds, requestVars>>
  PROVE  Stored'
<1>1. Sound(rows', lastId')
  BY StoredParts, SoundKept
<1>. QED  BY <1>1 DEF IInv, Stored, SharedTypeOK, DeletesNamed, Table, requestVars

LEMMA ShownKept ==
  ASSUME IInv, EntriesKept(account, account'), seen' \in {seen, Unseen}
  PROVE  Shown'
BY DEF IInv, Shown, EntriesKept, StandsFor, Unseen

LEMMA HeldKept ==
  ASSUME IInv, lastId <= lastId', lastId' \in Nat, GivenKept(rows, rows', lastId),
         StatesKept(rows, rows', {"TORBOX_ACTIVE"}), NEW t \in Listing, Held(t)
  PROVE  Held(t)'
<1>1. NoRow.state = "NONE" /\ t.id \in Ids /\ lastId \in Nat
  BY StoredParts DEF NoRow, Listing
<1>2. rows'[t.id] = NoRow \/ (Exists(rows, t.id) /\ rows'[t.id].hash = rows[t.id].hash)
  BY <1>1 DEF Held, GivenKept
<1>3. t.id <= lastId'
  BY <1>1 DEF Held, Ids
<1>. QED  BY <1>1, <1>2, <1>3 DEF Held, StatesKept, Exists

(* A step of the pass that leaves the table alone, and of the account takes    *)
(* entries only.                                                               *)
LEMMA Quiet ==
  ASSUME IInv, UNCHANGED <<rows, lastId, adds, requestVars>>,
         account' \in [TbIds -> Entry], EntriesKept(account, account'),
         Shown', PassType', Worklists'
  PROVE  Effect
<1>1. RowsKept(rows, rows') /\ RefsKept(rows, rows') /\ SameLife(rows, rows')
  BY StoredParts, NothingChanges
<1>2. Stored'
  BY <1>1, StoredParts, StoredKept
<1>3. OwnRefs(rows', account')
  BY <1>1, StoredParts, OwnRefsKept DEF IInv
<1>. QED  BY <1>1, <1>2, <1>3, LifeStutters DEF Effect, IInv

(* One that runs a statement that moves no row. *)
LEMMA Rewrites ==
  ASSUME IInv, rows' \in Table, RowsKept(rows, rows'), RefsKept(rows, rows'),
         SameLife(rows, rows') \/ [Life!Next]_(Life!lifeVars),
         UNCHANGED <<lastId, adds, account, requestVars, seen>>, PassType', Worklists'
  PROVE  Effect
<1>1. Stored'
  BY StoredParts, StoredKept
<1>2. OwnRefs(rows', account') /\ Shown'
  BY StoredParts, OwnRefsKept, AccountUnchanged, ShownKept DEF IInv
<1>. QED  BY <1>1, <1>2, LifeStutters DEF Effect, IInv

(* The rows a listing returns. *)
LEMMA ListedRows ==
  ASSUME IInv, NEW ids \in SUBSET Ids, \A id \in ids : Exists(rows, id)
  PROVE  /\ AsListed(ids) \subseteq Listing /\ OnePerRow(AsListed(ids))
         /\ \A t \in AsListed(ids) : /\ t.id \in ids /\ t.id <= lastId
                                     /\ t.hash = rows[t.id].hash /\ t.ref = rows[t.id].ref
<1>1. \A id \in ids : /\ rows[id].hash \in Hashes /\ id <= lastId
                      /\ rows[id].ref \in TbIds \cup {Null}
  BY StoredParts DEF Sound, Table, Row
<1>2. \A t \in AsListed(ids) : /\ t \in [id : ids, hash : Hashes, ref : TbIds \cup {Null}]
                               /\ t = [id |-> t.id, hash |-> rows[t.id].hash, ref |-> rows[t.id].ref]
  BY <1>1 DEF AsListed
<1>3. OnePerRow(AsListed(ids))
  BY <1>2 DEF OnePerRow
<1>4. AsListed(ids) \subseteq Listing
  BY <1>2 DEF Listing
<1>5. ASSUME NEW t \in AsListed(ids)
      PROVE  /\ t.id \in ids /\ t.id <= lastId
             /\ t.hash = rows[t.id].hash /\ t.ref = rows[t.id].ref
  BY <1>1, <1>2
<1>. QED  BY <1>3, <1>4, <1>5

-----------------------------------------------------------------------------
(* arrPass and prunePass.  Nothing they do depends on what a listing showed:   *)
(* the mark is set, and the row dropped, whatever became of the torrent.       *)

LEMMA ArrLinks ==
  ASSUME IInv,
         ArrLists \/ \E t \in todo : ArrWaits(t) \/ ArrUnsettled(t) \/ ArrSettled(t)
  PROVE  Effect
<1>0. /\ UNCHANGED <<rows, lastId, adds, requestVars, account, active, seen, crashes>>
      /\ at' \in {"arr", "arrMark"}
  BY DEF ArrLists, ArrWaits, ArrUnsettled, ArrSettled, Goes, sharedVars, requestVars
<1>1. PassType' /\ (at' = "arrMark" => cur' \in Listing)
  <2>1. CASE ArrLists
    <3>1. PICK pending \in SUBSET InState(rows, {"ERROR"}) :
            todo' = AsListed(pending) /\ tried' = tried \cap pending
      BY <2>1 DEF ArrLists
    <3>2. AsListed(pending) \subseteq Listing
      BY <3>1, ListedRows DEF InState, Exists
    <3>. QED  BY <1>0, <2>1, <3>1, <3>2 DEF IInv, PassType, ArrLists, Goes, Steps
  <2>2. CASE \E t \in todo : ArrWaits(t) \/ ArrUnsettled(t) \/ ArrSettled(t)
    BY <1>0, <2>2
       DEF IInv, PassType, ArrWaits, ArrUnsettled, ArrSettled, Goes, Steps, Listing
  <2>. QED  BY <2>1, <2>2
<1>2. Worklists'
  BY <1>0, <1>1 DEF IInv, Worklists, Held, Exists, Each, Handling, NoneAtHand
<1>. QED  BY <1>0, <1>1, <1>2, StoredParts, AccountUnchanged, ShownKept, Quiet

LEMMA ArrMarksLinks ==
  ASSUME IInv, ArrMarks
  PROVE  Effect
<1>0. /\ UNCHANGED <<lastId, adds, account, requestVars, todo, active, seen, crashes>>
      /\ at' = "arr" /\ cur' = NoCur /\ tried' \subseteq tried
      /\ rows' = MarkArrNotified(rows, cur.id) /\ cur.id \in Ids
  BY DEF ArrMarks, Goes, IInv, Worklists, NoneAtHand, Listing
<1>1. /\ rows' \in Table /\ RowsKept(rows, rows') /\ RefsKept(rows, rows')
      /\ SameLife(rows, rows')
  BY <1>0, StoredParts, MarkArrNotifiedEffect
<1>2. PassType'
  BY <1>0 DEF IInv, PassType, Steps
<1>3. Worklists'
  BY <1>0, <1>1, StoredParts
     DEF IInv, PassType, Worklists, Held, Exists, SameLife, StatesOf, HashesOf, Listing, Table,
         Each, Handling, NoneAtHand
<1>. QED  BY <1>0, <1>1, <1>2, <1>3, Rewrites

LEMMA PruneLinks ==
  ASSUME IInv, PruneLists \/ PruneAtTorBox \/ \E t \in todo : PruneReads(t)
  PROVE  Effect
<1>0. /\ UNCHANGED <<rows, lastId, adds, requestVars, active, seen, tried, crashes>>
      /\ at' \in {"prune", "pruneTorBox", "pruneClear", "pruneDrop"}
  BY DEF PruneLists, PruneAtTorBox, PruneReads, DeleteCall, Goes, sharedVars, tableVars,
         requestVars
<1>1. account' \in [TbIds -> Entry] /\ EntriesKept(account, account')
  BY StoredParts, RemoveEffect, AccountUnchanged
     DEF PruneLists, PruneAtTorBox, PruneReads, DeleteCall, sharedVars
<1>2. /\ todo' \subseteq Listing /\ cur' \in Listing \cup {NoCur}
      /\ at' # "prune" => cur' \in Listing
  <2>1. CASE PruneLists
    <3>1. PICK old \in SUBSET Settled(rows) : todo' = AsListed(old)
      BY <2>1 DEF PruneLists
    <3>2. AsListed(old) \subseteq Listing
      BY <3>1, ListedRows DEF Settled, InState, Exists
    <3>. QED  BY <2>1, <3>1, <3>2 DEF PruneLists, Goes
  <2>2. CASE PruneAtTorBox
    BY <2>2 DEF PruneAtTorBox, DeleteCall, IInv, PassType, Worklists, NoneAtHand
  <2>3. ASSUME NEW t \in todo, PruneReads(t)
        PROVE  /\ todo' \subseteq Listing /\ cur' \in Listing \cup {NoCur}
               /\ at' # "prune" => cur' \in Listing
    <3>1. AsListed(RowsOf(rows, t.hash)) \subseteq Listing
      BY ListedRows DEF RowsOf
    <3>. QED  BY <2>3, <3>1 DEF PruneReads, Goes, IInv, PassType
  <2>. QED  BY <2>1, <2>2, <2>3
<1>3. PassType'
  BY <1>0, <1>2 DEF IInv, PassType, Steps
<1>4. Worklists'
  BY <1>0, <1>2 DEF IInv, Worklists, Held, Exists, Each, Handling, NoneAtHand
<1>. QED  BY <1>0, <1>1, <1>3, <1>4, ShownKept, Quiet

(* A statement that keeps every active row active, or drops it, in a step of   *)
(* the pass that is not about one listed row.                                  *)
LEMMA WorklistsKept ==
  ASSUME IInv, UNCHANGED <<lastId, todo, active>>, RowsKept(rows, rows'),
         StatesKept(rows, rows', {"TORBOX_ACTIVE"}), at' \notin Each,
         at' \notin NoneAtHand => cur' \in Listing
  PROVE  Worklists'
<1>1. GivenKept(rows, rows', lastId)
  BY GivenRowsKept
<1>2. \A t \in active : Held(t)'
  BY <1>1, StoredParts, HeldKept DEF IInv, PassType, Worklists
<1>. QED  BY <1>2 DEF IInv, Worklists, Handling

LEMMA PruneClearsLinks ==
  ASSUME IInv, PruneClears \/ ReapClears
  PROVE  Effect
<1>0. /\ UNCHANGED <<lastId, adds, account, requestVars, todo, active, seen, tried, crashes>>
      /\ rows' = ClearTorBoxRefs(rows, cur.id) /\ cur \in Listing /\ cur.id \in Ids
      /\ (at' = "pruneDrop" /\ cur' = cur) \/ (at' = "reap" /\ cur' = NoCur)
  BY DEF PruneClears, ReapClears, RowUpdate, Goes, IInv, Worklists, NoneAtHand, Listing
<1>1. /\ rows' \in Table /\ RowsKept(rows, rows') /\ RefsKept(rows, rows')
      /\ SameLife(rows, rows')
  BY <1>0, StoredParts, ClearTorBoxRefsEffect, ClearTorBoxRefsType
<1>2. StatesKept(rows, rows', {"TORBOX_ACTIVE"})
  BY <1>1 DEF SameLife, StatesOf, StatesKept
<1>3. PassType'
  BY <1>0 DEF IInv, PassType, Steps
<1>4. Worklists'
  BY <1>0, <1>1, <1>2, WorklistsKept DEF Each, NoneAtHand
<1>. QED  BY <1>0, <1>1, <1>3, <1>4, Rewrites

LEMMA PruneDropsLinks ==
  ASSUME IInv, PruneDrops
  PROVE  Effect
<1>0. /\ UNCHANGED <<lastId, adds, account, requestVars, todo, active, seen, tried, crashes>>
      /\ rows' = DeleteByHashes(rows, cur.hash) /\ cur.hash \in Hashes
      /\ at' = "prune" /\ cur' = NoCur
  BY DEF PruneDrops, RowUpdate, Goes, IInv, Worklists, NoneAtHand, Listing
<1>1. /\ rows' \in Table /\ RowsKept(rows, rows') /\ RefsKept(rows, rows')
      /\ StatesKept(rows, rows', States)
      /\ SameLife(rows, rows') \/ OneDropped(rows, rows')
  BY <1>0, StoredParts, DeleteByHashesEffect, DeleteByHashesType
<1>2. SameLife(rows, rows') \/ [Life!Next]_(Life!lifeVars)
  <2>1. PICK h \in Hashes : h = cur.hash
    BY <1>0
  <2>2. CASE OneDropped(rows, rows')
    <3>1. RequestLife(h)
      BY <1>0, <2>2 DEF RequestLife
    <3>. QED  BY <3>1, StoredParts, RequestLives
  <2>. QED  BY <1>1, <2>2
<1>3. PassType'
  BY <1>0 DEF IInv, PassType, Steps
<1>4. StatesKept(rows, rows', {"TORBOX_ACTIVE"})
  BY <1>1 DEF StatesKept, States
<1>5. Worklists'
  BY <1>0, <1>1, <1>4, WorklistsKept DEF Each, NoneAtHand
<1>. QED  BY <1>0, <1>1, <1>2, <1>3, <1>5, Rewrites

-----------------------------------------------------------------------------
(* reconcilePass reads its listings and reaps.                                 *)

LEMMA ListsActiveLinks ==
  ASSUME IInv, ListsActive
  PROVE  Effect
<1>0. /\ UNCHANGED <<rows, lastId, adds, account, requestVars, todo, seen, tried, crashes>>
      /\ at' = "listed" /\ cur' = NoCur
      /\ active' = AsListed(InState(rows, {"TORBOX_ACTIVE"}))
  BY DEF ListsActive, ListByState, Goes, sharedVars, requestVars
<1>1. InState(rows, {"TORBOX_ACTIVE"}) \in SUBSET Ids
  BY DEF InState
<1>2. /\ active' \subseteq Listing /\ OnePerRow(active')
      /\ \A t \in active' : /\ t.id \in InState(rows, {"TORBOX_ACTIVE"}) /\ t.id <= lastId
                            /\ t.hash = rows[t.id].hash
  BY <1>0, <1>1, ListedRows DEF InState, Exists
<1>3. \A t \in active' : Held(t)'
  BY <1>0, <1>2 DEF Held, InState
<1>4. PassType'
  BY <1>0, <1>2 DEF IInv, PassType, Steps
<1>5. Worklists'
  BY <1>0, <1>2, <1>3 DEF Worklists, Each, Handling, NoneAtHand
<1>. QED  BY <1>0, <1>4, <1>5, StoredParts, AccountUnchanged, ShownKept, Quiet

(* The pass is over: nothing of it is left. *)
LEMMA OverLinks ==
  ASSUME IInv, UNCHANGED <<rows, lastId, adds, account, requestVars, tried, crashes>>,
         at' = "idle", cur' = NoCur, todo' = {}, active' = {}, seen' = Unseen
  PROVE  Effect
<1>1. NoEntry \in Entry
  BY DEF NoEntry, Entry, Phases
<1>2. PassType'
  BY <1>1 DEF IInv, PassType, Steps, Unseen
<1>3. Worklists'
  BY DEF Worklists, OnePerRow, Each, Handling, NoneAtHand
<1>. QED  BY <1>2, <1>3, StoredParts, AccountUnchanged, ShownKept, Quiet

LEMMA ReadsMyListLinks ==
  ASSUME IInv, ReadsMyList
  PROVE  Effect
<1>0. /\ UNCHANGED <<rows, lastId, adds, account, requestVars, todo, active, tried, crashes>>
      /\ at' = "reap" /\ cur' = NoCur
  BY DEF ReadsMyList, Goes, sharedVars, requestVars
<1>1. PICK missed \in SUBSET Listed(account) :
        seen' = [tb \in TbIds |-> IF tb \in Listed(account) \ missed
                                    THEN account[tb] ELSE NoEntry]
  BY DEF ReadsMyList
<1>2. Shown'
  BY <1>0, <1>1 DEF Shown, StandsFor
<1>3. seen' \in [TbIds -> Entry]
  <2>1. NoEntry \in Entry
    BY DEF NoEntry, Entry, Phases
  <2>. QED  BY <1>1, <2>1, StoredParts
<1>4. PassType'
  BY <1>0, <1>3 DEF IInv, PassType, Steps
<1>5. Worklists'
  BY <1>0 DEF IInv, Worklists, Held, Exists, Each, Handling, NoneAtHand
<1>. QED  BY <1>0, <1>2, <1>4, <1>5, StoredParts, AccountUnchanged, Quiet

LEMMA ListsReapableLinks ==
  ASSUME IInv, ListsReapable
  PROVE  Effect
<1>0. /\ UNCHANGED <<rows, lastId, adds, account, requestVars, active, seen, tried, crashes>>
      /\ at' \in {"idle", "mylist"} /\ cur' = NoCur
      /\ todo' = AsListed(ListReapable(rows))
  BY DEF ListsReapable, Goes, sharedVars, requestVars
<1>1. ListReapable(rows) \in SUBSET Ids /\ \A id \in ListReapable(rows) : Exists(rows, id)
  BY DEF ListReapable, InState, Exists
<1>2. todo' \subseteq Listing
  BY <1>0, <1>1, ListedRows
<1>3. PassType'
  BY <1>0, <1>2 DEF IInv, PassType, Steps
<1>4. Worklists'
  BY <1>0 DEF IInv, Worklists, Held, Exists, Each, Handling, NoneAtHand
<1>. QED  BY <1>0, <1>3, <1>4, StoredParts, AccountUnchanged, ShownKept, Quiet

LEMMA ReapsLinks ==
  ASSUME IInv, NEW t \in todo, Reaps(t)
  PROVE  Effect
<1>0. /\ UNCHANGED <<lastId, adds, requestVars, active, seen, tried, crashes>>
      /\ at = "reap" /\ todo' = todo \ {t} /\ t \in Listing /\ t.id \in Ids
  BY DEF Reaps, IInv, PassType, Listing
<1>1. CASE Lookup(t) = {}
  <2>0. rows' = ClearTorBoxRefs(rows, t.id) /\ UNCHANGED <<account, at, cur>>
    BY <1>1 DEF Reaps
  <2>1. /\ rows' \in Table /\ RowsKept(rows, rows') /\ RefsKept(rows, rows')
        /\ SameLife(rows, rows')
    BY <1>0, <2>0, StoredParts, ClearTorBoxRefsEffect, ClearTorBoxRefsType
  <2>2. \A other \in active : Held(other)'
    <3>1. StatesKept(rows, rows', {"TORBOX_ACTIVE"}) /\ GivenKept(rows, rows', lastId)
      BY <2>1, GivenRowsKept DEF SameLife, StatesOf, StatesKept
    <3>. QED  BY <1>0, <3>1, StoredParts, HeldKept DEF IInv, PassType, Worklists
  <2>3. PassType' /\ Worklists'
    BY <1>0, <2>0, <2>2
       DEF IInv, PassType, Worklists, Each, Handling, NoneAtHand
  <2>. QED  BY <1>0, <2>0, <2>1, <2>3, Rewrites
<1>2. CASE Lookup(t) # {}
  <2>0. /\ rows' = rows
        /\ \/ at' = "reapClear" /\ cur' = t
           \/ UNCHANGED <<at, cur>>
    BY <1>2 DEF Reaps, Goes
  <2>1. account' \in [TbIds -> Entry] /\ EntriesKept(account, account')
    BY <1>2, StoredParts, RemoveEffect, AccountUnchanged DEF Reaps
  <2>2. PassType'
    BY <1>0, <2>0 DEF IInv, PassType, Steps
  <2>3. Worklists'
    BY <1>0, <2>0 DEF IInv, Worklists, Held, Exists, Each, Handling, NoneAtHand
  <2>. QED  BY <1>0, <2>0, <2>1, <2>2, <2>3, ShownKept, Quiet
<1>. QED  BY <1>1, <1>2

LEMMA ReapEndsLinks ==
  ASSUME IInv, ReapEnds
  PROVE  Effect
<1>0. /\ UNCHANGED <<rows, lastId, adds, account, requestVars, seen, tried, crashes>>
      /\ at' = "each" /\ cur' = NoCur /\ todo' = active /\ active' = {}
  BY DEF ReapEnds, Goes, sharedVars, requestVars
<1>1. PassType'
  BY <1>0 DEF IInv, PassType, Steps
<1>2. Worklists'
  BY <1>0 DEF IInv, Worklists, OnePerRow, Held, Exists, Each, Handling, NoneAtHand
<1>. QED  BY <1>0, <1>1, <1>2, StoredParts, AccountUnchanged, ShownKept, Quiet

-----------------------------------------------------------------------------
(* reconcileOne.                                                               *)

(* A step with the row at hand that writes nothing to the table. *)
LEMMA AtHandLinks ==
  ASSUME IInv, at \in Handling, at' \in Each,
         cur' = IF at' = "each" THEN NoCur ELSE cur,
         UNCHANGED <<rows, lastId, adds, requestVars, todo, active, seen, tried, crashes>>,
         account' \in [TbIds -> Entry], EntriesKept(account, account')
  PROVE  Effect
<1>1. cur \in Listing
  BY DEF IInv, Worklists, Handling, Each, NoneAtHand
<1>2. PassType'
  BY <1>1 DEF IInv, PassType, Each, Steps
<1>3. Worklists'
  BY <1>1 DEF IInv, Worklists, Held, Exists, Each, Handling, NoneAtHand
<1>. QED  BY <1>2, <1>3, ShownKept, Quiet

LEMMA MissesLinks ==
  ASSUME IInv, NEW t \in todo, Misses(t)
  PROVE  Effect
<1>0. /\ UNCHANGED <<rows, lastId, adds, account, requestVars, active, seen, tried, crashes>>
      /\ at = "each" /\ todo' = todo \ {t} /\ t \in Listing
      /\ (at' = "each" /\ cur' = NoCur) \/ (at' = "confirm" /\ cur' = t)
  BY DEF Misses, Goes, sharedVars, requestVars, IInv, PassType
<1>1. PassType'
  BY <1>0 DEF IInv, PassType, Steps
<1>2. Worklists'
  BY <1>0 DEF IInv, Worklists, OnePerRow, Held, Exists, Each, Handling, NoneAtHand
<1>. QED  BY <1>0, <1>1, <1>2, StoredParts, AccountUnchanged, ShownKept, Quiet

(* The id the row takes over is the one mylist shows for its release. *)
LEMMA FindsLinks ==
  ASSUME IInv, NEW t \in todo, Finds(t)
  PROVE  Effect
<1>0. /\ UNCHANGED <<lastId, adds, account, requestVars, active, seen, tried, crashes>>
      /\ at = "each" /\ todo' = todo \ {t} /\ at' = "found" /\ cur' = t
      /\ t \in Listing /\ t.id \in Ids /\ t.hash \in Hashes /\ Held(t)
  BY DEF Finds, Goes, IInv, PassType, Worklists, Each, Listing
<1>1. PICK tb \in Lookup(t) : rows' = IF tb = t.ref THEN rows ELSE UpdateTorBoxID(rows, t.id, tb)
  BY DEF Finds
<1>2. /\ rows' \in Table /\ RowsKept(rows, rows') /\ SameLife(rows, rows')
      /\ OwnRefs(rows', account)
  <2>1. CASE tb = t.ref
    BY <1>1, <2>1, StoredParts, NothingChanges DEF IInv
  <2>2. CASE tb # t.ref
    <3>1. tb \in TbIds /\ seen[tb].hash = t.hash
      BY <2>2 DEF Lookup
    <3>2. StandsFor(account, tb, t.hash)
      <4>1. seen[tb] # NoEntry
        BY <1>0, <3>1, StoreAssumption DEF NoEntry
      <4>. QED  BY <3>1, <4>1 DEF IInv, Shown
    <3>3. /\ rows' \in Table /\ RowsKept(rows, rows') /\ SameLife(rows, rows')
          /\ \A other \in Ids \ {t.id} : rows'[other] = rows[other]
          /\ rows'[t.id].hash = rows[t.id].hash
          /\ \/ rows'[t.id] = rows[t.id]
             \/ rows[t.id].state = "TORBOX_ACTIVE" /\ rows'[t.id].ref = tb
      BY <1>0, <1>1, <2>2, <3>1, StoredParts, UpdateTorBoxIDEffect, UpdateTorBoxIDType
    <3>4. rows[t.id].state = "TORBOX_ACTIVE" => rows[t.id].hash = t.hash
      BY <1>0 DEF Held, Exists
    <3>. QED  BY <3>2, <3>3, <3>4 DEF IInv, OwnRefs
  <2>. QED  BY <2>1, <2>2
<1>3. StatesKept(rows, rows', {"TORBOX_ACTIVE"}) /\ GivenKept(rows, rows', lastId)
  BY <1>2, GivenRowsKept DEF SameLife, StatesOf, StatesKept
<1>4. \A other \in todo : Held(other)'
  BY <1>0, <1>3, StoredParts, HeldKept DEF IInv, PassType, Worklists, Each
<1>5. PassType'
  BY <1>0 DEF IInv, PassType, Steps
<1>6. Worklists'
  BY <1>0, <1>4, <1>5 DEF IInv, Worklists, OnePerRow, Each, Handling, NoneAtHand
<1>7. Stored' /\ Shown'
  BY <1>0, <1>2, StoredParts, StoredKept, AccountUnchanged, ShownKept
<1>. QED  BY <1>0, <1>2, <1>5, <1>6, <1>7, LifeStutters DEF Effect, IInv

LEMMA ConfirmLinks ==
  ASSUME IInv, Confirms \/ LeavesIt \/ Condemns \/ FailDeletes
  PROVE  Effect
<1>1. CASE Confirms \/ LeavesIt \/ Condemns
  <2>1. /\ at \in Handling /\ at' \in {"each", "fail"}
        /\ cur' = IF at' = "each" THEN NoCur ELSE cur
        /\ UNCHANGED <<rows, lastId, adds, account, requestVars, todo, active, seen, tried,
                       crashes>>
    BY <1>1 DEF Confirms, LeavesIt, Condemns, Goes, Frame, sharedVars, requestVars, Handling, Each
  <2>. QED  BY <2>1, StoredParts, AccountUnchanged, AtHandLinks DEF Each
<1>2. CASE FailDeletes
  <2>1. /\ at \in Handling /\ at' \in {"failClear", "failMark"} /\ cur' = cur
        /\ UNCHANGED <<rows, lastId, adds, requestVars, todo, active, seen, tried, crashes>>
    BY <1>2 DEF FailDeletes, DeleteCall, Goes, Frame, sharedVars, tableVars, requestVars,
                Handling, Each
  <2>2. account' \in [TbIds -> Entry] /\ EntriesKept(account, account')
    BY <1>2, StoredParts, RemoveEffect, AccountUnchanged
       DEF FailDeletes, DeleteCall, Frame, sharedVars
  <2>. QED  BY <2>1, <2>2, AtHandLinks DEF Each
<1>. QED  BY <1>1, <1>2

(* A statement on the row at hand. *)
LEMMA AtHandWrites ==
  ASSUME IInv, at \in Handling, at' \in Each, cur' = IF at' = "each" THEN NoCur ELSE cur,
         at' # "each" => rows'[cur.id].state = rows[cur.id].state,
         rows' \in Table, RowsKept(rows, rows'), RefsKept(rows, rows'),
         \A other \in Ids \ {cur.id} : rows'[other].state = rows[other].state,
         SameLife(rows, rows') \/ [Life!Next]_(Life!lifeVars),
         UNCHANGED <<lastId, adds, account, requestVars, todo, active, seen, tried, crashes>>
  PROVE  Effect
<1>1. cur \in Listing /\ cur.id \in Ids
  BY DEF IInv, Worklists, Handling, Each, NoneAtHand, Listing
<1>2. NoRow.state = "NONE"
  BY DEF NoRow
<1>3. PassType'
  BY <1>1 DEF IInv, PassType, Each, Steps
<1>4. ASSUME NEW t \in Listing, Held(t), rows'[t.id].state = rows[t.id].state
      PROVE  Held(t)'
  <2>1. rows'[t.id] = NoRow \/ rows'[t.id].hash = rows[t.id].hash
    BY <1>4 DEF RowsKept, Listing
  <2>. QED  BY <1>2, <1>4, <2>1 DEF Held, Exists
<1>5. \A t \in todo : Held(t)' /\ t.id # cur.id
  BY <1>4 DEF IInv, PassType, Worklists, Handling, Each, Listing
<1>6. at' # "each" => Held(cur)'
  BY <1>1, <1>4 DEF IInv, Worklists
<1>7. Worklists'
  BY <1>1, <1>5, <1>6 DEF IInv, Worklists, Held, Handling, Each, NoneAtHand
<1>. QED  BY <1>3, <1>7, Rewrites

LEMMA FailClearsLinks ==
  ASSUME IInv, FailClears
  PROVE  Effect
<1>0. /\ UNCHANGED <<lastId, adds, account, requestVars, todo, active, seen, tried, crashes>>
      /\ at \in Handling /\ at' = "failMark" /\ cur' = cur /\ cur.id \in Ids
      /\ rows' = ClearTorBoxRefs(rows, cur.id)
  BY DEF FailClears, RowUpdate, Goes, IInv, Worklists, Handling, Each, NoneAtHand, Listing
<1>1. /\ rows' \in Table /\ RowsKept(rows, rows') /\ RefsKept(rows, rows')
      /\ SameLife(rows, rows')
  BY <1>0, StoredParts, ClearTorBoxRefsEffect, ClearTorBoxRefsType
<1>2. \A id \in Ids : rows'[id].state = rows[id].state
  BY <1>1 DEF SameLife, StatesOf
<1>. QED  BY <1>0, <1>1, <1>2, AtHandWrites DEF Each

(* Handed over, or failed: the row at hand is active still, or deleted. *)
LEMMA MovesOnLinks ==
  ASSUME IInv, HandsOver \/ FailMarks
  PROVE  Effect
<1>0. /\ UNCHANGED <<lastId, adds, account, requestVars, todo, active, seen, tried, crashes>>
      /\ at \in Handling /\ at' = "each" /\ cur' = NoCur /\ cur.id \in Ids
      /\ rows[cur.id].state \in {"NONE", "TORBOX_ACTIVE"}
      /\ \/ rows' = MarkLocalQueued(rows, cur.id)
         \/ rows' = MarkError(rows, cur.id)
  BY DEF HandsOver, FailMarks, RowUpdate, Goes, IInv, Worklists, Held, Handling, Each,
         NoneAtHand, Listing
<1>1. \E state \in {"LOCAL_QUEUED", "ERROR"} :
        /\ rows' \in Table /\ RowsKept(rows, rows') /\ RefsKept(rows, rows')
        /\ HashesOf(rows') = HashesOf(rows)
        /\ IF rows[cur.id].state = "TORBOX_ACTIVE"
             THEN StatesOf(rows') = [StatesOf(rows) EXCEPT ![cur.id] = state]
             ELSE rows' = rows
  BY <1>0, StoredParts, MarkLocalQueuedEffect, MarkLocalQueuedType, MarkErrorEffect,
     MarkErrorType DEF Exists
<1>2. \A other \in Ids \ {cur.id} : rows'[other].state = rows[other].state
  BY <1>1 DEF StatesOf
<1>3. SameLife(rows, rows') \/ [Life!Next]_(Life!lifeVars)
  <2>1. CASE rows[cur.id].state = "TORBOX_ACTIVE"
    <3>1. PICK state \in {"LOCAL_QUEUED", "ERROR"} :
            /\ StatesOf(rows') = [StatesOf(rows) EXCEPT ![cur.id] = state]
            /\ HashesOf(rows') = HashesOf(rows)
      BY <1>1, <2>1
    <3>2. <<rows[cur.id].state, state>> \in Life!Moves
      BY <2>1 DEF Life!Moves
    <3>. QED  BY <1>0, <3>1, <3>2, StoredParts, LifeMoves
  <2>2. CASE rows[cur.id].state = "NONE"
    BY <1>1, <2>2 DEF SameLife
  <2>. QED  BY <1>0, <2>1, <2>2
<1>. QED  BY <1>0, <1>1, <1>2, <1>3, AtHandWrites DEF Each

-----------------------------------------------------------------------------
(* What moves between the statements of the pass. *)

LEMMA OutsideThePass ==
  ASSUME IInv, UNCHANGED <<passVars, crashes>>, Stored', OwnRefs(rows', account'), Shown',
         lastId <= lastId', GivenKept(rows, rows', lastId),
         StatesKept(rows, rows', {"TORBOX_ACTIVE"})
  PROVE  IInv'
<1>1. lastId' \in Nat
  BY DEF Stored, SharedTypeOK
<1>2. \A t \in Listing : Held(t) => Held(t)'
  BY <1>1, HeldKept
<1>3. PassType'
  BY DEF IInv, PassType, passVars
<1>4. Worklists'
  BY <1>2 DEF IInv, PassType, Worklists, Handling, Each, NoneAtHand, passVars
<1>. QED  BY <1>3, <1>4 DEF IInv

LEMMA RequestLinks ==
  ASSUME IInv, RequestStep
  PROVE  Effect
<1>1. PICK h \in Hashes : Request(h)
  BY DEF RequestStep
<1>2. UNCHANGED <<passVars, crashes>> /\ seen' = seen
  BY DEF RequestStep, passVars
<1>3. SharedTypeOK' /\ DeletesNamed'
  BY <1>1, StoredParts, RequestType
<1>4. /\ Sound(rows', lastId') /\ lastId <= lastId'
      /\ RefsKept(rows, rows') /\ EntriesKept(account, account')
      /\ GivenKept(rows, rows', lastId)
      /\ StatesKept(rows, rows', States \ {"ERROR"})
      /\ RequestLife(h)
  BY <1>1, StoredParts, RequestEffect
<1>5. OwnRefs(rows', account')
  BY <1>3, <1>4, StoredParts, OwnRefsKept DEF IInv, SharedTypeOK, Table
<1>6. StatesKept(rows, rows', {"TORBOX_ACTIVE"})
  BY <1>4 DEF StatesKept, States
<1>7. IInv'
  BY <1>2, <1>3, <1>4, <1>5, <1>6, ShownKept, OutsideThePass DEF Stored
<1>. QED  BY <1>4, <1>7, StoredParts, RequestLives DEF Effect

(* A new entry, or the new id of an old one, takes an id that nothing names. *)
LEMMA FreshEntry ==
  ASSUME IInv, NEW new \in FreshIds(NamedIds \cup PassIds), new \in TbIds,
         \A tb \in TbIds \ {new} : account'[tb].phase = "none" \/ account'[tb] = account[tb],
         UNCHANGED seen
  PROVE  /\ Shown'
         /\ \A id \in Ids : rows[id].ref # Null
              => /\ rows[id].ref \in TbIds \ {new}
                 /\ StandsFor(account', rows[id].ref, rows[id].hash)
<1>1. seen[new] = NoEntry /\ \A id \in Ids : rows[id].ref # new
  BY DEF FreshIds, NamedIds, PassIds
<1>2. Shown'
  BY <1>1 DEF IInv, Shown, StandsFor
<1>3. ASSUME NEW id \in Ids, rows[id].ref # Null
      PROVE  rows[id].ref \in TbIds \ {new}
  BY <1>1, <1>3, StoredParts DEF Table, Row
<1>. QED  BY <1>2, <1>3 DEF IInv, OwnRefs, StandsFor

LEMMA AccountLinks ==
  ASSUME IInv, AccountStep
  PROVE  Effect
<1>1. UNCHANGED <<passVars, crashes>> /\ seen' = seen
  BY DEF AccountStep, passVars
<1>2. PICK tb \in TbIds : TorBoxStep(tb) \/ Renumbers(tb)
  BY DEF AccountStep
<1>3. CASE TorBoxStep(tb)
  <2>1. /\ account' \in [TbIds -> Entry] /\ EntriesKept(account, account')
        /\ UNCHANGED <<rows, lastId, adds, requestVars>>
    BY <1>3, StoredParts, TorBoxStepEffect DEF tableVars
  <2>2. PassType' /\ Worklists'
    BY <1>1, <2>1 DEF IInv, PassType, Worklists, Held, Exists, passVars
  <2>. QED  BY <1>1, <2>1, <2>2, ShownKept, Quiet
<1>4. CASE Renumbers(tb)
  <2>1. PICK new \in FreshIds(NamedIds \cup PassIds) :
          account' = Remove([account EXCEPT ![new] = account[tb]], tb)
    BY <1>4 DEF Renumbers
  <2>2. new \in TbIds /\ UNCHANGED <<rows, lastId, adds, requestVars>>
    BY <1>4 DEF FreshIds, Renumbers, tableVars
  <2>3. [account EXCEPT ![new] = account[tb]] \in [TbIds -> Entry]
    BY <2>2, StoredParts
  <2>4. account' \in [TbIds -> Entry]
    BY <2>1, <2>3, RemoveEffect
  <2>5. \A other \in TbIds \ {new} : account'[other].phase = "none" \/ account'[other] = account[other]
    BY <2>1, <2>2, StoredParts DEF Remove, NoEntry
  <2>6. Shown' /\ OwnRefs(rows', account')
    BY <1>1, <2>2, <2>5, FreshEntry DEF OwnRefs
  <2>7. RowsKept(rows, rows) /\ SameLife(rows, rows)
    BY StoredParts, NothingChanges
  <2>8. Stored'
    BY <2>2, <2>4, <2>7, StoredParts, StoredKept
  <2>9. GivenKept(rows, rows', lastId) /\ StatesKept(rows, rows', {"TORBOX_ACTIVE"})
    BY <2>2, <2>7, GivenRowsKept DEF StatesKept
  <2>10. IInv'
    BY <1>1, <2>2, <2>6, <2>8, <2>9, StoredParts, OutsideThePass
  <2>. QED  BY <2>2, <2>7, <2>10, LifeStutters DEF Effect
<1>. QED  BY <1>2, <1>3, <1>4

(* A loop that moves one row on, which was not active. *)
LEMMA OneMoveLinks ==
  ASSUME IInv, OthersFrame, NEW id \in Ids, NEW state,
         rows' \in Table, RowsKept(rows, rows'), account' \in [TbIds -> Entry],
         OwnRefs(rows', account'), Shown', rows[id].state # "TORBOX_ACTIVE",
         StatesOf(rows') = [StatesOf(rows) EXCEPT ![id] = state]
  PROVE  IInv'
<1>1. UNCHANGED <<passVars, crashes, lastId, adds, requestVars>>
  BY DEF OthersFrame
<1>2. Stored' /\ GivenKept(rows, rows', lastId)
  BY <1>1, StoredKept, GivenRowsKept
<1>3. StatesKept(rows, rows', {"TORBOX_ACTIVE"})
  BY DEF StatesKept, StatesOf
<1>. QED  BY <1>1, <1>2, <1>3, StoredParts, OutsideThePass

LEMMA SubmittedLinks ==
  ASSUME IInv, NEW id \in Ids, Submitted(id)
  PROVE  Effect
<1>0. /\ rows[id].state = "QUEUED" /\ CountActiveSlots(rows) < MaxSlots /\ OthersFrame
      /\ Exists(rows, id) /\ lastId' = lastId /\ seen' = seen
  BY DEF Submitted, OthersFrame, passVars, Exists
<1>1. ASSUME NEW tb \in TbIds, rows' = MarkActive(rows, id, tb), account' \in [TbIds -> Entry],
             StandsFor(account', tb, rows[id].hash), Shown',
             \A other \in Ids \ {id} : rows[other].ref # Null
               => StandsFor(account', rows[other].ref, rows[other].hash)
      PROVE  Effect
  <2>1. /\ RowsKept(rows, rows') /\ HashesOf(rows') = HashesOf(rows)
        /\ \A other \in Ids \ {id} : rows'[other] = rows[other]
        /\ rows'[id].hash = rows[id].hash /\ rows'[id].ref = tb
        /\ StatesOf(rows') = [StatesOf(rows) EXCEPT ![id] = "TORBOX_ACTIVE"]
        /\ rows' \in Table
    BY <1>0, <1>1, StoredParts, MarkActiveEffect, MarkActiveType
  <2>2. OwnRefs(rows', account')
    BY <1>1, <2>1 DEF OwnRefs
  <2>3. Life!Next
    BY <1>0, <2>1, StoredParts, LifeSubmits
  <2>. QED  BY <1>0, <1>1, <2>1, <2>2, <2>3, OneMoveLinks DEF Effect
<1>2. CASE \E tb \in FreshIds(NamedIds \cup PassIds), phase \in {"fetching", "cached"} :
             /\ account' = Create(account, tb, rows[id].hash, phase)
             /\ rows' = MarkActive(rows, id, tb)
  <2>1. PICK tb \in FreshIds(NamedIds \cup PassIds), phase \in {"fetching", "cached"} :
             /\ account' = Create(account, tb, rows[id].hash, phase)
             /\ rows' = MarkActive(rows, id, tb)
    BY <1>2
  <2>2. tb \in TbIds /\ rows[id].hash \in Hashes
    BY <1>0, StoredParts DEF FreshIds, Sound
  <2>3. /\ account' \in [TbIds -> Entry]
        /\ StandsFor(account', tb, rows[id].hash)
        /\ \A other \in TbIds \ {tb} : account'[other] = account[other]
    BY <2>1, <2>2, StoredParts DEF Create, Entry, Phases, StandsFor
  <2>4. Shown' /\ \A other \in Ids \ {id} : rows[other].ref # Null
                    => StandsFor(account', rows[other].ref, rows[other].hash)
    BY <1>0, <2>2, <2>3, FreshEntry
  <2>. QED  BY <1>1, <2>1, <2>2, <2>3, <2>4
<1>3. CASE \E tb \in ListedOf(account, rows[id].hash) :
             rows' = MarkActive(rows, id, tb) /\ UNCHANGED account
  <2>1. PICK tb \in ListedOf(account, rows[id].hash) : rows' = MarkActive(rows, id, tb)
    BY <1>3
  <2>2. tb \in TbIds /\ StandsFor(account, tb, rows[id].hash) /\ account' = account
    BY <1>3 DEF ListedOf, EntriesOf, StandsFor
  <2>3. Shown' /\ \A other \in Ids \ {id} : rows[other].ref # Null
                    => StandsFor(account', rows[other].ref, rows[other].hash)
    BY <1>0, <2>2, AccountUnchanged, ShownKept DEF IInv, OwnRefs
  <2>. QED  BY <1>1, <2>1, <2>2, <2>3, StoredParts
<1>4. CASE rows' = MarkError(rows, id) /\ UNCHANGED account
  <2>1. /\ RowsKept(rows, rows') /\ RefsKept(rows, rows') /\ HashesOf(rows') = HashesOf(rows)
        /\ StatesOf(rows') = [StatesOf(rows) EXCEPT ![id] = "ERROR"] /\ rows' \in Table
    BY <1>0, <1>4, StoredParts, MarkErrorEffect, MarkErrorType
  <2>2. OwnRefs(rows', account') /\ Shown'
    BY <1>0, <1>4, <2>1, StoredParts, OwnRefsKept, AccountUnchanged, ShownKept DEF IInv
  <2>3. <<rows[id].state, "ERROR">> \in Life!Moves
    BY <1>0 DEF Life!Moves
  <2>4. Life!Next
    BY <1>0, <2>1, <2>3, StoredParts, LifeMoves
  <2>. QED  BY <1>0, <1>4, <2>1, <2>2, <2>4, StoredParts, OneMoveLinks DEF Effect
<1>. QED  BY <1>2, <1>3, <1>4 DEF Submitted

LEMMA DownloadedLinks ==
  ASSUME IInv, NEW id \in Ids, Downloaded(id)
  PROVE  Effect
<1>0. /\ rows[id].state = "LOCAL_QUEUED" /\ Exists(rows, id) /\ OthersFrame
      /\ lastId' = lastId /\ seen' = seen
  BY DEF Downloaded, OthersFrame, passVars, Exists
<1>1. ASSUME NEW state \in {"COMPLETE", "ERROR"}, NEW table \in Table,
             RowsKept(rows, table), RefsKept(rows, table), HashesOf(table) = HashesOf(rows),
             StatesOf(table) = [StatesOf(rows) EXCEPT ![id] = state],
             DeletedFromTorBox(id, table)
      PROVE  Effect
  <2>1. /\ rows' \in Table /\ account' \in [TbIds -> Entry]
        /\ RowsKept(rows, rows') /\ RefsKept(rows, rows') /\ SameLife(table, rows')
        /\ EntriesKept(account, account')
    BY <1>1, StoredParts, DeletedFromTorBoxEffect
  <2>2. OwnRefs(rows', account') /\ Shown'
    BY <1>0, <2>1, StoredParts, OwnRefsKept, ShownKept DEF IInv
  <2>3. <<rows[id].state, state>> \in Life!Moves
    BY <1>0 DEF Life!Moves
  <2>4. Life!Next
    BY <1>0, <1>1, <2>1, <2>3, StoredParts, LifeMoves DEF SameLife
  <2>. QED  BY <1>0, <1>1, <2>1, <2>2, <2>4, OneMoveLinks DEF Effect, SameLife
<1>2. /\ MarkComplete(rows, id) \in Table
      /\ RowsKept(rows, MarkComplete(rows, id)) /\ RefsKept(rows, MarkComplete(rows, id))
      /\ HashesOf(MarkComplete(rows, id)) = HashesOf(rows)
      /\ StatesOf(MarkComplete(rows, id)) = [StatesOf(rows) EXCEPT ![id] = "COMPLETE"]
  BY <1>0, StoredParts, MarkCompleteEffect, MarkCompleteType
<1>3. /\ MarkError(rows, id) \in Table
      /\ RowsKept(rows, MarkError(rows, id)) /\ RefsKept(rows, MarkError(rows, id))
      /\ HashesOf(MarkError(rows, id)) = HashesOf(rows)
      /\ StatesOf(MarkError(rows, id)) = [StatesOf(rows) EXCEPT ![id] = "ERROR"]
  BY <1>0, StoredParts, MarkErrorEffect, MarkErrorType
<1>4. CASE DeletedFromTorBox(id, MarkComplete(rows, id))
  BY <1>1, <1>2, <1>4
<1>5. CASE DeletedFromTorBox(id, MarkError(rows, id))
  BY <1>1, <1>3, <1>5
<1>. QED  BY <1>4, <1>5 DEF Downloaded

LEMMA CrashLinks ==
  ASSUME IInv, Crash
  PROVE  Effect
<1>0. /\ UNCHANGED <<rows, lastId, adds, account>> /\ RequestsLost
      /\ at' = "idle" /\ cur' = NoCur /\ todo' = {} /\ active' = {} /\ seen' = Unseen
      /\ tried' = {} /\ crashes' \in 0 .. MaxCrashes
  BY ReconcilerAssumption DEF Crash, Goes, tableVars, IInv, PassType
<1>1. Stored'
  <2>1. NoDelete \in Deleting
    BY DEF NoDelete, Deleting, DeleteSteps
  <2>2. deleting' \in [Hashes -> Deleting] /\ DeletesNamed' /\ adding' \subseteq Hashes
    BY <1>0, <2>1 DEF RequestsLost, DeletesNamed, NoDelete
  <2>. QED  BY <1>0, <2>2 DEF IInv, Stored, SharedTypeOK, Deleting
<1>2. PassType'
  <2>1. NoEntry \in Entry
    BY DEF NoEntry, Entry, Phases
  <2>. QED  BY <1>0, <2>1 DEF PassType, Steps, Unseen
<1>3. Worklists'
  BY <1>0 DEF Worklists, OnePerRow, Each, Handling, NoneAtHand
<1>4. OwnRefs(rows', account') /\ Shown'
  BY <1>0, AccountUnchanged, ShownKept DEF IInv
<1>5. SameLife(rows, rows')
  BY <1>0 DEF SameLife
<1>. QED  BY <1>0, <1>1, <1>2, <1>3, <1>4, <1>5, LifeStutters DEF Effect, IInv

-----------------------------------------------------------------------------
LEMMA InitEstablishes ==
  ASSUME Init
  PROVE  IInv /\ Life!Init
<1>0. /\ rows = EmptyTable /\ lastId = 0 /\ adds = 0 /\ adding = {}
      /\ deleting = [h \in Hashes |-> NoDelete]
      /\ at = "idle" /\ todo = {} /\ active = {} /\ seen = Unseen /\ cur = NoCur
      /\ tried = {} /\ crashes = 0
  BY DEF Init, SharedInit
<1>1. NoEntry \in Entry
  BY DEF NoEntry, Entry, Phases
<1>2. account \in [TbIds -> Entry]
  BY <1>1, RequestsAssumption DEF Init, SharedInit, Entry, Phases
<1>3. deleting \in [Hashes -> Deleting] /\ DeletesNamed
  BY <1>0 DEF Deleting, NoDelete, DeleteSteps, DeletesNamed
<1>4. Stored
  BY <1>0, <1>2, <1>3, EmptyTableType, EmptyTableSound, StoreAssumption, RequestsAssumption
     DEF Stored, SharedTypeOK, Table, Deleting
<1>5. PassType
  BY <1>0, <1>1, ReconcilerAssumption DEF PassType, Steps, Unseen
<1>6. Worklists /\ Shown
  BY <1>0 DEF Worklists, OnePerRow, Each, Handling, NoneAtHand, Shown, Unseen
<1>7. OwnRefs(rows, account)
  BY <1>0 DEF OwnRefs, EmptyTable, NoRow
<1>8. Life!Init
  BY <1>0 DEF Life!Init, EmptyTable, NoRow
<1>. QED  BY <1>4, <1>5, <1>6, <1>7, <1>8 DEF IInv

LEMMA StepEffect ==
  ASSUME IInv, [Next]_vars
  PROVE  Effect
<1>1. CASE Reconcile
  <2>1. CASE \E t \in todo : Reaps(t) \/ Misses(t) \/ Finds(t)
    BY <2>1, ReapsLinks, MissesLinks, FindsLinks
  <2>2. CASE MyListFails \/ PassEnds
    BY <2>2, OverLinks DEF MyListFails, PassEnds, PassOver, sharedVars, requestVars
  <2>. QED
    BY <1>1, <2>1, <2>2, ArrLinks, ArrMarksLinks, PruneLinks, PruneClearsLinks,
       PruneDropsLinks, ListsActiveLinks, ListsReapableLinks, ReadsMyListLinks,
       ReapEndsLinks, ConfirmLinks, MovesOnLinks, FailClearsLinks DEF Reconcile
<1>2. CASE OtherLoops
  BY <1>2, SubmittedLinks, DownloadedLinks DEF OtherLoops
<1>3. CASE UNCHANGED vars
  <2>1. /\ UNCHANGED <<rows, lastId, adds, account, requestVars, at, todo, active, seen, cur,
                       tried, crashes>>
    BY <1>3 DEF vars, sharedVars, passVars, requestVars
  <2>2. PassType' /\ Worklists'
    BY <2>1 DEF IInv, PassType, Worklists, Held, Exists
  <2>. QED  BY <2>1, <2>2, StoredParts, AccountUnchanged, ShownKept, Quiet
<1>. QED
  BY <1>1, <1>2, <1>3, RequestLinks, AccountLinks, CrashLinks DEF Next

LEMMA InvariantHolds == Spec => []IInv
<1>1. Init => IInv
  BY InitEstablishes
<1>2. IInv /\ [Next]_vars => IInv'
  BY StepEffect DEF Effect
<1>. QED  BY <1>1, <1>2, PTL DEF Spec

-----------------------------------------------------------------------------
(* Every variable of the reconciliation loop keeps its type, and a table keeps *)
(* nothing of a row that was dropped, for every value of the constants.        *)
THEOREM TypeCorrect == Spec => []TypeOK
<1>1. IInv => TypeOK
  BY DEF IInv, Stored, Sound, PassType, TypeOK
<1>. QED  BY <1>1, InvariantHolds, PTL

(* The torrent a row names on TorBox is that row's release, for any number of  *)
(* rows, releases, ids and crashes: an id the reconciler takes over from mylist *)
(* is one mylist showed for the release of the row it listed, and that row is  *)
(* active still or gone (reconcile.go, reconcileOne).                          *)
THEOREM RefsAreOwn == Spec => []RefIsOwnRelease
<1>1. IInv => RefIsOwnRelease
  BY DEF IInv, OwnRefs, StandsFor, RefIsOwnRelease
<1>. QED  BY <1>1, InvariantHolds, PTL

(* The reconciliation loop, with everything that moves beside it, implements   *)
(* the life of a torrent: no statement it runs from an old listing, most of    *)
(* which ask for an id only, makes a step the documented state machine lacks   *)
(* (reconcile.go, fail and toLocalQueued).                                     *)
THEOREM ReconcilerFollowsLifecycle == Spec => FollowsLifecycle
<1>1. Init => Life!Init
  BY InitEstablishes
<1>2. IInv /\ [Next]_vars => [Life!Next]_(Life!lifeVars)
  BY StepEffect DEF Effect
<1>. QED  BY <1>1, <1>2, InvariantHolds, PTL DEF Spec, FollowsLifecycle, Life!Spec
=============================================================================
