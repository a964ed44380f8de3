------------------------------ MODULE StoreProofs ------------------------------
(* What the statements of Store do to the type of a table and to the rows that *)
(* count as active on TorBox, for any number of rows.                          *)
EXTENDS Store, FiniteSetTheorems, TLAPS

Table == [Ids -> Row]

ActiveIn(table) == InState(table, {"TORBOX_ACTIVE"})

(* Any set of rows is finite and no larger than the bound on their number;    *)
(* what CountActiveSlots returns is therefore a number of rows.                *)
LEMMA RowsFinite ==
  ASSUME NEW ids \in SUBSET Ids
  PROVE  IsFiniteSet(ids) /\ Cardinality(ids) \in 0 .. MaxRows
<1>1. IsFiniteSet(1 .. MaxRows) /\ Cardinality(1 .. MaxRows) = MaxRows
  BY FS_Interval, StoreAssumption
<1>2. IsFiniteSet(ids) /\ Cardinality(ids) <= MaxRows
  BY <1>1, FS_Subset DEF Ids
<1>. QED  BY <1>2, FS_CardinalityType, StoreAssumption

(* Fewer rows, or the same, count for less, or the same. *)
LEMMA CountMonotone ==
  ASSUME NEW ids \in SUBSET Ids, NEW fewer \in SUBSET ids
  PROVE  Cardinality(fewer) <= Cardinality(ids)
BY RowsFinite, FS_Subset

(* One more row counts for at most one more. *)
LEMMA CountOneMore ==
  ASSUME NEW ids \in SUBSET Ids, NEW id \in Ids, NEW more \in SUBSET (ids \cup {id})
  PROVE  Cardinality(more) <= Cardinality(ids) + 1
<1>1. IsFiniteSet(ids) /\ Cardinality(ids) \in Nat
  BY RowsFinite
<1>2. IsFiniteSet(ids \cup {id}) /\ Cardinality(ids \cup {id}) <= Cardinality(ids) + 1
  BY <1>1, FS_AddElement
<1>3. Cardinality(more) <= Cardinality(ids \cup {id})
  BY <1>2, FS_Subset
<1>4. Cardinality(more) \in Nat /\ Cardinality(ids \cup {id}) \in Nat
  BY <1>2, FS_CardinalityType, FS_Subset
<1>. QED  BY <1>1, <1>2, <1>3, <1>4

LEMMA ActiveAreIds ==
  ASSUME NEW table
  PROVE  ActiveIn(table) \subseteq Ids
BY DEF ActiveIn, InState

-----------------------------------------------------------------------------
(* The statements that never make a row active. *)

LEMMA EmptyTableType == EmptyTable \in Table /\ ActiveIn(EmptyTable) = {}
BY DEF EmptyTable, Table, Row, NoRow, Null, ActiveIn, InState

LEMMA AddTorrentType ==
  ASSUME NEW table \in Table, NEW id \in Ids, NEW h \in Hashes, NEW stamp \in Nat
  PROVE  /\ AddTorrent(table, id, h, stamp) \in Table
         /\ ActiveIn(AddTorrent(table, id, h, stamp)) \subseteq ActiveIn(table)
BY DEF AddTorrent, Table, Row, States, Null, ActiveIn, InState

LEMMA RequeueFailedType ==
  ASSUME NEW table \in Table, NEW h \in Hashes, NEW stamp \in Nat
  PROVE  /\ RequeueFailed(table, h, stamp) \in Table
         /\ ActiveIn(RequeueFailed(table, h, stamp)) \subseteq ActiveIn(table)
BY DEF RequeueFailed, Table, Row, States, Null, ActiveIn, InState

LEMMA ClearTorBoxRefsType ==
  ASSUME NEW table \in Table, NEW id \in Ids
  PROVE  /\ ClearTorBoxRefs(table, id) \in Table
         /\ ActiveIn(ClearTorBoxRefs(table, id)) \subseteq ActiveIn(table)
BY DEF ClearTorBoxRefs, Table, Row, Null, ActiveIn, InState

LEMMA UpdateTorBoxIDType ==
  ASSUME NEW table \in Table, NEW id \in Ids, NEW tb \in TbIds
  PROVE  /\ UpdateTorBoxID(table, id, tb) \in Table
         /\ ActiveIn(UpdateTorBoxID(table, id, tb)) \subseteq ActiveIn(table)
BY DEF UpdateTorBoxID, Table, Row, Null, ActiveIn, InState

LEMMA MarkLocalQueuedType ==
  ASSUME NEW table \in Table, NEW id \in Ids
  PROVE  /\ MarkLocalQueued(table, id) \in Table
         /\ ActiveIn(MarkLocalQueued(table, id)) \subseteq ActiveIn(table)
BY DEF MarkLocalQueued, Table, Row, States, Null, ActiveIn, InState

LEMMA MarkCompleteType ==
  ASSUME NEW table \in Table, NEW id \in Ids
  PROVE  /\ MarkComplete(table, id) \in Table
         /\ ActiveIn(MarkComplete(table, id)) \subseteq ActiveIn(table)
BY DEF MarkComplete, Table, Row, States, Null, ActiveIn, InState

LEMMA MarkErrorType ==
  ASSUME NEW table \in Table, NEW id \in Ids
  PROVE  /\ MarkError(table, id) \in Table
         /\ ActiveIn(MarkError(table, id)) \subseteq ActiveIn(table)
BY DEF MarkError, Table, Row, States, Null, ActiveIn, InState

LEMMA DeleteByHashesType ==
  ASSUME NEW table \in Table, NEW h \in Hashes
  PROVE  /\ DeleteByHashes(table, h) \in Table
         /\ ActiveIn(DeleteByHashes(table, h)) \subseteq ActiveIn(table)
BY DEF DeleteByHashes, NoRow, Table, Row, States, Null, ActiveIn, InState

-----------------------------------------------------------------------------
(* The one that does: a single row, the one it is given. *)
LEMMA MarkActiveType ==
  ASSUME NEW table \in Table, NEW id \in Ids, NEW tb \in TbIds
  PROVE  /\ MarkActive(table, id, tb) \in Table
         /\ ActiveIn(MarkActive(table, id, tb)) \subseteq ActiveIn(table) \cup {id}
BY DEF MarkActive, Table, Row, States, Null, ActiveIn, InState

-----------------------------------------------------------------------------
(* What the statements do to the rows of a table, beyond their types.          *)

(* A table as the statements leave it: ids up to the last one given, a release *)
(* in every row, no row twice for a release, nothing left of a dropped row.    *)
Sound(table, last) ==
  /\ \A id \in Ids : Exists(table, id) => table[id].hash \in Hashes /\ id <= last
  /\ \A id \in Ids : ~Exists(table, id) => table[id] = NoRow
  /\ \A id, other \in Ids :
       Exists(table, id) /\ Exists(table, other) /\ table[id].hash = table[other].hash
         => id = other

(* Every row stays the row of its release, or is dropped; none is new. *)
RowsKept(table, next) ==
  \A id \in Ids : \/ next[id] = NoRow
                  \/ Exists(table, id) /\ Exists(next, id) /\ next[id].hash = table[id].hash

(* A row names the torrent it named before, of the same release, or none. *)
RefsKept(table, next) ==
  \A id \in Ids : next[id].ref # Null
                    => next[id].ref = table[id].ref /\ next[id].hash = table[id].hash

(* A row in one of these states stays in it, or is dropped. *)
StatesKept(table, next, states) ==
  \A id \in Ids : table[id].state \in states => next[id].state \in {table[id].state, "NONE"}

(* The table as the life of its torrents sees it. *)
StatesOf(table) == [id \in Ids |-> table[id].state]
HashesOf(table) == [id \in Ids |-> table[id].hash]

SameLife(table, next) == StatesOf(next) = StatesOf(table) /\ HashesOf(next) = HashesOf(table)

LEMMA EmptyTableSound == Sound(EmptyTable, 0)
BY DEF Sound, EmptyTable, NoRow, Exists

LEMMA SoundKept ==
  ASSUME NEW table, NEW last, NEW next, Sound(table, last), RowsKept(table, next)
  PROVE  Sound(next, last)
<1>1. NoRow.state = "NONE"
  BY DEF NoRow
<1>2. ASSUME NEW id \in Ids, Exists(next, id)
      PROVE  Exists(table, id) /\ next[id].hash = table[id].hash
  BY <1>1, <1>2 DEF RowsKept, Exists
<1>3. ASSUME NEW id \in Ids, ~Exists(next, id)
      PROVE  next[id] = NoRow
  BY <1>3 DEF RowsKept
<1>. QED  BY <1>2, <1>3 DEF Sound

LEMMA RowsKeptTwice ==
  ASSUME NEW table, NEW mid, NEW next, RowsKept(table, mid), RowsKept(mid, next)
  PROVE  RowsKept(table, next)
<1>1. NoRow.state = "NONE"
  BY DEF NoRow
<1>. QED  BY <1>1 DEF RowsKept, Exists

SetState(table, id, state) == [table EXCEPT ![id].state = state]
SetRef(table, id, ref)     == [table EXCEPT ![id].ref = ref]

(* A statement that sets the state of a row that is there. *)
LEMMA SetStateEffect ==
  ASSUME NEW table \in Table, NEW last, Sound(table, last), NEW id \in Ids, Exists(table, id),
         NEW state \in States, NEW next, next = SetState(table, id, state)
  PROVE  /\ next \in Table
         /\ RowsKept(table, next) /\ RefsKept(table, next)
         /\ StatesOf(next) = [StatesOf(table) EXCEPT ![id] = state]
         /\ HashesOf(next) = HashesOf(table)
         /\ \A other \in Ids \ {id} : next[other] = table[other]
BY DEF Table, Row, Sound, RowsKept, RefsKept, StatesOf, HashesOf, Exists, NoRow, States,
       SetState

(* One that sets the reference of a row that is there. *)
LEMMA SetRefEffect ==
  ASSUME NEW table \in Table, NEW last, Sound(table, last), NEW id \in Ids, Exists(table, id),
         NEW ref \in TbIds \cup {Null}, NEW next, next = SetRef(table, id, ref)
  PROVE  /\ next \in Table
         /\ RowsKept(table, next) /\ SameLife(table, next)
         /\ \A other \in Ids \ {id} : next[other] = table[other]
         /\ next[id].ref = ref /\ next[id].hash = table[id].hash
BY DEF Table, Row, Sound, RowsKept, SameLife, StatesOf, HashesOf, Exists, NoRow, SetRef

LEMMA NothingChanges ==
  ASSUME NEW table, NEW last, Sound(table, last)
  PROVE  RowsKept(table, table) /\ RefsKept(table, table) /\ SameLife(table, table)
BY DEF Sound, RowsKept, RefsKept, SameLife, Exists

LEMMA ClearTorBoxRefsEffect ==
  ASSUME NEW table \in Table, NEW last, Sound(table, last), NEW id \in Ids,
         NEW next, next = ClearTorBoxRefs(table, id)
  PROVE  RowsKept(table, next) /\ RefsKept(table, next) /\ SameLife(table, next)
<1>1. CASE Exists(table, id)
  <2>1. Null \in TbIds \cup {Null}
    OBVIOUS
  <2>2. ClearTorBoxRefs(table, id) = SetRef(table, id, Null)
    BY <1>1 DEF ClearTorBoxRefs, SetRef
  <2>. QED  BY <1>1, <2>1, <2>2, SetRefEffect DEF RefsKept
<1>2. CASE ~Exists(table, id)
  BY <1>2, NothingChanges DEF ClearTorBoxRefs
<1>. QED  BY <1>1, <1>2

LEMMA MarkErrorEffect ==
  ASSUME NEW table \in Table, NEW last, Sound(table, last), NEW id \in Ids,
         NEW next, next = MarkError(table, id)
  PROVE  /\ RowsKept(table, next) /\ RefsKept(table, next)
         /\ HashesOf(next) = HashesOf(table)
         /\ IF Exists(table, id) THEN StatesOf(next) = [StatesOf(table) EXCEPT ![id] = "ERROR"]
                                 ELSE next = table
<1>1. CASE Exists(table, id)
  <2>1. MarkError(table, id) = SetState(table, id, "ERROR") /\ "ERROR" \in States
    BY <1>1 DEF MarkError, States, SetState
  <2>. QED  BY <1>1, <2>1, SetStateEffect
<1>2. CASE ~Exists(table, id)
  BY <1>2, NothingChanges DEF MarkError, SameLife
<1>. QED  BY <1>1, <1>2

(* A statement on a column the life of a torrent does not see. *)
LEMMA MarkArrNotifiedEffect ==
  ASSUME NEW table \in Table, NEW last, Sound(table, last), NEW id \in Ids,
         NEW next, next = MarkArrNotified(table, id)
  PROVE  /\ next \in Table
         /\ RowsKept(table, next) /\ RefsKept(table, next) /\ SameLife(table, next)
<1>1. CASE Exists(table, id)
  BY <1>1 DEF MarkArrNotified, Table, Row, Sound, RowsKept, RefsKept, SameLife, StatesOf,
              HashesOf, Exists, NoRow
<1>2. CASE ~Exists(table, id)
  BY <1>2, NothingChanges DEF MarkArrNotified
<1>. QED  BY <1>1, <1>2

LEMMA MarkCompleteEffect ==
  ASSUME NEW table \in Table, NEW last, Sound(table, last), NEW id \in Ids,
         NEW next, next = MarkComplete(table, id)
  PROVE  /\ RowsKept(table, next) /\ RefsKept(table, next)
         /\ HashesOf(next) = HashesOf(table)
         /\ IF Exists(table, id) THEN StatesOf(next) = [StatesOf(table) EXCEPT ![id] = "COMPLETE"]
                                 ELSE next = table
<1>1. CASE Exists(table, id)
  <2>1. MarkComplete(table, id) = SetState(table, id, "COMPLETE") /\ "COMPLETE" \in States
    BY <1>1 DEF MarkComplete, States, SetState
  <2>. QED  BY <1>1, <2>1, SetStateEffect
<1>2. CASE ~Exists(table, id)
  BY <1>2, NothingChanges DEF MarkComplete, SameLife
<1>. QED  BY <1>1, <1>2

LEMMA MarkLocalQueuedEffect ==
  ASSUME NEW table \in Table, NEW last, Sound(table, last), NEW id \in Ids,
         NEW next, next = MarkLocalQueued(table, id)
  PROVE  /\ RowsKept(table, next) /\ RefsKept(table, next)
         /\ HashesOf(next) = HashesOf(table)
         /\ IF table[id].state = "TORBOX_ACTIVE"
              THEN StatesOf(next) = [StatesOf(table) EXCEPT ![id] = "LOCAL_QUEUED"]
              ELSE next = table
<1>1. CASE table[id].state = "TORBOX_ACTIVE"
  <2>1. /\ MarkLocalQueued(table, id) = SetState(table, id, "LOCAL_QUEUED")
        /\ "LOCAL_QUEUED" \in States /\ Exists(table, id)
    BY <1>1 DEF MarkLocalQueued, States, Exists, SetState
  <2>. QED  BY <1>1, <2>1, SetStateEffect
<1>2. CASE table[id].state # "TORBOX_ACTIVE"
  BY <1>2, NothingChanges DEF MarkLocalQueued, SameLife
<1>. QED  BY <1>1, <1>2

LEMMA UpdateTorBoxIDEffect ==
  ASSUME NEW table \in Table, NEW last, Sound(table, last), NEW id \in Ids, NEW tb \in TbIds,
         NEW next, next = UpdateTorBoxID(table, id, tb)
  PROVE  /\ RowsKept(table, next) /\ SameLife(table, next)
         /\ \A other \in Ids \ {id} : next[other] = table[other]
         /\ next[id].hash = table[id].hash
         /\ next[id] = table[id] \/ (table[id].state = "TORBOX_ACTIVE" /\ next[id].ref = tb)
<1>1. CASE table[id].state = "TORBOX_ACTIVE"
  <2>1. /\ UpdateTorBoxID(table, id, tb) = SetRef(table, id, tb)
        /\ tb \in TbIds \cup {Null} /\ Exists(table, id)
    BY <1>1 DEF UpdateTorBoxID, Exists, SetRef
  <2>. QED  BY <1>1, <2>1, SetRefEffect
<1>2. CASE table[id].state # "TORBOX_ACTIVE"
  BY <1>2, NothingChanges DEF UpdateTorBoxID
<1>. QED  BY <1>1, <1>2

LEMMA MarkActiveEffect ==
  ASSUME NEW table \in Table, NEW last, Sound(table, last), NEW id \in Ids, NEW tb \in TbIds,
         NEW next, next = MarkActive(table, id, tb)
  PROVE  /\ RowsKept(table, next)
         /\ HashesOf(next) = HashesOf(table)
         /\ \A other \in Ids \ {id} : next[other] = table[other]
         /\ next[id].hash = table[id].hash
         /\ IF Exists(table, id)
              THEN /\ StatesOf(next) = [StatesOf(table) EXCEPT ![id] = "TORBOX_ACTIVE"]
                   /\ next[id].ref = tb
              ELSE next = table
<1>1. CASE Exists(table, id)
  <2> DEFINE mid == SetState(table, id, "TORBOX_ACTIVE")
  <2>1. next = SetRef(mid, id, tb)
    BY <1>1 DEF MarkActive, SetState, SetRef, Table
  <2>2. "TORBOX_ACTIVE" \in States /\ tb \in TbIds \cup {Null}
    BY DEF States
  <2>3. /\ mid \in Table /\ RowsKept(table, mid) /\ HashesOf(mid) = HashesOf(table)
        /\ StatesOf(mid) = [StatesOf(table) EXCEPT ![id] = "TORBOX_ACTIVE"]
        /\ \A other \in Ids \ {id} : mid[other] = table[other]
    BY <1>1, <2>2, SetStateEffect
  <2>4. Sound(mid, last) /\ Exists(mid, id) /\ mid[id].hash = table[id].hash
    BY <2>3, SoundKept DEF SetState, Exists, Table, Row
  <2> HIDE DEF mid
  <2>5. /\ RowsKept(mid, next) /\ SameLife(mid, next)
        /\ \A other \in Ids \ {id} : next[other] = mid[other]
        /\ next[id].ref = tb /\ next[id].hash = mid[id].hash
    BY <2>1, <2>2, <2>3, <2>4, SetRefEffect
  <2>6. RowsKept(table, next)
    BY <2>3, <2>5, RowsKeptTwice
  <2>. QED  BY <1>1, <2>3, <2>4, <2>5, <2>6 DEF SameLife
<1>2. CASE ~Exists(table, id)
  BY <1>2, NothingChanges DEF MarkActive, SameLife
<1>. QED  BY <1>1, <1>2

(* An INSERT for a release without a row, under the next id. *)
LEMMA AddTorrentEffect ==
  ASSUME NEW table \in Table, NEW last \in Nat, Sound(table, last),
         NEW h \in Hashes, RowsOf(table, h) = {}, NextRowId(table, last) \in Ids, NEW stamp \in Nat,
         NEW id, id = NextRowId(table, last), NEW next, next = AddTorrent(table, id, h, stamp)
  PROVE  /\ Sound(next, id) /\ RefsKept(table, next)
         /\ id = last + 1 /\ ~Exists(table, id)
         /\ StatesOf(next) = [StatesOf(table) EXCEPT ![id] = "QUEUED"]
         /\ HashesOf(next) = [HashesOf(table) EXCEPT ![id] = h]
         /\ \A other \in Ids \ {id} : next[other] = table[other]
<1>1. id \in Ids /\ id = last + 1
  BY DEF NextRowId
<1>2. /\ \A other \in Ids \ {id} : next[other] = table[other]
      /\ next[id].hash = h /\ next[id].state = "QUEUED" /\ next[id].ref = Null
      /\ next \in Table
  BY <1>1 DEF AddTorrent, Table, Row, States
<1>3. ~Exists(table, id)
  BY <1>1 DEF Sound, Ids
<1>4. ASSUME NEW other \in Ids, Exists(next, other)
      PROVE  next[other].hash \in Hashes /\ other <= id
  BY <1>1, <1>2, <1>4 DEF Sound, Exists, Ids
<1>5. ASSUME NEW other \in Ids, ~Exists(next, other)
      PROVE  next[other] = NoRow
  BY <1>2, <1>5 DEF Sound, Exists
<1>6. ASSUME NEW i \in Ids, NEW j \in Ids, Exists(next, i), Exists(next, j),
             next[i].hash = next[j].hash
      PROVE  i = j
  BY <1>2, <1>6 DEF Sound, Exists, RowsOf
<1>7. RefsKept(table, next)
  BY <1>2 DEF RefsKept
<1>8. /\ StatesOf(next) = [StatesOf(table) EXCEPT ![id] = "QUEUED"]
      /\ HashesOf(next) = [HashesOf(table) EXCEPT ![id] = h]
  BY <1>1, <1>2 DEF StatesOf, HashesOf
<1>. QED  BY <1>1, <1>2, <1>3, <1>4, <1>5, <1>6, <1>7, <1>8 DEF Sound

OneRequeued(table, next) ==
  /\ HashesOf(next) = HashesOf(table)
  /\ \E id \in Ids : /\ table[id].state = "ERROR"
                     /\ StatesOf(next) = [StatesOf(table) EXCEPT ![id] = "QUEUED"]

OneDropped(table, next) ==
  \E id \in Ids : /\ Exists(table, id)
                  /\ StatesOf(next) = [StatesOf(table) EXCEPT ![id] = "NONE"]
                  /\ HashesOf(next) = [HashesOf(table) EXCEPT ![id] = NoHash]

(* The second statement of an add meets one failed row at most. *)
LEMMA RequeueFailedEffect ==
  ASSUME NEW table \in Table, NEW last, Sound(table, last), NEW h \in Hashes, NEW stamp \in Nat,
         NEW next, next = RequeueFailed(table, h, stamp)
  PROVE  /\ RowsKept(table, next) /\ RefsKept(table, next)
         /\ StatesKept(table, next, States \ {"ERROR"})
         /\ SameLife(table, next) \/ OneRequeued(table, next)
<1> DEFINE failed(id) == table[id].hash = h /\ table[id].state = "ERROR"
<1>1. \A id \in Ids : IF failed(id)
                        THEN next[id].hash = h /\ next[id].state = "QUEUED" /\ next[id].ref = Null
                        ELSE next[id] = table[id]
  BY DEF RequeueFailed
<1>2. RowsKept(table, next)
  BY <1>1 DEF RowsKept, Sound, Exists
<1>3. RefsKept(table, next) /\ StatesKept(table, next, States \ {"ERROR"})
  BY <1>1 DEF RefsKept, StatesKept, States
<1>4. HashesOf(next) = HashesOf(table)
  BY <1>1 DEF HashesOf
<1>5. CASE \E id \in Ids : failed(id)
  <2>1. PICK id \in Ids : failed(id)
    BY <1>5
  <2>2. \A other \in Ids \ {id} : ~failed(other)
    BY <2>1 DEF Sound, Exists
  <2>3. StatesOf(next) = [StatesOf(table) EXCEPT ![id] = "QUEUED"]
    BY <1>1, <2>1, <2>2 DEF StatesOf
  <2>. QED  BY <1>2, <1>3, <1>4, <2>1, <2>3 DEF OneRequeued
<1>6. CASE ~\E id \in Ids : failed(id)
  <2>1. StatesOf(next) = StatesOf(table)
    BY <1>1, <1>6 DEF StatesOf
  <2>. QED  BY <1>2, <1>3, <1>4, <2>1 DEF SameLife
<1>. QED  BY <1>5, <1>6

(* A DELETE by infohash drops one row at most. *)
LEMMA DeleteByHashesEffect ==
  ASSUME NEW table \in Table, NEW last, Sound(table, last), NEW h \in Hashes,
         NEW next, next = DeleteByHashes(table, h)
  PROVE  /\ RowsKept(table, next) /\ RefsKept(table, next)
         /\ StatesKept(table, next, States)
         /\ SameLife(table, next) \/ OneDropped(table, next)
<1>0. NoRow.state = "NONE" /\ NoRow.hash = NoHash /\ NoRow.ref = Null
  BY DEF NoRow
<1>1. \A id \in Ids : next[id] = IF table[id].hash = h THEN NoRow ELSE table[id]
  BY DEF DeleteByHashes
<1>2. RowsKept(table, next)
  BY <1>0, <1>1 DEF RowsKept, Sound, Exists
<1>3. RefsKept(table, next) /\ StatesKept(table, next, States)
  BY <1>0, <1>1 DEF RefsKept, StatesKept
<1>4. \A id \in Ids : table[id].hash = h => Exists(table, id)
  BY <1>0, StoreAssumption DEF Sound, Exists
<1>5. CASE \E id \in Ids : table[id].hash = h
  <2>1. PICK id \in Ids : table[id].hash = h
    BY <1>5
  <2>2. \A other \in Ids \ {id} : table[other].hash # h
    BY <1>4, <2>1 DEF Sound
  <2>3. /\ StatesOf(next) = [StatesOf(table) EXCEPT ![id] = "NONE"]
        /\ HashesOf(next) = [HashesOf(table) EXCEPT ![id] = NoHash]
    BY <1>0, <1>1, <2>1, <2>2 DEF StatesOf, HashesOf
  <2>. QED  BY <1>2, <1>3, <1>4, <2>1, <2>3 DEF OneDropped
<1>6. CASE ~\E id \in Ids : table[id].hash = h
  <2>1. SameLife(table, next)
    BY <1>1, <1>6 DEF SameLife, StatesOf, HashesOf
  <2>. QED  BY <1>2, <1>3, <2>1
<1>. QED  BY <1>5, <1>6
=============================================================================
