-------------------------------- MODULE Store --------------------------------
(* The torrents table: the rows of internal/store and the statements the rest  *)
(* of the program runs on them.  A table is a function from row ids to rows    *)
(* (an id that is not in use maps to NoRow); every operator here is one SQL    *)
(* statement or one transaction, and maps the table before it to the table     *)
(* after it.  The store opens a single connection, so each of them is atomic.  *)
(*                                                                             *)
(* A row keeps the columns the control flow depends on: infohash, state,       *)
(* torbox_id (ref), arr_notified and the order of added_on.  torbox_queued_id  *)
(* is NULL in every row this version writes and is left out.                   *)
EXTENDS Naturals, FiniteSets

CONSTANTS Hashes,    \* infohashes
          NoHash,    \* the hash of an id that is not in use
          MaxRows,   \* bound: rows ever inserted
          MaxTb      \* bound: torrents ever created on TorBox

ASSUME StoreAssumption ==
  /\ NoHash \notin Hashes
  /\ MaxRows \in Nat
  /\ MaxTb \in Nat

Ids   == 1 .. MaxRows
TbIds == 1 .. MaxTb
Null  == 0            \* SQL NULL, for torbox_id

States == {"QUEUED", "TORBOX_ACTIVE", "LOCAL_QUEUED", "LOCAL_DOWNLOAD",
           "COMPLETE", "ERROR"}

Row == [hash     : Hashes \cup {NoHash},
        state    : States \cup {"NONE"},
        ref      : TbIds \cup {Null},
        notified : BOOLEAN,
        added    : Nat]

NoRow == [hash |-> NoHash, state |-> "NONE", ref |-> Null,
          notified |-> FALSE, added |-> 0]

EmptyTable == [id \in Ids |-> NoRow]

-----------------------------------------------------------------------------
(* Queries.                                                                   *)

Exists(table, id) == table[id].state # "NONE"

InState(table, states) == {id \in Ids : table[id].state \in states}

RowsOf(table, hash) == {id \in Ids : Exists(table, id) /\ table[id].hash = hash}

CountActiveSlots(table) == Cardinality(InState(table, {"TORBOX_ACTIVE"}))

ListByState(table, state) == InState(table, {state})

(* COMPLETE or ERROR rows that still name a torrent on TorBox. *)
ListReapable(table) ==
  {id \in InState(table, {"COMPLETE", "ERROR"}) : table[id].ref # Null}

-----------------------------------------------------------------------------
(* Statements.  Each is UPDATE ... WHERE id = ?, so a row that has been        *)
(* deleted is left alone; some also ask for a state, and most do not.          *)

AddTorrent(table, id, hash, stamp) ==
  [table EXCEPT ![id] = [hash |-> hash, state |-> "QUEUED", ref |-> Null,
                         notified |-> FALSE, added |-> stamp]]

(* The re-queue without its guard on the state. *)
RequeueAny(table, hash, stamp) ==
  [id \in Ids |->
     IF table[id].hash = hash
       THEN [hash |-> hash, state |-> "QUEUED", ref |-> Null,
             notified |-> FALSE, added |-> stamp]
       ELSE table[id]]

(* WHERE infohash = ? AND state = ERROR. *)
RequeueFailed(table, hash, stamp) ==
  [id \in Ids |->
     IF table[id].hash = hash /\ table[id].state = "ERROR"
       THEN [hash |-> hash, state |-> "QUEUED", ref |-> Null,
             notified |-> FALSE, added |-> stamp]
       ELSE table[id]]

MarkActive(table, id, tb) ==
  IF Exists(table, id)
    THEN [table EXCEPT ![id].state = "TORBOX_ACTIVE", ![id].ref = tb]
    ELSE table

ClearTorBoxRefs(table, id) ==
  IF Exists(table, id) THEN [table EXCEPT ![id].ref = Null] ELSE table

(* WHERE id = ? AND state = TORBOX_ACTIVE. *)
UpdateTorBoxID(table, id, tb) ==
  IF table[id].state = "TORBOX_ACTIVE"
    THEN [table EXCEPT ![id].ref = tb] ELSE table

(* WHERE id = ? AND state = TORBOX_ACTIVE. *)
MarkLocalQueued(table, id) ==
  IF table[id].state = "TORBOX_ACTIVE"
    THEN [table EXCEPT ![id].state = "LOCAL_QUEUED"] ELSE table

MarkComplete(table, id) ==
  IF Exists(table, id) THEN [table EXCEPT ![id].state = "COMPLETE"] ELSE table

(* The same without its guard on the state. *)
MarkLocalDownloadingAny(table, id) ==
  IF Exists(table, id) THEN [table EXCEPT ![id].state = "LOCAL_DOWNLOAD"] ELSE table

(* WHERE id = ? AND state = LOCAL_QUEUED. *)
MarkLocalDownloading(table, id) ==
  IF table[id].state = "LOCAL_QUEUED"
    THEN [table EXCEPT ![id].state = "LOCAL_DOWNLOAD"] ELSE table

(* An upsert in the place of an update. *)
MarkErrorUpsert(table, id) == [table EXCEPT ![id].state = "ERROR"]

MarkError(table, id) ==
  IF Exists(table, id) THEN [table EXCEPT ![id].state = "ERROR"] ELSE table

MarkArrNotified(table, id) ==
  IF Exists(table, id) THEN [table EXCEPT ![id].notified = TRUE] ELSE table

(* WHERE infohash IN (...). *)
DeleteByHashes(table, hash) ==
  [id \in Ids |-> IF table[id].hash = hash THEN NoRow ELSE table[id]]

(* Without AUTOINCREMENT, SQLite gives an INSERT one more than the largest id   *)
(* in use, so the id of the last row is used again once that row is deleted.   *)
ReusedRowId(table, last) ==
  LET used == {id \in Ids : Exists(table, id)}
  IN  IF used = {} THEN 1
                   ELSE 1 + (CHOOSE top \in used : \A id \in used : id <= top)

(* The column is INTEGER PRIMARY KEY AUTOINCREMENT: the id of the next INSERT  *)
(* is one more than the last id ever given.                                    *)
NextRowId(table, last) == last + 1
=============================================================================
