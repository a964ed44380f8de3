------------------------------- MODULE Requests -------------------------------
(* What every loop of the engine shares: the table, the TorBox account, and   *)
(* the requests of Sonarr and Radarr that change them (torrents/add and       *)
(* torrents/delete), one action per statement or call they make, since they   *)
(* run on HTTP goroutines of their own beside the engine's loops.              *)
EXTENDS TorBox

CONSTANTS MaxAdds,     \* bound: adds and re-queues, over the whole run
          Foreign      \* torrents on the account that this program did not add

ASSUME RequestsAssumption ==
  MaxAdds \in Nat /\ Foreign \subseteq Hashes /\ Cardinality(Foreign) <= MaxTb

VARIABLES rows,        \* the torrents table
          lastId,      \* the id of its last INSERT (AUTOINCREMENT)
          adds,        \* adds and re-queues so far: the clock of added_on
          account,     \* the TorBox account
          adding,      \* hash -> an add that read an ERROR row, not yet re-queued it
          deleting     \* hash -> the delete in progress for it

tableVars   == <<rows, lastId, adds>>
requestVars == <<adding, deleting>>
sharedVars  == <<rows, lastId, adds, account, adding, deleting>>

NoDelete == [at |-> "none", id |-> 0, ref |-> Null]

DeleteSteps == {"none", "torbox", "clear", "drop"}

SharedTypeOK ==
  /\ rows \in [Ids -> Row]
  /\ lastId \in 0 .. MaxRows
  /\ adds \in 0 .. MaxAdds
  /\ account \in [TbIds -> Entry]
  /\ adding \subseteq Hashes
  /\ deleting \in [Hashes -> [at  : DeleteSteps,
                              id  : Ids \cup {0},
                              ref : TbIds \cup {Null}]]

(* The account may already hold torrents somebody added by hand. *)
SharedInit ==
  /\ rows = EmptyTable
  /\ lastId = 0
  /\ adds = 0
  /\ account \in {a \in [TbIds -> {NoEntry} \cup [hash : Foreign, phase : {"fetching"}]] :
                    /\ \A tb \in TbIds : (a[tb] # NoEntry) <=> (tb <= Cardinality(Foreign))
                    /\ \A h \in Foreign : EntriesOf(a, h) # {}
                    /\ Cardinality(Holding(a)) <= AccountSlots}
  /\ adding = {}
  /\ deleting = [h \in Hashes |-> NoDelete]

(* TorBox ids that the table or a request in progress still names.  TorBox    *)
(* never gives an id twice; an id nothing names can stand for a new one.       *)
NamedIds == {rows[id].ref : id \in Ids} \cup {deleting[h].ref : h \in Hashes}

FreshIds(named) == {tb \in TbIds : account[tb].phase = "none" /\ tb \notin named}

-----------------------------------------------------------------------------
(* torrents/add.  persist inserts a QUEUED row unless the infohash is tracked; *)
(* when it is tracked and in ERROR, a second statement re-queues it.           *)

Add(h) ==
  /\ RowsOf(rows, h) = {}
  /\ adds < MaxAdds /\ NextRowId(rows, lastId) \in Ids
  /\ lastId' = NextRowId(rows, lastId)
  /\ rows' = AddTorrent(rows, lastId', h, adds + 1)
  /\ adds' = adds + 1
  /\ UNCHANGED <<account, adding, deleting>>

AddFindsError(h) ==
  /\ h \notin adding
  /\ \E id \in RowsOf(rows, h) : rows[id].state = "ERROR"
  /\ adds < MaxAdds
  /\ adding' = adding \cup {h}
  /\ UNCHANGED <<rows, lastId, adds, account, deleting>>

Requeue(h) ==
  /\ h \in adding /\ adds < MaxAdds
  /\ rows' = RequeueFailed(rows, h, adds + 1)
  /\ adds' = adds + 1
  /\ adding' = adding \ {h}
  /\ UNCHANGED <<lastId, account, deleting>>

-----------------------------------------------------------------------------
(* torrents/delete, DeleteTorrent: read the row, delete its torrent from      *)
(* TorBox (best effort), clear the reference when that worked, remove the     *)
(* local files, drop the row by infohash.                                     *)

DeleteBegins(h) ==
  /\ deleting[h].at = "none"
  /\ \E id \in RowsOf(rows, h) :
       deleting' = [deleting EXCEPT ![h] =
         [at  |-> IF rows[id].ref = Null THEN "drop" ELSE "torbox",
          id  |-> id,
          ref |-> rows[id].ref]]
  /\ UNCHANGED <<rows, lastId, adds, account, adding>>

DeleteAtTorBox(h) ==
  /\ deleting[h].at = "torbox"
  /\ \E o \in DeleteOutcomes :
       /\ account' = IF o.removed THEN Remove(account, deleting[h].ref) ELSE account
       /\ deleting' = [deleting EXCEPT ![h].at = IF o.ok THEN "clear" ELSE "drop"]
  /\ UNCHANGED <<rows, lastId, adds, adding>>

DeleteClearsRefs(h) ==
  /\ deleting[h].at = "clear"
  /\ rows' = ClearTorBoxRefs(rows, deleting[h].id)
  /\ deleting' = [deleting EXCEPT ![h].at = "drop"]
  /\ UNCHANGED <<lastId, adds, account, adding>>

DeleteDropsRow(h) ==
  /\ deleting[h].at = "drop"
  /\ rows' = DeleteByHashes(rows, h)
  /\ deleting' = [deleting EXCEPT ![h] = NoDelete]
  /\ UNCHANGED <<lastId, adds, account, adding>>

Request(h) == \/ Add(h) \/ AddFindsError(h) \/ Requeue(h)
              \/ DeleteBegins(h) \/ DeleteAtTorBox(h)
              \/ DeleteClearsRefs(h) \/ DeleteDropsRow(h)

-----------------------------------------------------------------------------
(* What TorBox does on its own: a fetch ends, a slot goes to the next entry of *)
(* its queue, a torrent leaves the account (expired, or removed by hand).      *)

FetchEnds(tb) ==
  /\ account[tb].phase = "fetching"
  /\ account' = [account EXCEPT ![tb].phase = "cached"]
  /\ UNCHANGED <<tableVars, requestVars>>

QueueAdvances(tb) ==
  /\ account[tb].phase = "queued" /\ SlotFree(account)
  /\ account' = [account EXCEPT ![tb].phase = "fetching"]
  /\ UNCHANGED <<tableVars, requestVars>>

Expires(tb) ==
  /\ tb \in Listed(account)
  /\ account' = Remove(account, tb)
  /\ UNCHANGED <<tableVars, requestVars>>

TorBoxStep(tb) == FetchEnds(tb) \/ QueueAdvances(tb) \/ Expires(tb)

-----------------------------------------------------------------------------
(* removeFromTorBox on a row, at once: delete its torrent, if it names one,    *)
(* and clear the reference when that worked.  table is the table it acts on.   *)
DeletedFromTorBox(id, table) ==
  IF rows[id].ref = Null
    THEN rows' = table /\ UNCHANGED account
    ELSE \E o \in DeleteOutcomes :
           /\ account' = IF o.removed THEN Remove(account, rows[id].ref) ELSE account
           /\ rows' = IF o.ok THEN ClearTorBoxRefs(table, id) ELSE table

(* A crash loses every request in progress; the table and the account stay.    *)
RequestsLost == adding' = {} /\ deleting' = [h \in Hashes |-> NoDelete]
=============================================================================
