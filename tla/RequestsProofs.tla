----------------------------- MODULE RequestsProofs -----------------------------
(* What requests and TorBox do to the table and the account while a loop of    *)
(* the engine is between two of its statements: no row changes its release or  *)
(* names a torrent it did not name, no entry of the account changes its        *)
(* release, and the life of a torrent takes one documented step at most.       *)
EXTENDS Requests, StoreProofs

(* The id tb stands for nothing, or for the release h. *)
StandsFor(acc, tb, h) == acc[tb].phase = "none" \/ acc[tb].hash = h

(* Every row that names a torrent on TorBox names one of its own release. *)
OwnRefs(table, acc) ==
  \A id \in Ids : table[id].ref # Null => StandsFor(acc, table[id].ref, table[id].hash)

(* An entry of the account stays the entry of its release, or goes. *)
EntriesKept(acc, next) ==
  \A tb \in TbIds : \/ next[tb].phase = "none"
                    \/ acc[tb].phase # "none" /\ next[tb].hash = acc[tb].hash

(* RowsKept for the ids given so far. *)
GivenKept(table, next, last) ==
  \A id \in Ids : id <= last =>
    \/ next[id] = NoRow
    \/ Exists(table, id) /\ Exists(next, id) /\ next[id].hash = table[id].hash

(* A delete in progress that has read its row has its id. *)
DeletesNamed == \A h \in Hashes : deleting[h].at # "none" => deleting[h].id \in Ids

Deleting == [at : DeleteSteps, id : Ids \cup {0}, ref : TbIds \cup {Null}]

-----------------------------------------------------------------------------
LEMMA OwnRefsKept ==
  ASSUME NEW table \in Table, NEW next \in Table, NEW acc, NEW nextAcc,
         OwnRefs(table, acc), RefsKept(table, next), EntriesKept(acc, nextAcc)
  PROVE  OwnRefs(next, nextAcc)
<1> SUFFICES ASSUME NEW id \in Ids, next[id].ref # Null
             PROVE  StandsFor(nextAcc, next[id].ref, next[id].hash)
  BY DEF OwnRefs
<1>1. next[id].ref \in TbIds
  BY DEF Table, Row
<1>2. next[id].ref = table[id].ref /\ next[id].hash = table[id].hash
  BY DEF RefsKept
<1>. QED  BY <1>1, <1>2 DEF OwnRefs, EntriesKept, StandsFor

LEMMA StandsForKept ==
  ASSUME NEW acc, NEW next, NEW tb \in TbIds, NEW h,
         StandsFor(acc, tb, h), EntriesKept(acc, next)
  PROVE  StandsFor(next, tb, h)
BY DEF StandsFor, EntriesKept

LEMMA AccountUnchanged ==
  ASSUME NEW acc
  PROVE  EntriesKept(acc, acc)
BY DEF EntriesKept

LEMMA RemoveEffect ==
  ASSUME NEW acc \in [TbIds -> Entry], NEW tb
  PROVE  Remove(acc, tb) \in [TbIds -> Entry] /\ EntriesKept(acc, Remove(acc, tb))
BY DEF Remove, NoEntry, Entry, Phases, EntriesKept

LEMMA TorBoxStepEffect ==
  ASSUME account \in [TbIds -> Entry], NEW tb \in TbIds, TorBoxStep(tb)
  PROVE  /\ account' \in [TbIds -> Entry] /\ EntriesKept(account, account')
         /\ UNCHANGED <<tableVars, requestVars>>
<1>1. CASE FetchEnds(tb)
  BY <1>1 DEF FetchEnds, Entry, Phases, EntriesKept
<1>2. CASE QueueAdvances(tb)
  BY <1>2 DEF QueueAdvances, Entry, Phases, EntriesKept
<1>3. CASE Expires(tb)
  BY <1>3, RemoveEffect DEF Expires
<1>. QED  BY <1>1, <1>2, <1>3 DEF TorBoxStep

LEMMA GivenRowsKept ==
  ASSUME NEW table, NEW next, NEW last, RowsKept(table, next)
  PROVE  GivenKept(table, next, last)
BY DEF RowsKept, GivenKept

-----------------------------------------------------------------------------
(* What a request does to the table, as a step in the life of one torrent. *)
RequestLife(h) ==
  \/ SameLife(rows, rows') /\ lastId' = lastId
  \/ \E id \in Ids : /\ id = lastId + 1 /\ lastId' = id /\ RowsOf(rows, h) = {}
                     /\ StatesOf(rows') = [StatesOf(rows) EXCEPT ![id] = "QUEUED"]
                     /\ HashesOf(rows') = [HashesOf(rows) EXCEPT ![id] = h]
  \/ OneRequeued(rows, rows') /\ lastId' = lastId
  \/ OneDropped(rows, rows') /\ lastId' = lastId

(* A request keeps the types of what the loops share. *)
LEMMA RequestType ==
  ASSUME SharedTypeOK, DeletesNamed, NEW h \in Hashes, Request(h)
  PROVE  SharedTypeOK' /\ DeletesNamed' /\ ActiveIn(rows') \subseteq ActiveIn(rows)
<1>0. /\ rows \in Table /\ lastId \in 0 .. MaxRows /\ adds \in 0 .. MaxAdds
      /\ account \in [TbIds -> Entry] /\ adding \subseteq Hashes
      /\ deleting \in [Hashes -> Deleting]
  BY DEF SharedTypeOK, Table, Deleting
<1>n. \A g \in Hashes : deleting[g].at # "none" => deleting[g].id \in Ids
  BY DEF DeletesNamed
<1>a. MaxAdds \in Nat /\ MaxRows \in Nat
  BY RequestsAssumption, StoreAssumption
<1>. SUFFICES /\ rows' \in Table /\ lastId' \in 0 .. MaxRows /\ adds' \in 0 .. MaxAdds
              /\ account' \in [TbIds -> Entry] /\ adding' \subseteq Hashes
              /\ deleting' \in [Hashes -> Deleting]
              /\ ActiveIn(rows') \subseteq ActiveIn(rows)
              /\ \A g \in Hashes : deleting'[g].at # "none" => deleting'[g].id \in Ids
  BY DEF SharedTypeOK, Table, Deleting, DeletesNamed
<1>1. CASE Add(h)
  <2>1. lastId' \in Ids /\ lastId' \in 0 .. MaxRows /\ adds' \in 0 .. MaxAdds
    BY <1>1, <1>0, <1>a DEF Add, Ids
  <2>2. adds + 1 \in Nat
    BY <1>0
  <2>. QED  BY <1>0, <1>n, <1>1, <2>1, <2>2, AddTorrentType DEF Add
<1>2. CASE AddFindsError(h)
  BY <1>0, <1>n, <1>2 DEF AddFindsError
<1>3. CASE Requeue(h)
  <2>1. adds' \in 0 .. MaxAdds /\ adds + 1 \in Nat
    BY <1>0, <1>a, <1>3 DEF Requeue
  <2>. QED  BY <1>0, <1>n, <1>3, <2>1, RequeueFailedType DEF Requeue
<1>4. CASE DeleteBegins(h)
  <2>1. PICK id \in RowsOf(rows, h) :
          deleting' = [deleting EXCEPT ![h] =
            [at  |-> IF rows[id].ref = Null THEN "drop" ELSE "torbox",
             id  |-> id,
             ref |-> rows[id].ref]]
    BY <1>4 DEF DeleteBegins
  <2>2. id \in Ids /\ rows[id].ref \in TbIds \cup {Null}
    BY <1>0 DEF RowsOf, Table, Row
  <2>3. deleting' \in [Hashes -> Deleting]
    BY <1>0, <2>1, <2>2 DEF Deleting, DeleteSteps
  <2>4. \A g \in Hashes : deleting'[g].at # "none" => deleting'[g].id \in Ids
    BY <1>0, <1>n, <2>1, <2>2
  <2>. QED  BY <1>0, <1>4, <2>3, <2>4 DEF DeleteBegins
<1>5. CASE DeleteAtTorBox(h)
  <2>1. account' \in [TbIds -> Entry]
    BY <1>0, <1>5, RemoveEffect DEF DeleteAtTorBox
  <2>2. deleting' \in [Hashes -> Deleting]
    BY <1>0, <1>5 DEF DeleteAtTorBox, Deleting, DeleteSteps
  <2>3. \A g \in Hashes : deleting'[g].at # "none" => deleting'[g].id \in Ids
    BY <1>0, <1>n, <1>5 DEF DeleteAtTorBox, Deleting
  <2>. QED  BY <1>0, <1>5, <2>1, <2>2, <2>3 DEF DeleteAtTorBox
<1>6. CASE DeleteClearsRefs(h)
  <2>1. deleting[h].id \in Ids
    BY <1>n, <1>6 DEF DeleteClearsRefs
  <2>2. deleting' \in [Hashes -> Deleting]
    BY <1>0, <1>6 DEF DeleteClearsRefs, Deleting, DeleteSteps
  <2>3. \A g \in Hashes : deleting'[g].at # "none" => deleting'[g].id \in Ids
    BY <1>0, <1>n, <1>6 DEF DeleteClearsRefs, Deleting
  <2>. QED
    BY <1>0, <1>6, <2>1, <2>2, <2>3, ClearTorBoxRefsType DEF DeleteClearsRefs
<1>7. CASE DeleteDropsRow(h)
  <2>1. deleting' \in [Hashes -> Deleting]
    BY <1>0, <1>7 DEF DeleteDropsRow, Deleting, DeleteSteps, NoDelete
  <2>2. \A g \in Hashes : deleting'[g].at # "none" => deleting'[g].id \in Ids
    BY <1>0, <1>n, <1>7 DEF DeleteDropsRow, NoDelete
  <2>. QED  BY <1>0, <1>7, <2>1, <2>2, DeleteByHashesType DEF DeleteDropsRow
<1>. QED
  BY <1>1, <1>2, <1>3, <1>4, <1>5, <1>6, <1>7 DEF Request

(* What it does to the rows and the entries. *)
LEMMA RequestEffect ==
  ASSUME SharedTypeOK, Sound(rows, lastId), DeletesNamed, NEW h \in Hashes, Request(h)
  PROVE  /\ Sound(rows', lastId') /\ lastId <= lastId'
         /\ RefsKept(rows, rows') /\ EntriesKept(account, account')
         /\ GivenKept(rows, rows', lastId)
         /\ StatesKept(rows, rows', States \ {"ERROR"})
         /\ RequestLife(h)
<1>0. rows \in Table /\ lastId \in Nat /\ adds + 1 \in Nat /\ account \in [TbIds -> Entry]
  BY DEF SharedTypeOK, Table
<1>1. CASE Add(h)
  <2>1. /\ RowsOf(rows, h) = {} /\ NextRowId(rows, lastId) \in Ids
        /\ lastId' = NextRowId(rows, lastId) /\ rows' = AddTorrent(rows, lastId', h, adds + 1)
        /\ account' = account
    BY <1>1 DEF Add
  <2>2. /\ Sound(rows', lastId') /\ RefsKept(rows, rows')
        /\ lastId' = lastId + 1 /\ ~Exists(rows, lastId')
        /\ StatesOf(rows') = [StatesOf(rows) EXCEPT ![lastId'] = "QUEUED"]
        /\ HashesOf(rows') = [HashesOf(rows) EXCEPT ![lastId'] = h]
        /\ \A other \in Ids \ {lastId'} : rows'[other] = rows[other]
    BY <1>0, <2>1, AddTorrentEffect
  <2>3. GivenKept(rows, rows', lastId)
    BY <1>0, <2>2 DEF GivenKept, Sound, Exists, Ids
  <2>4. StatesKept(rows, rows', States \ {"ERROR"})
    BY <2>2 DEF StatesKept, States, Exists
  <2>5. RequestLife(h)
    BY <2>1, <2>2 DEF RequestLife
  <2>. QED  BY <1>0, <2>1, <2>2, <2>3, <2>4, <2>5, AccountUnchanged
<1>2. CASE UNCHANGED <<rows, lastId>> /\ EntriesKept(account, account')
  <2>1. RowsKept(rows, rows) /\ RefsKept(rows, rows) /\ SameLife(rows, rows)
    BY NothingChanges
  <2>2. StatesKept(rows, rows, States \ {"ERROR"})
    BY DEF StatesKept
  <2>. QED  BY <1>0, <1>2, <2>1, <2>2, GivenRowsKept DEF RequestLife
<1>3. ASSUME RowsKept(rows, rows'), UNCHANGED <<lastId, account>>
      PROVE  /\ Sound(rows', lastId') /\ lastId <= lastId'
             /\ GivenKept(rows, rows', lastId) /\ EntriesKept(account, account')
  BY <1>0, <1>3, SoundKept, GivenRowsKept, AccountUnchanged
<1>4. CASE Requeue(h)
  <2>1. /\ RowsKept(rows, rows') /\ RefsKept(rows, rows')
        /\ StatesKept(rows, rows', States \ {"ERROR"})
        /\ SameLife(rows, rows') \/ OneRequeued(rows, rows')
    BY <1>0, <1>4, RequeueFailedEffect DEF Requeue
  <2>2. RequestLife(h)
    BY <1>4, <2>1 DEF RequestLife, Requeue
  <2>. QED  BY <1>3, <1>4, <2>1, <2>2 DEF Requeue
<1>5. CASE DeleteClearsRefs(h)
  <2>1. deleting[h].id \in Ids
    BY <1>5 DEF DeleteClearsRefs, DeletesNamed
  <2>2. RowsKept(rows, rows') /\ RefsKept(rows, rows') /\ SameLife(rows, rows')
    BY <1>0, <1>5, <2>1, ClearTorBoxRefsEffect DEF DeleteClearsRefs
  <2>3. StatesKept(rows, rows', States \ {"ERROR"})
    BY <2>2 DEF SameLife, StatesOf, StatesKept
  <2>. QED  BY <1>3, <1>5, <2>2, <2>3 DEF RequestLife, DeleteClearsRefs
<1>6. CASE DeleteDropsRow(h)
  <2>1. /\ RowsKept(rows, rows') /\ RefsKept(rows, rows')
        /\ StatesKept(rows, rows', States)
        /\ SameLife(rows, rows') \/ OneDropped(rows, rows')
    BY <1>0, <1>6, DeleteByHashesEffect DEF DeleteDropsRow
  <2>2. RequestLife(h)
    BY <1>6, <2>1 DEF RequestLife, DeleteDropsRow
  <2>3. StatesKept(rows, rows', States \ {"ERROR"})
    BY <2>1 DEF StatesKept
  <2>. QED  BY <1>3, <1>6, <2>1, <2>2, <2>3 DEF DeleteDropsRow
<1>7. CASE AddFindsError(h) \/ DeleteBegins(h) \/ DeleteAtTorBox(h)
  <2>1. UNCHANGED <<rows, lastId>> /\ EntriesKept(account, account')
    BY <1>0, <1>7, RemoveEffect, AccountUnchanged
       DEF AddFindsError, DeleteBegins, DeleteAtTorBox
  <2>. QED  BY <1>2, <2>1
<1>. QED
  BY <1>1, <1>4, <1>5, <1>6, <1>7 DEF Request

-----------------------------------------------------------------------------
(* removeFromTorBox, after a statement that kept the rows and their torrents.  *)
LEMMA DeletedFromTorBoxEffect ==
  ASSUME SharedTypeOK, Sound(rows, lastId), NEW id \in Ids, NEW table \in Table,
         RowsKept(rows, table), RefsKept(rows, table), DeletedFromTorBox(id, table)
  PROVE  /\ rows' \in Table /\ account' \in [TbIds -> Entry]
         /\ ActiveIn(rows') \subseteq ActiveIn(table)
         /\ RowsKept(rows, rows') /\ RefsKept(rows, rows') /\ SameLife(table, rows')
         /\ EntriesKept(account, account')
<1>0. account \in [TbIds -> Entry] /\ Sound(table, lastId)
  BY SoundKept DEF SharedTypeOK
<1>1. account' \in [TbIds -> Entry] /\ EntriesKept(account, account')
  BY <1>0, RemoveEffect, AccountUnchanged DEF DeletedFromTorBox
<1>2. CASE rows' = table
  BY <1>0, <1>1, <1>2, NothingChanges
<1>3. CASE rows' = ClearTorBoxRefs(table, id)
  <2>1. /\ RowsKept(table, rows') /\ RefsKept(table, rows') /\ SameLife(table, rows')
        /\ rows' \in Table /\ ActiveIn(rows') \subseteq ActiveIn(table)
    BY <1>0, <1>3, ClearTorBoxRefsEffect, ClearTorBoxRefsType
  <2>2. RefsKept(rows, rows')
    BY <2>1 DEF RefsKept
  <2>. QED  BY <1>1, <2>1, <2>2, RowsKeptTwice
<1>. QED  BY <1>2, <1>3 DEF DeletedFromTorBox
=============================================================================
