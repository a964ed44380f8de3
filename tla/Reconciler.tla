------------------------------ MODULE Reconciler ------------------------------
(* The reconciliation loop of internal/engine: arrPass, prunePass, reapPass   *)
(* and reconcileOne, on one goroutine.  Each pass works on rows it listed at   *)
(* its start; every statement on the store and every call to TorBox or to     *)
(* Sonarr and Radarr is a step, and requests, TorBox and the other loops move  *)
(* between them.  The other loops take whole passes over one row at once.      *)
EXTENDS Requests

CONSTANTS MaxSlots,       \* torbox.max_active_slots
          ArrConfigured,  \* whether failures are pushed to Sonarr and Radarr
          ListGaps,       \* whether mylist may miss a torrent that is there
          MaxCrashes      \* bound: crashes (or restarts) of the process

ASSUME ReconcilerAssumption ==
  /\ MaxSlots \in Nat /\ MaxCrashes \in Nat
  /\ ArrConfigured \in BOOLEAN /\ ListGaps \in BOOLEAN

VARIABLES at,        \* where the pass is
          todo,      \* the rows listed for the current part of it, not handled yet
          active,    \* the TORBOX_ACTIVE rows, as listed
          seen,      \* mylist, as read
          cur,       \* the row being handled, as listed
          tried,     \* arrAttempts: the rows whose failure was pushed before
          crashes

passVars == <<at, todo, active, seen, cur, tried>>
vars     == <<sharedVars, passVars, crashes>>

(* A row as a listing returns it. *)
Listing == [id : Ids, hash : Hashes, ref : TbIds \cup {Null}]
NoCur   == [id |-> 0, hash |-> NoHash, ref |-> Null]
AsListed(ids) == {[id |-> id, hash |-> rows[id].hash, ref |-> rows[id].ref] : id \in ids}

Unseen == [tb \in TbIds |-> NoEntry]

Steps == {"idle", "arr", "arrMark", "prune", "pruneTorBox", "pruneClear", "pruneDrop",
          "listed", "mylist", "reap", "reapClear",
          "each", "confirm", "found", "fail", "failClear", "failMark"}

TypeOK ==
  /\ SharedTypeOK
  /\ \A id \in Ids : Exists(rows, id) \/ rows[id] = NoRow
  /\ \A id \in Ids : Exists(rows, id) => rows[id].hash \in Hashes
  /\ at \in Steps
  /\ todo \subseteq Listing
  /\ active \subseteq Listing
  /\ seen \in [TbIds -> Entry]
  /\ cur \in Listing \cup {NoCur}
  /\ tried \subseteq Ids
  /\ crashes \in 0 .. MaxCrashes

Init ==
  /\ SharedInit
  /\ at = "idle" /\ todo = {} /\ active = {} /\ seen = Unseen /\ cur = NoCur
  /\ tried = {}
  /\ crashes = 0

Goes(step, row) == at' = step /\ cur' = row

-----------------------------------------------------------------------------
(* arrPass: push the failures nobody has been told of.                         *)

(* Only failures never tried before. *)
ArrListsUntried ==
  /\ at = "idle"
  /\ LET pending == {id \in InState(rows, {"ERROR"}) : ArrConfigured /\ ~rows[id].notified}
     IN  todo' = AsListed(pending \ tried) /\ tried' = tried \cap pending
  /\ Goes("arr", NoCur)
  /\ UNCHANGED <<sharedVars, active, seen, crashes>>

ArrLists ==
  /\ at = "idle"
  /\ LET pending == {id \in InState(rows, {"ERROR"}) : ArrConfigured /\ ~rows[id].notified}
     IN  todo' = AsListed(pending) /\ tried' = tried \cap pending
  /\ Goes("arr", NoCur)
  /\ UNCHANGED <<sharedVars, active, seen, crashes>>

(* Not now: the last attempt for this row is not arrNotifyInterval ago.        *)
ArrWaits(t) ==
  /\ at = "arr" /\ t.id \in tried
  /\ todo' = todo \ {t}
  /\ UNCHANGED <<sharedVars, at, active, seen, cur, tried, crashes>>

(* NotifyFailed: an instance could not be asked, or none tracks the release    *)
(* and the grace since the first attempt is not over.                          *)
ArrUnsettled(t) ==
  /\ at = "arr"
  /\ todo' = todo \ {t}
  /\ tried' = tried \cup {t.id}
  /\ UNCHANGED <<sharedVars, at, active, seen, cur, crashes>>

(* An instance blocklisted the release, or none tracked it for the whole grace *)
(* (which no first attempt can tell).  A "handled" answer is followed by the   *)
(* instance's own torrents/delete, at any time.                                *)
ArrSettled(t) ==
  /\ at = "arr"
  /\ todo' = todo \ {t}
  /\ tried' = tried \cup {t.id}
  /\ Goes("arrMark", t)
  /\ UNCHANGED <<sharedVars, active, seen, crashes>>

ArrMarks ==
  /\ at = "arrMark"
  /\ rows' = MarkArrNotified(rows, cur.id)
  /\ tried' = tried \ {cur.id}
  /\ Goes("arr", NoCur)
  /\ UNCHANGED <<lastId, adds, account, requestVars, todo, active, seen, crashes>>

-----------------------------------------------------------------------------
(* prunePass: DeleteTorrent, by infohash, on failures that are settled and old *)
(* enough (any of them may be).                                                *)

Settled(table) ==
  {id \in InState(table, {"ERROR"}) : table[id].notified \/ ~ArrConfigured}

PruneLists ==
  /\ at = "arr" /\ todo = {}
  /\ \E old \in SUBSET Settled(rows) : todo' = AsListed(old)
  /\ Goes("prune", NoCur)
  /\ UNCHANGED <<sharedVars, active, seen, tried, crashes>>

PruneReads(t) ==
  /\ at = "prune"
  /\ todo' = todo \ {t}
  /\ IF RowsOf(rows, t.hash) = {}
       THEN UNCHANGED <<at, cur>>
       ELSE \E row \in AsListed(RowsOf(rows, t.hash)) :
              Goes(IF row.ref = Null THEN "pruneDrop" ELSE "pruneTorBox", row)
  /\ UNCHANGED <<sharedVars, active, seen, tried, crashes>>

(* A delete call for cur, and the step that follows when TorBox says it is     *)
(* done and when it does not.                                                  *)
DeleteCall(done, otherwise) ==
  /\ \E o \in DeleteOutcomes :
       /\ account' = IF o.removed THEN Remove(account, cur.ref) ELSE account
       /\ at' = IF o.ok THEN done ELSE otherwise
  /\ UNCHANGED <<tableVars, requestVars, todo, active, seen, cur, tried, crashes>>

RowUpdate(table, step, row) ==
  /\ rows' = table
  /\ Goes(step, row)
  /\ UNCHANGED <<lastId, adds, account, requestVars, todo, active, seen, tried, crashes>>

PruneAtTorBox == at = "pruneTorBox" /\ DeleteCall("pruneClear", "pruneDrop")
PruneClears   == at = "pruneClear" /\ RowUpdate(ClearTorBoxRefs(rows, cur.id), "pruneDrop", cur)
PruneDrops    == at = "pruneDrop" /\ RowUpdate(DeleteByHashes(rows, cur.hash), "prune", NoCur)

-----------------------------------------------------------------------------
(* reconcilePass: list the active rows, list the reapable ones, read mylist.   *)

ListsActive ==
  /\ at = "prune" /\ todo = {}
  /\ active' = AsListed(ListByState(rows, "TORBOX_ACTIVE"))
  /\ Goes("listed", NoCur)
  /\ UNCHANGED <<sharedVars, todo, seen, tried, crashes>>

ListsReapable ==
  /\ at = "listed"
  /\ todo' = AsListed(ListReapable(rows))
  /\ Goes(IF todo' = {} /\ active = {} THEN "idle" ELSE "mylist", NoCur)
  /\ UNCHANGED <<sharedVars, active, seen, tried, crashes>>

PassOver == /\ at' = "idle" /\ cur' = NoCur
            /\ todo' = {} /\ active' = {} /\ seen' = Unseen
            /\ UNCHANGED <<sharedVars, tried, crashes>>

MyListFails == at = "mylist" /\ PassOver

ReadsMyList ==
  /\ at = "mylist"
  /\ \E missed \in SUBSET Listed(account) :
       /\ missed # {} => ListGaps
       /\ seen' = [tb \in TbIds |-> IF tb \in Listed(account) \ missed
                                      THEN account[tb] ELSE NoEntry]
  /\ Goes("reap", NoCur)
  /\ UNCHANGED <<sharedVars, todo, active, tried, crashes>>

(* lookupTorBox: by the stored id, else by the infohash. *)
Lookup(t) ==
  IF t.ref \in TbIds /\ seen[t.ref] # NoEntry
    THEN {t.ref}
    ELSE {tb \in TbIds : seen[tb].hash = t.hash}

-----------------------------------------------------------------------------
(* reapPass.                                                                   *)

(* The reference is cleared whatever became of the delete. *)
ReapsRegardless(t) ==
  /\ at = "reap"
  /\ todo' = todo \ {t}
  /\ IF Lookup(t) = {}
       THEN rows' = ClearTorBoxRefs(rows, t.id) /\ UNCHANGED <<account, at, cur>>
       ELSE /\ \E o \in DeleteOutcomes :
                 account' = IF o.removed THEN Remove(account, t.ref) ELSE account
            /\ Goes("reapClear", t)
            /\ UNCHANGED rows
  /\ UNCHANGED <<lastId, adds, requestVars, active, seen, tried, crashes>>

Reaps(t) ==
  /\ at = "reap"
  /\ todo' = todo \ {t}
  /\ IF Lookup(t) = {}
       THEN rows' = ClearTorBoxRefs(rows, t.id) /\ UNCHANGED <<account, at, cur>>
       ELSE /\ \E o \in DeleteOutcomes :
                 /\ account' = IF o.removed THEN Remove(account, t.ref) ELSE account
                 /\ IF o.ok THEN Goes("reapClear", t) ELSE UNCHANGED <<at, cur>>
            /\ UNCHANGED rows
  /\ UNCHANGED <<lastId, adds, requestVars, active, seen, tried, crashes>>

ReapClears == at = "reapClear" /\ RowUpdate(ClearTorBoxRefs(rows, cur.id), "reap", NoCur)

ReapEnds ==
  /\ at = "reap" /\ todo = {}
  /\ todo' = active /\ active' = {}
  /\ Goes("each", NoCur)
  /\ UNCHANGED <<sharedVars, seen, tried, crashes>>

-----------------------------------------------------------------------------
(* reconcileOne.                                                               *)

Frame == UNCHANGED <<sharedVars, todo, active, seen, tried, crashes>>

(* Not in mylist: wait out vanishGrace, then ask for it by id. *)
Misses(t) ==
  /\ at = "each" /\ Lookup(t) = {}
  /\ todo' = todo \ {t}
  /\ Goes("each", NoCur) \/ Goes("confirm", t)
  /\ UNCHANGED <<sharedVars, active, seen, tried, crashes>>

(* In mylist: take over the id it has there. *)
Finds(t) ==
  /\ at = "each"
  /\ todo' = todo \ {t}
  /\ \E tb \in Lookup(t) :
       rows' = IF tb = t.ref THEN rows ELSE UpdateTorBoxID(rows, t.id, tb)
  /\ Goes("found", t)
  /\ UNCHANGED <<lastId, adds, account, requestVars, active, seen, tried, crashes>>

(* A 404 taken for a lookup that failed. *)
ConfirmsNever ==
  /\ at = "confirm"
  /\ Goes("each", NoCur)
  /\ Frame

(* confirmPresent: only an answer that it is not there fails the torrent.      *)
Confirms ==
  /\ at = "confirm"
  /\ \/ cur.ref # Null /\ Goes("each", NoCur)
     \/ cur.ref \notin Listed(account) /\ Goes("fail", cur)
  /\ Frame

(* toLocalQueued, unless TorBox lists no files yet or a file's path is unsafe. *)
HandsOver ==
  /\ at = "found" /\ \E tb \in Lookup(cur) : seen[tb].phase = "cached"
  /\ RowUpdate(MarkLocalQueued(rows, cur.id), "each", NoCur)

LeavesIt ==
  /\ at = "found"
  /\ Goes("each", NoCur)
  /\ Frame

(* Unsafe paths, or stalled, too slow, over its time. *)
Condemns ==
  /\ at = "found"
  /\ Goes("fail", cur)
  /\ Frame

(* fail: delete from TorBox what the listing named, clear that, mark the row.  *)
FailDeletes ==
  /\ at = "fail"
  /\ IF cur.ref = Null THEN Goes("failMark", cur) /\ Frame
                       ELSE DeleteCall("failClear", "failMark")

FailClears == at = "failClear" /\ RowUpdate(ClearTorBoxRefs(rows, cur.id), "failMark", cur)
FailMarks  == at = "failMark" /\ RowUpdate(MarkError(rows, cur.id), "each", NoCur)

PassEnds == at = "each" /\ todo = {} /\ PassOver

Reconcile ==
  \/ ArrLists \/ ArrMarks
  \/ PruneLists \/ PruneAtTorBox \/ PruneClears \/ PruneDrops
  \/ ListsActive \/ ListsReapable \/ MyListFails \/ ReadsMyList
  \/ ReapClears \/ ReapEnds
  \/ Confirms \/ HandsOver \/ LeavesIt \/ Condemns
  \/ FailDeletes \/ FailClears \/ FailMarks \/ PassEnds
  \/ \E t \in todo : \/ ArrWaits(t) \/ ArrUnsettled(t) \/ ArrSettled(t)
                     \/ PruneReads(t) \/ Reaps(t) \/ Misses(t) \/ Finds(t)

-----------------------------------------------------------------------------
(* TorBox ids this pass still names. *)
PassIds == {t.ref : t \in todo \cup active \cup {cur}} \cup {tb \in TbIds : seen[tb] # NoEntry}

(* TorBox may activate a torrent again under a new id. *)
Renumbers(tb) ==
  /\ tb \in Listed(account)
  /\ \E new \in FreshIds(NamedIds \cup PassIds) :
       account' = Remove([account EXCEPT ![new] = account[tb]], tb)
  /\ UNCHANGED <<tableVars, requestVars>>

(* The other loops, as far as this one meets them: whole passes over one row.  *)

OthersFrame == UNCHANGED <<lastId, adds, requestVars, passVars, crashes>>

(* submit: a new torrent, or the one TorBox already has, or a refusal, which   *)
(* stands for a create that names no torrent, too.                             *)
Submitted(id) ==
  /\ rows[id].state = "QUEUED" /\ CountActiveSlots(rows) < MaxSlots
  /\ \/ /\ EntriesOf(account, rows[id].hash) = {}
        /\ \E tb \in FreshIds(NamedIds \cup PassIds), phase \in {"fetching", "cached"} :
             /\ account' = Create(account, tb, rows[id].hash, phase)
             /\ rows' = MarkActive(rows, id, tb)
     \/ \E tb \in ListedOf(account, rows[id].hash) :
          rows' = MarkActive(rows, id, tb) /\ UNCHANGED account
     \/ /\ rows[id].hash \in Refusable
        /\ rows' = MarkError(rows, id) /\ UNCHANGED account
  /\ OthersFrame

(* The download loop finishes, or gives up. *)
Downloaded(id) ==
  /\ rows[id].state = "LOCAL_QUEUED"
  /\ DeletedFromTorBox(id, MarkComplete(rows, id)) \/ DeletedFromTorBox(id, MarkError(rows, id))
  /\ OthersFrame

-----------------------------------------------------------------------------
Crash ==
  /\ crashes < MaxCrashes
  /\ crashes' = crashes + 1
  /\ RequestsLost
  /\ Goes("idle", NoCur) /\ todo' = {} /\ active' = {} /\ seen' = Unseen /\ tried' = {}
  /\ UNCHANGED <<tableVars, account>>

RequestStep == (\E h \in Hashes : Request(h)) /\ UNCHANGED <<passVars, crashes>>
AccountStep == (\E tb \in TbIds : TorBoxStep(tb) \/ Renumbers(tb)) /\ UNCHANGED <<passVars, crashes>>
OtherLoops  == \E id \in Ids : Submitted(id) \/ Downloaded(id)

Next == Reconcile \/ RequestStep \/ AccountStep \/ OtherLoops \/ Crash

Spec == Init /\ [][Next]_vars

(* Every loop runs again and again, and a pass that has begun goes on.  Of the *)
(* others it is assumed that mylist and the lookup by id do not fail forever,  *)
(* that a delete which is sent again and again works at last, that TorBox      *)
(* finishes a fetch, lists its files and does not renumber it forever, and     *)
(* that an *arr instance asked again and again settles a failure at last.      *)
LoopFairness ==
  /\ WF_vars(Reconcile)
  /\ \A id \in Ids : WF_vars(Submitted(id)) /\ WF_vars(Downloaded(id))

AnswerFairness ==
  /\ SF_vars(ReadsMyList /\ \A tb \in Listed(account) : seen'[tb] = account[tb])
  /\ SF_vars(Confirms /\ at' = "fail") /\ SF_vars(HandsOver)
  /\ \A id \in Ids :
       /\ SF_vars(\E t \in todo : t.id = id /\ Misses(t) /\ at' = "confirm")
       /\ SF_vars(\E t \in todo : t.id = id /\ Reaps(t) /\ (at' = "reapClear" \/ rows' # rows))
       /\ SF_vars(\E t \in todo : t.id = id /\ ArrSettled(t))

FetchFairness ==
  \A tb \in TbIds : WF_vars(FetchEnds(tb) /\ UNCHANGED <<passVars, crashes>>)

NoEndlessRenumbering == <>[][\A tb \in TbIds : ~Renumbers(tb)]_vars

FairSpec ==
  Spec /\ LoopFairness /\ AnswerFairness /\ FetchFairness /\ NoEndlessRenumbering

-----------------------------------------------------------------------------
(* The torrent a row names on TorBox is that row's release, although the       *)
(* reconciler takes over ids it finds by infohash, and clears references and   *)
(* marks rows from listings that requests have overtaken (reconcile.go).       *)
RefIsOwnRelease ==
  \A id \in Ids : LET tb == rows[id].ref IN
    tb # Null => account[tb].phase = "none" \/ account[tb].hash = rows[id].hash

(* Every step is a step of the documented life of a torrent, or none: no       *)
(* update from an old listing, most of which ask for an id only, moves a row   *)
(* that has gone on since (reconcile.go, fail and toLocalQueued; add.go).      *)
Life == INSTANCE Lifecycle WITH
  state   <- [id \in Ids |-> rows[id].state],
  release <- [id \in Ids |-> rows[id].hash],
  given   <- 1 .. lastId

FollowsLifecycle == Life!Spec

(* A torrent that is finished or failed does not stay on TorBox: whatever      *)
(* delete was missed, the row names no torrent at last; and what it names is   *)
(* forgotten only when it is gone from TorBox, or when this pass read a mylist *)
(* that does not show it, which the reaper takes for gone (reconcile.go,       *)
(* reapPass).  A row that is being deleted, was pruned or is queued again is   *)
(* not meant: those deletes are made once.                                     *)
Done(id) == rows[id].state \in {"COMPLETE", "ERROR"}

Overlooked(tb) == at = "reap" /\ seen[tb] = NoEntry

LeftoversReaped ==
  /\ \A id \in Ids : Done(id) /\ rows[id].ref # Null ~> rows[id].ref = Null
  /\ [][\A id \in Ids : LET tb == rows[id].ref IN
           /\ Done(id) /\ tb # Null /\ deleting[rows[id].hash].at = "none"
           /\ rows'[id].state = rows[id].state /\ rows'[id].ref # tb
           => account[tb].phase = "none" \/ Overlooked(tb)]_vars

(* No row holds a slot forever: an active torrent is handed over or failed,    *)
(* also when it vanished from TorBox (reconcile.go, reconcileOne).             *)
SlotsReleased ==
  \A id \in Ids : rows[id].state = "TORBOX_ACTIVE" ~> rows[id].state # "TORBOX_ACTIVE"
=============================================================================
