------------------------------- MODULE Submitter -------------------------------
(* The submission loop of internal/engine: submitPass, submit, adoptExisting.  *)
(* It is one goroutine; a step of it is one statement on the store or one call *)
(* to TorBox, and requests, TorBox and the other loops move between them.      *)
EXTENDS Requests

CONSTANTS MaxSlots,      \* torbox.max_active_slots
          Nameless,      \* releases whose create TorBox may answer with neither id
          StoreMayFail,  \* whether the UPDATE after a create may fail
          MaxCrashes     \* bound: crashes (or restarts) of the process

ASSUME SubmitterAssumption ==
  /\ MaxSlots \in Nat /\ StoreMayFail \in BOOLEAN /\ MaxCrashes \in Nat
  /\ Nameless \subseteq Hashes

VARIABLES pc,        \* where the pass is
          used,      \* CountActiveSlots as the pass read it
          todo,      \* the QUEUED rows it listed and has not reached yet
          free,      \* slots it may still fill
          cur,       \* the torrent being submitted, as it was listed
          reply,     \* what TorBox answered about it
          cooldown,  \* createCooldownUntil lies in the future
          crashes

passVars == <<pc, used, todo, free, cur, reply, cooldown>>
vars     == <<sharedVars, passVars, crashes>>

Replies == {"none", "created", "found", "queued", "duplicate",
            "rateLimited", "transient", "network", "rejected", "nameless"}

NoTorrent == [id |-> 0, hash |-> NoHash]
NoReply   == [kind |-> "none", tb |-> Null]

TypeOK ==
  /\ SharedTypeOK
  /\ pc \in {"idle", "list", "next", "create", "reply"}
  /\ used \in 0 .. MaxRows
  /\ todo \subseteq Ids
  /\ free \in 0 .. MaxSlots
  /\ cur \in [id : Ids \cup {0}, hash : Hashes \cup {NoHash}]
  /\ reply \in [kind : Replies, tb : TbIds \cup {Null}]
  /\ cooldown \in BOOLEAN
  /\ crashes \in 0 .. MaxCrashes

Init ==
  /\ SharedInit
  /\ pc = "idle" /\ used = 0 /\ todo = {} /\ free = 0
  /\ cur = NoTorrent /\ reply = NoReply
  /\ cooldown = FALSE
  /\ crashes = 0

Idle == /\ pc' = "idle" /\ used' = 0 /\ todo' = {} /\ free' = 0
        /\ cur' = NoTorrent /\ reply' = NoReply

-----------------------------------------------------------------------------
(* submitPass: count the slots in use, then list the queue, in two statements. *)

CountSlots ==
  /\ pc = "idle" /\ ~cooldown
  /\ used' = CountActiveSlots(rows)
  /\ pc' = "list"
  /\ UNCHANGED <<sharedVars, todo, free, cur, reply, cooldown, crashes>>

ListQueue ==
  /\ pc = "list"
  /\ IF used < MaxSlots
       THEN /\ pc' = "next"
            /\ todo' = ListByState(rows, "QUEUED")
            /\ free' = MaxSlots - used
            /\ UNCHANGED <<used, cur, reply>>
       ELSE Idle
  /\ UNCHANGED <<sharedVars, cooldown, crashes>>

PassEnds ==
  /\ pc = "next"
  /\ free = 0 \/ cooldown \/ todo = {}
  /\ Idle
  /\ UNCHANGED <<sharedVars, cooldown, crashes>>

(* The next torrent of the listing, ORDER BY added_on.  submit first reads its *)
(* source, and gives up when the row has been deleted since it was listed.     *)
Reaches(id) ==
  /\ id \in todo /\ \A other \in todo : rows[id].added <= rows[other].added
  /\ todo' = todo \ {id}
  /\ IF Exists(rows, id)
       THEN pc' = "create" /\ cur' = [id |-> id, hash |-> rows[id].hash]
       ELSE UNCHANGED <<pc, cur>>
  /\ UNCHANGED <<sharedVars, used, free, reply, cooldown, crashes>>

(* The loop without its test that a slot is left. *)
NextWithoutSlot == pc = "next" /\ ~cooldown /\ \E id \in Ids : Reaches(id)

NextTorrent == pc = "next" /\ free > 0 /\ ~cooldown /\ \E id \in Ids : Reaches(id)

-----------------------------------------------------------------------------
(* The createtorrent call.  The client sends a call again when it gets no      *)
(* answer, so a lost answer either ends the call as a network error or leads   *)
(* to a second call for the same release.  A success may bring no id at all.   *)

Answered(kind, tb) == pc' = "reply" /\ reply' = [kind |-> kind, tb |-> tb]

AnsweredOrLost(kind, tb) ==
  \/ Answered(kind, tb)
  \/ Answered("network", Null)
  \/ UNCHANGED <<pc, reply>>

CallFrame == UNCHANGED <<tableVars, requestVars, used, todo, free, cur, cooldown, crashes>>

TorBoxCreates ==
  /\ pc = "create"
  /\ EntriesOf(account, cur.hash) = {}
  /\ LET fresh == FreshIds(NamedIds \cup {reply.tb}) IN
     \E tb \in fresh, phase \in CreatedPhases(account) :
       /\ \A other \in fresh : tb <= other
       /\ account' = Create(account, tb, cur.hash, phase)
       /\ \/ AnsweredOrLost(IF phase = "queued" THEN "queued" ELSE "created", tb)
          \/ cur.hash \in Nameless /\ Answered("nameless", Null)
  /\ CallFrame

(* A success that names nothing and of which nothing came. *)
TorBoxNamesNothing ==
  /\ pc = "create"
  /\ cur.hash \in Nameless
  /\ Answered("nameless", Null)
  /\ UNCHANGED account /\ CallFrame

TorBoxHasIt ==
  /\ pc = "create"
  /\ EntriesOf(account, cur.hash) # {}
  /\ Answered("duplicate", Null)
  /\ UNCHANGED account /\ CallFrame

TorBoxRefuses ==
  /\ pc = "create"
  /\ cur.hash \in Refusable
  /\ Answered("rejected", Null)
  /\ UNCHANGED account /\ CallFrame

(* A 429, an outage, an expired key, an account limit, no connection at all:  *)
(* answers that say nothing about the release.                                 *)
TorBoxUnavailable ==
  /\ pc = "create"
  /\ \E kind \in {"rateLimited", "transient", "network"} : Answered(kind, Null)
  /\ UNCHANGED account /\ CallFrame

-----------------------------------------------------------------------------
(* What submit does with the answer.  left says that the torrent left QUEUED,  *)
(* which costs the pass one of its free slots.                                 *)

FreeKept(left)  == free
FreeAfter(left) == IF left THEN free - 1 ELSE free

Done(left) == /\ pc' = "next" /\ cur' = NoTorrent /\ reply' = NoReply
              /\ free' = FreeAfter(left)
              /\ UNCHANGED <<used, todo, crashes>>

(* The update may fail in the store: the torrent is then on TorBox and QUEUED. *)
Tracks ==
  /\ pc = "reply" /\ reply.kind \in {"created", "found"}
  /\ cooldown' = (cooldown /\ reply.kind = "found")
  /\ \/ rows' = MarkActive(rows, cur.id, reply.tb) /\ Done(TRUE)
     \/ StoreMayFail /\ rows' = rows /\ Done(FALSE)
  /\ UNCHANGED <<lastId, adds, account, requestVars>>

(* A duplicate that is not looked for. *)
LeavesDuplicate ==
  /\ pc = "reply" /\ reply.kind = "duplicate"
  /\ cooldown' = TRUE /\ Done(FALSE)
  /\ UNCHANGED sharedVars

(* adoptExisting: find the duplicate in mylist, which does not show TorBox's  *)
(* queue and may itself fail; without it, stay QUEUED and pause.               *)
Adopts ==
  /\ pc = "reply" /\ reply.kind = "duplicate"
  /\ \/ /\ \E tb \in ListedOf(account, cur.hash) : Answered("found", tb)
        /\ UNCHANGED <<used, todo, free, cur, cooldown, crashes>>
     \/ cooldown' = TRUE /\ Done(FALSE)
  /\ UNCHANGED sharedVars

(* TorBox queued it: cancel the queued entry (best effort), stay QUEUED, pause. *)
CancelsQueued ==
  /\ pc = "reply" /\ reply.kind = "queued"
  /\ \E o \in DeleteOutcomes :
       account' = IF o.removed THEN Remove(account, reply.tb) ELSE account
  /\ cooldown' = TRUE
  /\ Done(FALSE)
  /\ UNCHANGED <<tableVars, requestVars>>

(* Every answer but success taken for a verdict. *)
FailsOnPause ==
  /\ pc = "reply" /\ reply.kind \in {"rateLimited", "transient"}
  /\ rows' = MarkError(rows, cur.id)
  /\ Done(TRUE)
  /\ UNCHANGED <<lastId, adds, account, requestVars, cooldown>>

Pauses ==
  /\ pc = "reply" /\ reply.kind \in {"rateLimited", "transient"}
  /\ cooldown' = TRUE
  /\ Done(FALSE)
  /\ UNCHANGED sharedVars

Retries ==
  /\ pc = "reply" /\ reply.kind = "network"
  /\ Done(FALSE)
  /\ UNCHANGED <<sharedVars, cooldown>>

(* A verdict on the release, or a success that names no torrent: both fail it  *)
(* as rejected.  fail has no TorBox torrent to delete for a row that was       *)
(* QUEUED, so what a success without an id created stays there.                *)
Fails ==
  /\ pc = "reply" /\ reply.kind \in {"rejected", "nameless"}
  /\ rows' = MarkError(rows, cur.id)
  /\ cooldown' = (cooldown /\ reply.kind = "rejected")
  /\ Done(TRUE)
  /\ UNCHANGED <<lastId, adds, account, requestVars>>

CooldownElapses ==
  /\ cooldown
  /\ cooldown' = FALSE
  /\ UNCHANGED <<sharedVars, pc, used, todo, free, cur, reply, crashes>>

Submit == \/ CountSlots \/ ListQueue \/ PassEnds \/ NextTorrent
          \/ TorBoxCreates \/ TorBoxNamesNothing
          \/ TorBoxHasIt \/ TorBoxRefuses \/ TorBoxUnavailable
          \/ Tracks \/ Adopts \/ CancelsQueued \/ Pauses \/ Retries \/ Fails

-----------------------------------------------------------------------------
(* The other loops, as far as the submitter meets them: whole passes over one *)
(* row, at once.  They never make a row QUEUED or TORBOX_ACTIVE.               *)

OthersFrame == UNCHANGED <<lastId, adds, requestVars, passVars, crashes>>

(* The reconciler finds the content on TorBox. *)
Fetched(id) ==
  /\ rows[id].state = "TORBOX_ACTIVE"
  /\ \E tb \in Listed(account) :
       /\ tb = rows[id].ref \/ account[tb].hash = rows[id].hash
       /\ account[tb].phase = "cached"
       /\ rows' = MarkLocalQueued(UpdateTorBoxID(rows, id, tb), id)
  /\ UNCHANGED account /\ OthersFrame

(* The reconciler fails a torrent that vanished, stalled or is too slow; the  *)
(* download loop fails one whose local attempts are used up.                   *)
GivesUp(id) ==
  /\ rows[id].state \in {"TORBOX_ACTIVE", "LOCAL_QUEUED"}
  /\ DeletedFromTorBox(id, MarkError(rows, id))
  /\ OthersFrame

(* The download loop finishes. *)
Downloaded(id) ==
  /\ rows[id].state = "LOCAL_QUEUED"
  /\ DeletedFromTorBox(id, MarkComplete(rows, id))
  /\ OthersFrame

Reaped(id) ==
  /\ id \in ListReapable(rows)
  /\ DeletedFromTorBox(id, rows)
  /\ OthersFrame

Leaves(id) == Fetched(id) \/ GivesUp(id) \/ Downloaded(id)

-----------------------------------------------------------------------------
Crash ==
  /\ crashes < MaxCrashes
  /\ crashes' = crashes + 1
  /\ RequestsLost
  /\ Idle /\ cooldown' = FALSE
  /\ UNCHANGED <<tableVars, account>>

RequestStep == (\E h \in Hashes : Request(h)) /\ UNCHANGED <<passVars, crashes>>
AccountStep == (\E tb \in TbIds : TorBoxStep(tb)) /\ UNCHANGED <<passVars, crashes>>
OtherLoops  == \E id \in Ids : Leaves(id) \/ Reaped(id)

Next == Submit \/ CooldownElapses \/ RequestStep \/ AccountStep \/ OtherLoops \/ Crash

Spec == Init /\ [][Next]_vars

(* The scheduler runs every loop again and again, and a pass that has begun    *)
(* goes on.  Of TorBox it is assumed that it does not stay away forever: a     *)
(* create that is sent again and again while a slot is free is answered at     *)
(* last, so is one for a release it holds and the search for it in mylist; the *)
(* local store does not fail forever; a fetch comes to an end, TorBox's queue  *)
(* advances, and TorBox does not forever expire what it was just asked for.    *)
LoopFairness ==
  /\ WF_vars(Submit) /\ WF_vars(CooldownElapses)
  /\ \A id \in Ids : WF_vars(Leaves(id)) /\ WF_vars(Reaped(id))

AnswerFairness ==
  /\ SF_vars(TorBoxCreates /\ SlotFree(account) /\ reply'.kind = "created")
  /\ SF_vars(TorBoxHasIt) /\ SF_vars(Adopts /\ reply'.kind = "found")
  /\ SF_vars(Tracks /\ rows' # rows)

FetchFairness ==
  /\ \A tb \in TbIds : WF_vars(FetchEnds(tb) /\ UNCHANGED <<passVars, crashes>>)
  /\ \A tb \in TbIds : WF_vars(QueueAdvances(tb) /\ UNCHANGED <<passVars, crashes>>)

NoEndlessExpiry == <>[][\A tb \in TbIds : ~Expires(tb)]_vars

FairSpec == Spec /\ LoopFairness /\ AnswerFairness /\ FetchFairness /\ NoEndlessExpiry

-----------------------------------------------------------------------------
ActiveRows == InState(rows, {"TORBOX_ACTIVE"})

(* No more rows are active on TorBox than max_active_slots, although the pass *)
(* decides on a count it read before it made any of its creates, and the other *)
(* loops and requests change the table meanwhile (engine.go, submitPass).      *)
SlotBound == Cardinality(ActiveRows) <= MaxSlots

(* Why SlotBound holds at every point of a pass: the slots the pass may still *)
(* fill are free beside the rows that are active now.                          *)
Budget ==
  /\ pc = "list" => Cardinality(ActiveRows) <= used
  /\ pc \in {"next", "create", "reply"} => Cardinality(ActiveRows) + free <= MaxSlots
  /\ pc \in {"create", "reply"} => free > 0

(* The torrent a row names on TorBox is that row's release, also when the row *)
(* was deleted, and its infohash added again, while createtorrent was on its   *)
(* way: the update goes to a row id no later row can have (engine.go, submit). *)
RefIsOwnRelease ==
  \A id \in Ids : LET tb == rows[id].ref IN
    tb # Null => account[tb].phase = "none" \/ account[tb].hash = rows[id].hash

(* A queued release becomes an ERROR, which makes Sonarr blocklist it, only   *)
(* when TorBox refuses that release, or takes it and names neither a torrent   *)
(* nor a queued entry: never for an outage, a rate limit, a lost answer, a     *)
(* full account or a duplicate (engine.go, submit).                            *)
OnlyVerdictsFail ==
  [][\A id \in Ids : rows[id].state = "QUEUED" /\ rows'[id].state = "ERROR"
                        => rows[id].hash \in Refusable \cup Nameless]_vars

(* Every step is a step of the documented life of a torrent, or none. *)
Life == INSTANCE Lifecycle WITH
  state   <- [id \in Ids |-> rows[id].state],
  release <- [id \in Ids |-> rows[id].hash],
  given   <- 1 .. lastId

FollowsLifecycle == Life!Spec

(* Every queued torrent is submitted, failed or deleted at last: no answer of  *)
(* TorBox, pause, crash or full account leaves it in the queue forever.        *)
QueueDrains == \A id \in Ids : rows[id].state = "QUEUED" ~> rows[id].state # "QUEUED"
=============================================================================
