---------------------------- MODULE SubmitterProofs ----------------------------
(* Type correctness of the submission loop, the bound on the rows that are     *)
(* active on TorBox, the references the rows hold, what may fail a row, and    *)
(* the refinement of Lifecycle, for any number of releases, rows, slots and    *)
(* crashes.                                                                    *)
EXTENDS Submitter, RequestsProofs

(* What a step finds in the variables beyond their types: a submission has its *)
(* row, an answer that names a torrent has its id, a delete has its row.       *)
Named ==
  /\ pc \in {"create", "reply"} => cur.id \in Ids
  /\ pc = "reply" /\ reply.kind \in {"created", "found"} => reply.tb \in TbIds
  /\ DeletesNamed

(* The inductive invariant. *)
IInv == TypeOK /\ SlotBound /\ Budget /\ Named

-----------------------------------------------------------------------------
(* The account. *)

LEMMA CreateType ==
  ASSUME NEW acc \in [TbIds -> Entry], NEW tb \in TbIds,
         NEW h \in Hashes \cup {NoHash}, NEW phase \in CreatedPhases(acc)
  PROVE  Create(acc, tb, h, phase) \in [TbIds -> Entry]
BY DEF Create, CreatedPhases, Entry, Phases

-----------------------------------------------------------------------------
(* A step outside the pass that activates no row leaves the pass its budget.  *)
LEMMA OutsideThePass ==
  ASSUME IInv, SharedTypeOK', UNCHANGED <<passVars, crashes>>,
         ActiveIn(rows') \subseteq ActiveIn(rows),
         DeletesNamed'
  PROVE  IInv'
<1>1. Cardinality(ActiveRows') <= Cardinality(ActiveRows)
  BY CountMonotone, ActiveAreIds DEF ActiveRows, ActiveIn
<1>2. Cardinality(ActiveRows') \in Nat /\ Cardinality(ActiveRows) \in Nat
  BY RowsFinite, ActiveAreIds DEF ActiveRows, ActiveIn
<1>3. TypeOK'
  BY DEF IInv, TypeOK, passVars
<1>4. SlotBound'
  BY <1>1, <1>2, SubmitterAssumption DEF IInv, SlotBound
<1>5. Budget'
  BY <1>1, <1>2, SubmitterAssumption DEF IInv, Budget, TypeOK, passVars
<1>6. Named'
  BY DEF IInv, Named, DeletesNamed, passVars
<1>. QED  BY <1>3, <1>4, <1>5, <1>6 DEF IInv

(* A step of the pass that leaves the table and the requests alone keeps what *)
(* they contribute to the invariant.                                          *)
LEMMA InsideThePass ==
  ASSUME IInv, UNCHANGED <<tableVars, requestVars>>, account' \in [TbIds -> Entry]
  PROVE  /\ SharedTypeOK'
         /\ SlotBound'
         /\ ActiveRows' = ActiveRows
         /\ DeletesNamed'
BY DEF IInv, TypeOK, SharedTypeOK, tableVars, requestVars, SlotBound, ActiveRows, Named, DeletesNamed

-----------------------------------------------------------------------------
LEMMA InitEstablishes ==
  ASSUME Init
  PROVE  IInv
<1>1. SharedTypeOK
  <2>1. rows \in [Ids -> Row]
    BY EmptyTableType DEF Init, SharedInit, Table
  <2>2. account \in [TbIds -> Entry]
    BY RequestsAssumption DEF Init, SharedInit, Entry, NoEntry, Phases
  <2>3. deleting \in [Hashes -> Deleting]
    BY DEF Init, SharedInit, Deleting, NoDelete, DeleteSteps
  <2>. QED
    BY <2>1, <2>2, <2>3, StoreAssumption, RequestsAssumption
       DEF Init, SharedInit, SharedTypeOK, Deleting
<1>2. TypeOK
  <2>1. cooldown \in BOOLEAN /\ todo \subseteq Ids
    BY DEF Init
  <2>2. used \in 0 .. MaxRows /\ free \in 0 .. MaxSlots /\ crashes \in 0 .. MaxCrashes
    BY StoreAssumption, SubmitterAssumption DEF Init
  <2>3. cur \in [id : Ids \cup {0}, hash : Hashes \cup {NoHash}]
    BY DEF Init, NoTorrent
  <2>4. reply \in [kind : Replies, tb : TbIds \cup {Null}]
    BY DEF Init, NoReply, Replies
  <2>. QED  BY <1>1, <2>1, <2>2, <2>3, <2>4 DEF Init, TypeOK
<1>3. ActiveRows = {}
  BY EmptyTableType DEF Init, SharedInit, ActiveRows, ActiveIn
<1>4. Cardinality(ActiveRows) = 0
  BY <1>3, FS_EmptySet
<1>5. SlotBound /\ Budget
  BY <1>4, SubmitterAssumption DEF Init, SlotBound, Budget
<1>6. Named
  BY DEF Init, SharedInit, NoDelete, Named, DeletesNamed
<1>. QED  BY <1>2, <1>5, <1>6 DEF IInv

-----------------------------------------------------------------------------
(* The requests. *)
LEMMA RequestKeeps ==
  ASSUME IInv, NEW h \in Hashes, Request(h), UNCHANGED <<passVars, crashes>>
  PROVE  IInv'
<1>1. SharedTypeOK /\ DeletesNamed
  BY DEF IInv, TypeOK, Named, DeletesNamed
<1>. QED  BY <1>1, RequestType, OutsideThePass

(* TorBox on its own. *)
LEMMA AccountKeeps ==
  ASSUME IInv, NEW tb \in TbIds, TorBoxStep(tb), UNCHANGED <<passVars, crashes>>
  PROVE  IInv'
<1>1. account \in [TbIds -> Entry]
  BY DEF IInv, TypeOK, SharedTypeOK
<1>2. account' \in [TbIds -> Entry] /\ UNCHANGED <<tableVars, requestVars>>
  BY <1>1, TorBoxStepEffect
<1>3. SharedTypeOK' /\ ActiveIn(rows') \subseteq ActiveIn(rows) /\ DeletesNamed'
  BY <1>2 DEF IInv, TypeOK, SharedTypeOK, Named, DeletesNamed, tableVars, requestVars
<1>. QED  BY <1>3, OutsideThePass

-----------------------------------------------------------------------------
(* The pass itself. *)

(* Back to the start of a pass: nothing of it is left. *)
LEMMA IdleKeeps ==
  ASSUME IInv, Idle, UNCHANGED sharedVars, cooldown' \in BOOLEAN,
         crashes' \in 0 .. MaxCrashes
  PROVE  IInv'
<1>1. account' \in [TbIds -> Entry] /\ UNCHANGED <<tableVars, requestVars>>
  BY DEF IInv, TypeOK, SharedTypeOK, sharedVars, tableVars, requestVars
<1>2. /\ SharedTypeOK' /\ SlotBound'
      /\ DeletesNamed'
  BY <1>1, InsideThePass
<1>3. cur' \in [id : Ids \cup {0}, hash : Hashes \cup {NoHash}]
  BY DEF Idle, NoTorrent
<1>4. reply' \in [kind : Replies, tb : TbIds \cup {Null}]
  BY DEF Idle, NoReply, Replies
<1>5. used' \in 0 .. MaxRows /\ free' \in 0 .. MaxSlots /\ todo' \subseteq Ids
  BY StoreAssumption, SubmitterAssumption DEF Idle
<1>6. TypeOK'
  BY <1>2, <1>3, <1>4, <1>5 DEF TypeOK, Idle
<1>7. Budget' /\ Named'
  BY <1>2 DEF Budget, Named, DeletesNamed, Idle
<1>. QED  BY <1>2, <1>6, <1>7 DEF IInv

LEMMA CountSlotsKeeps ==
  ASSUME IInv, CountSlots
  PROVE  IInv'
<1>1. account' \in [TbIds -> Entry] /\ UNCHANGED <<tableVars, requestVars>>
  BY DEF IInv, TypeOK, SharedTypeOK, CountSlots, sharedVars, tableVars, requestVars
<1>2. /\ SharedTypeOK' /\ SlotBound' /\ ActiveRows' = ActiveRows
      /\ DeletesNamed'
  BY <1>1, InsideThePass
<1>3. used' = Cardinality(ActiveRows) /\ used' \in 0 .. MaxRows
  BY RowsFinite, ActiveAreIds
     DEF CountSlots, CountActiveSlots, ActiveRows, ActiveIn
<1>4. TypeOK'
  BY <1>2, <1>3 DEF IInv, TypeOK, CountSlots
<1>5. Budget'
  BY <1>2, <1>3 DEF Budget, CountSlots
<1>6. Named'
  BY <1>2 DEF Named, DeletesNamed, CountSlots
<1>. QED  BY <1>2, <1>4, <1>5, <1>6 DEF IInv

LEMMA ListQueueKeeps ==
  ASSUME IInv, ListQueue
  PROVE  IInv'
<1>1. CASE used < MaxSlots
  <2>1. account' \in [TbIds -> Entry] /\ UNCHANGED <<tableVars, requestVars>>
    BY DEF IInv, TypeOK, SharedTypeOK, ListQueue, sharedVars, tableVars, requestVars
  <2>2. /\ SharedTypeOK' /\ SlotBound' /\ ActiveRows' = ActiveRows
        /\ DeletesNamed'
    BY <2>1, InsideThePass
  <2>3. free' = MaxSlots - used /\ pc' = "next" /\ pc = "list"
    BY <1>1 DEF ListQueue
  <2>4. Cardinality(ActiveRows) <= used /\ used \in 0 .. MaxRows
    BY <2>3 DEF IInv, Budget, TypeOK
  <2>5. Cardinality(ActiveRows) \in Nat
    BY RowsFinite, ActiveAreIds DEF ActiveRows, ActiveIn
  <2>6. free' \in 0 .. MaxSlots /\ Cardinality(ActiveRows) + free' <= MaxSlots
    BY <1>1, <2>3, <2>4, <2>5, SubmitterAssumption
  <2>7. todo' \subseteq Ids
    BY <1>1 DEF ListQueue, ListByState, InState
  <2>8. TypeOK'
    BY <1>1, <2>2, <2>3, <2>6, <2>7 DEF IInv, TypeOK, ListQueue
  <2>9. Budget' /\ Named'
    BY <2>2, <2>3, <2>6 DEF Budget, Named, DeletesNamed
  <2>. QED  BY <2>2, <2>8, <2>9 DEF IInv
<1>2. CASE ~(used < MaxSlots)
  BY <1>2, IdleKeeps DEF ListQueue, IInv, TypeOK
<1>. QED  BY <1>1, <1>2

LEMMA PassEndsKeeps ==
  ASSUME IInv, PassEnds
  PROVE  IInv'
BY IdleKeeps DEF PassEnds, IInv, TypeOK

LEMMA NextTorrentKeeps ==
  ASSUME IInv, NextTorrent
  PROVE  IInv'
<1>1. PICK id \in Ids : Reaches(id)
  BY DEF NextTorrent
<1>2. account' \in [TbIds -> Entry] /\ UNCHANGED <<tableVars, requestVars>>
  BY <1>1 DEF IInv, TypeOK, SharedTypeOK, Reaches, sharedVars, tableVars, requestVars
<1>3. /\ SharedTypeOK' /\ SlotBound' /\ ActiveRows' = ActiveRows
      /\ DeletesNamed'
  BY <1>2, InsideThePass
<1>4. rows[id].hash \in Hashes \cup {NoHash}
  BY DEF IInv, TypeOK, SharedTypeOK, Row
<1>5. /\ cur' \in [id : Ids \cup {0}, hash : Hashes \cup {NoHash}]
      /\ pc' \in {"next", "create"}
      /\ pc' = "create" => cur'.id \in Ids
      /\ todo' \subseteq Ids
  BY <1>1, <1>4 DEF IInv, TypeOK, NextTorrent, Reaches
<1>6. TypeOK'
  BY <1>1, <1>3, <1>5 DEF IInv, TypeOK, Reaches
<1>7. Budget'
  BY <1>1, <1>3, <1>5 DEF IInv, Budget, NextTorrent, Reaches
<1>8. Named'
  BY <1>3, <1>5 DEF Named, DeletesNamed
<1>. QED  BY <1>3, <1>6, <1>7, <1>8 DEF IInv

-----------------------------------------------------------------------------
(* The call and its answers. *)

(* An answer of a kind that names no torrent, or that comes with its id. *)
LEMMA AnswerKeeps ==
  ASSUME IInv, pc \in {"create", "reply"}, NEW kind \in Replies, NEW tb \in TbIds \cup {Null},
         kind \in {"created", "found"} => tb \in TbIds,
         Answered(kind, tb), account' \in [TbIds -> Entry],
         UNCHANGED <<tableVars, requestVars, used, todo, free, cur, cooldown, crashes>>
  PROVE  IInv'
<1>1. /\ SharedTypeOK' /\ SlotBound' /\ ActiveRows' = ActiveRows
      /\ DeletesNamed'
  BY InsideThePass
<1>2. TypeOK'
  BY <1>1 DEF IInv, TypeOK, Answered
<1>3. Budget'
  BY <1>1 DEF IInv, Budget, Answered
<1>4. Named'
  BY <1>1 DEF IInv, Named, DeletesNamed, Answered
<1>. QED  BY <1>1, <1>2, <1>3, <1>4 DEF IInv

LEMMA CreateKeeps ==
  ASSUME IInv, TorBoxCreates
  PROVE  IInv'
<1>1. PICK tb \in TbIds, phase \in CreatedPhases(account) :
        /\ account' = Create(account, tb, cur.hash, phase)
        /\ \/ AnsweredOrLost(IF phase = "queued" THEN "queued" ELSE "created", tb)
           \/ Answered("nameless", Null)
  BY DEF TorBoxCreates, FreshIds
<1>2. account' \in [TbIds -> Entry]
  BY <1>1, CreateType DEF IInv, TypeOK, SharedTypeOK
<1>3. pc = "create" /\ CallFrame
  BY DEF TorBoxCreates
<1>4. CASE Answered(IF phase = "queued" THEN "queued" ELSE "created", tb)
  BY <1>2, <1>3, <1>4, AnswerKeeps DEF CallFrame, Replies
<1>5. CASE Answered("network", Null)
  BY <1>2, <1>3, <1>5, AnswerKeeps DEF CallFrame, Replies
<1>6. CASE UNCHANGED <<pc, reply>>
  <2>1. Answered("network", Null) \/ UNCHANGED <<pc, reply>>
    BY <1>6
  <2>2. /\ SharedTypeOK' /\ SlotBound' /\ ActiveRows' = ActiveRows
        /\ DeletesNamed'
    BY <1>2, <1>3, InsideThePass DEF CallFrame
  <2>3. TypeOK'
    BY <1>3, <1>6, <2>2 DEF IInv, TypeOK, CallFrame
  <2>4. Budget'
    BY <1>3, <1>6, <2>2 DEF IInv, Budget, CallFrame
  <2>5. Named'
    BY <1>3, <1>6, <2>2 DEF IInv, Named, DeletesNamed, CallFrame
  <2>. QED  BY <2>2, <2>3, <2>4, <2>5 DEF IInv
<1>7. CASE Answered("nameless", Null)
  BY <1>2, <1>3, <1>7, AnswerKeeps DEF CallFrame, Replies
<1>. QED  BY <1>1, <1>4, <1>5, <1>6, <1>7 DEF AnsweredOrLost

LEMMA OtherAnswersKeep ==
  ASSUME IInv, TorBoxNamesNothing \/ TorBoxHasIt \/ TorBoxRefuses \/ TorBoxUnavailable
  PROVE  IInv'
<1>1. PICK kind \in {"nameless", "duplicate", "rejected", "rateLimited", "transient", "network"} :
        Answered(kind, Null)
  BY DEF TorBoxNamesNothing, TorBoxHasIt, TorBoxRefuses, TorBoxUnavailable
<1>2. pc = "create" /\ UNCHANGED account /\ CallFrame
  BY DEF TorBoxNamesNothing, TorBoxHasIt, TorBoxRefuses, TorBoxUnavailable
<1>. QED
  BY <1>1, <1>2, AnswerKeeps DEF CallFrame, Replies, IInv, TypeOK, SharedTypeOK

-----------------------------------------------------------------------------
(* What submit does with the answer. *)

(* The end of a submission that activates at most the rows its slot pays for. *)
LEMMA DoneKeeps ==
  ASSUME IInv, pc = "reply", NEW left \in BOOLEAN, Done(left),
         SharedTypeOK', cooldown' \in BOOLEAN,
         UNCHANGED requestVars,
         \/ ActiveIn(rows') \subseteq ActiveIn(rows)
         \/ left /\ Cardinality(ActiveRows') <= Cardinality(ActiveRows) + 1
  PROVE  IInv'
<1>1. /\ Cardinality(ActiveRows) \in Nat /\ Cardinality(ActiveRows') \in Nat
      /\ Cardinality(ActiveRows) + free <= MaxSlots /\ free > 0
      /\ free \in Nat
  BY RowsFinite, ActiveAreIds
     DEF ActiveRows, ActiveIn, IInv, Budget, TypeOK
<1>2. free' \in 0 .. MaxSlots /\ free' = IF left THEN free - 1 ELSE free
  BY <1>1, SubmitterAssumption DEF Done, FreeAfter, IInv, TypeOK
<1>3. Cardinality(ActiveRows') <= IF left THEN Cardinality(ActiveRows) + 1
                                          ELSE Cardinality(ActiveRows)
  <2>1. CASE ActiveIn(rows') \subseteq ActiveIn(rows)
    <3>1. Cardinality(ActiveRows') <= Cardinality(ActiveRows)
      BY <2>1, CountMonotone, ActiveAreIds DEF ActiveRows, ActiveIn
    <3>. QED  BY <3>1, <1>1
  <2>. QED  BY <2>1
<1>4. Cardinality(ActiveRows') + free' <= MaxSlots
  BY <1>1, <1>2, <1>3, SubmitterAssumption
<1>5. SlotBound'
  BY <1>1, <1>2, <1>4, SubmitterAssumption DEF SlotBound
<1>6. cur' \in [id : Ids \cup {0}, hash : Hashes \cup {NoHash}]
  BY DEF Done, NoTorrent
<1>7. reply' \in [kind : Replies, tb : TbIds \cup {Null}]
  BY DEF Done, NoReply, Replies
<1>8. TypeOK'
  BY <1>2, <1>6, <1>7 DEF IInv, TypeOK, Done
<1>9. Budget'
  BY <1>4 DEF Budget, Done
<1>10. Named'
  BY DEF IInv, Named, DeletesNamed, Done, requestVars
<1>. QED  BY <1>5, <1>8, <1>9, <1>10 DEF IInv

LEMMA SharedKept ==
  ASSUME IInv, UNCHANGED sharedVars
  PROVE  /\ SharedTypeOK' /\ UNCHANGED requestVars
         /\ ActiveIn(rows') \subseteq ActiveIn(rows)
BY DEF IInv, TypeOK, SharedTypeOK, sharedVars, requestVars

LEMMA TracksKeeps ==
  ASSUME IInv, Tracks
  PROVE  IInv'
<1>0. /\ rows \in Table /\ cur.id \in Ids /\ reply.tb \in TbIds
      /\ UNCHANGED requestVars /\ cooldown' \in BOOLEAN
  BY DEF Tracks, IInv, TypeOK, SharedTypeOK, Table, Named, DeletesNamed
<1>1. CASE rows' = MarkActive(rows, cur.id, reply.tb) /\ Done(TRUE)
  <2>1. rows' \in Table /\ ActiveIn(rows') \subseteq ActiveIn(rows) \cup {cur.id}
    BY <1>0, <1>1, MarkActiveType
  <2>2. Cardinality(ActiveRows') <= Cardinality(ActiveRows) + 1
    BY <1>0, <2>1, CountOneMore, ActiveAreIds DEF ActiveRows, ActiveIn
  <2>3. SharedTypeOK'
    BY <2>1 DEF IInv, TypeOK, SharedTypeOK, Table, Tracks, requestVars
  <2>. QED  BY <1>0, <1>1, <2>2, <2>3, DoneKeeps DEF Tracks
<1>2. CASE StoreMayFail /\ rows' = rows /\ Done(FALSE)
  <2>1. SharedTypeOK' /\ ActiveIn(rows') \subseteq ActiveIn(rows)
    BY <1>2 DEF IInv, TypeOK, SharedTypeOK, Tracks, requestVars
  <2>. QED  BY <1>0, <1>2, <2>1, DoneKeeps DEF Tracks
<1>. QED  BY <1>1, <1>2 DEF Tracks

LEMMA AdoptsKeeps ==
  ASSUME IInv, Adopts
  PROVE  IInv'
<1>1. UNCHANGED sharedVars /\ pc = "reply"
  BY DEF Adopts
<1>2. CASE \E tb \in ListedOf(account, cur.hash) : Answered("found", tb)
             /\ UNCHANGED <<used, todo, free, cur, cooldown, crashes>>
  <2>1. PICK tb \in TbIds : Answered("found", tb)
    BY <1>2 DEF ListedOf, EntriesOf
  <2>2. UNCHANGED <<used, todo, free, cur, cooldown, crashes>>
    BY <1>2
  <2>. QED
    BY <1>1, <2>1, <2>2, AnswerKeeps
       DEF sharedVars, tableVars, requestVars, Replies, IInv, TypeOK, SharedTypeOK
<1>3. CASE cooldown' = TRUE /\ Done(FALSE)
  BY <1>1, <1>3, SharedKept, DoneKeeps
<1>. QED  BY <1>2, <1>3 DEF Adopts

LEMMA CancelsQueuedKeeps ==
  ASSUME IInv, CancelsQueued
  PROVE  IInv'
<1>1. account' \in [TbIds -> Entry]
  BY RemoveEffect DEF CancelsQueued, IInv, TypeOK, SharedTypeOK
<1>2. UNCHANGED <<tableVars, requestVars>> /\ pc = "reply" /\ cooldown' = TRUE /\ Done(FALSE)
  BY DEF CancelsQueued
<1>3. SharedTypeOK' /\ ActiveIn(rows') \subseteq ActiveIn(rows) /\ UNCHANGED requestVars
  BY <1>1, <1>2, InsideThePass DEF tableVars
<1>. QED  BY <1>2, <1>3, DoneKeeps

LEMMA PausesKeeps ==
  ASSUME IInv, Pauses \/ Retries
  PROVE  IInv'
<1>1. UNCHANGED sharedVars /\ pc = "reply" /\ Done(FALSE) /\ cooldown' \in BOOLEAN
  BY DEF Pauses, Retries, IInv, TypeOK
<1>. QED  BY <1>1, SharedKept, DoneKeeps

LEMMA FailsKeeps ==
  ASSUME IInv, Fails
  PROVE  IInv'
<1>1. rows \in Table /\ cur.id \in Ids
  BY DEF Fails, IInv, TypeOK, SharedTypeOK, Table, Named, DeletesNamed
<1>2. rows' \in Table /\ ActiveIn(rows') \subseteq ActiveIn(rows)
  BY <1>1, MarkErrorType DEF Fails
<1>3. SharedTypeOK' /\ UNCHANGED requestVars /\ cooldown' \in BOOLEAN
  BY <1>2 DEF Fails, IInv, TypeOK, SharedTypeOK, Table, requestVars
<1>. QED  BY <1>2, <1>3, DoneKeeps DEF Fails

LEMMA CooldownElapsesKeeps ==
  ASSUME IInv, CooldownElapses
  PROVE  IInv'
<1>1. SharedTypeOK' /\ TypeOK'
  BY DEF IInv, TypeOK, SharedTypeOK, CooldownElapses, sharedVars
<1>2. ActiveRows' = ActiveRows
  BY DEF ActiveRows, CooldownElapses, sharedVars
<1>. QED
  BY <1>1, <1>2 DEF IInv, SlotBound, Budget, Named, DeletesNamed, CooldownElapses, sharedVars

-----------------------------------------------------------------------------
(* The other loops. *)

LEMMA DeletedKeeps ==
  ASSUME IInv, NEW id \in Ids, NEW table \in Table,
         ActiveIn(table) \subseteq ActiveIn(rows),
         DeletedFromTorBox(id, table), OthersFrame
  PROVE  IInv'
<1>1. rows' \in Table /\ ActiveIn(rows') \subseteq ActiveIn(rows)
  BY ClearTorBoxRefsType DEF DeletedFromTorBox
<1>2. account' \in [TbIds -> Entry]
  BY RemoveEffect DEF DeletedFromTorBox, IInv, TypeOK, SharedTypeOK
<1>3. SharedTypeOK'
  BY <1>1, <1>2 DEF IInv, TypeOK, SharedTypeOK, Table, OthersFrame, requestVars
<1>. QED
  BY <1>1, <1>3, OutsideThePass DEF OthersFrame, requestVars, IInv, Named, DeletesNamed

LEMMA OtherLoopsKeep ==
  ASSUME IInv, OtherLoops
  PROVE  IInv'
<1>1. PICK id \in Ids : Leaves(id) \/ Reaped(id)
  BY DEF OtherLoops
<1>2. rows \in Table
  BY DEF IInv, TypeOK, SharedTypeOK, Table
<1>3. CASE Fetched(id)
  <2>1. PICK tb \in TbIds : rows' = MarkLocalQueued(UpdateTorBoxID(rows, id, tb), id)
    BY <1>3 DEF Fetched, Listed
  <2>2. /\ UpdateTorBoxID(rows, id, tb) \in Table
        /\ ActiveIn(UpdateTorBoxID(rows, id, tb)) \subseteq ActiveIn(rows)
    BY <1>2, UpdateTorBoxIDType
  <2>3. rows' \in Table /\ ActiveIn(rows') \subseteq ActiveIn(rows)
    BY <2>1, <2>2, MarkLocalQueuedType
  <2>4. UNCHANGED account /\ OthersFrame
    BY <1>3 DEF Fetched
  <2>5. SharedTypeOK'
    BY <2>3, <2>4 DEF IInv, TypeOK, SharedTypeOK, Table, OthersFrame, requestVars
  <2>. QED
    BY <2>3, <2>4, <2>5, OutsideThePass DEF OthersFrame, requestVars, IInv, Named, DeletesNamed
<1>4. CASE GivesUp(id)
  BY <1>2, <1>4, MarkErrorType, DeletedKeeps DEF GivesUp
<1>5. CASE Downloaded(id)
  BY <1>2, <1>5, MarkCompleteType, DeletedKeeps DEF Downloaded
<1>6. CASE Reaped(id)
  BY <1>2, <1>6, DeletedKeeps DEF Reaped
<1>. QED  BY <1>1, <1>3, <1>4, <1>5, <1>6 DEF Leaves

LEMMA CrashKeeps ==
  ASSUME IInv, Crash
  PROVE  IInv'
<1>1. crashes' \in 0 .. MaxCrashes
  BY SubmitterAssumption DEF Crash, IInv, TypeOK
<1>2. deleting' \in [Hashes -> Deleting] /\ adding' \subseteq Hashes
  BY DEF Crash, RequestsLost, NoDelete, Deleting, DeleteSteps
<1>3. SharedTypeOK'
  BY <1>2 DEF Crash, IInv, TypeOK, SharedTypeOK, Deleting, tableVars
<1>4. cur' \in [id : Ids \cup {0}, hash : Hashes \cup {NoHash}]
  BY DEF Crash, Idle, NoTorrent
<1>5. reply' \in [kind : Replies, tb : TbIds \cup {Null}]
  BY DEF Crash, Idle, NoReply, Replies
<1>6. used' \in 0 .. MaxRows /\ free' \in 0 .. MaxSlots /\ todo' \subseteq Ids
  BY StoreAssumption, SubmitterAssumption DEF Crash, Idle
<1>7. TypeOK'
  BY <1>1, <1>3, <1>4, <1>5, <1>6 DEF TypeOK, Crash, Idle
<1>8. SlotBound' /\ Budget'
  BY DEF Crash, Idle, tableVars, IInv, SlotBound, Budget, ActiveRows
<1>9. Named'
  BY DEF Crash, Idle, RequestsLost, NoDelete, Named, DeletesNamed
<1>. QED  BY <1>7, <1>8, <1>9 DEF IInv

-----------------------------------------------------------------------------
LEMMA StepKeeps ==
  ASSUME IInv, [Next]_vars
  PROVE  IInv'
<1>1. CASE Submit
  BY <1>1, CountSlotsKeeps, ListQueueKeeps, PassEndsKeeps, NextTorrentKeeps, CreateKeeps,
     OtherAnswersKeep, TracksKeeps, AdoptsKeeps, CancelsQueuedKeeps, PausesKeeps,
     FailsKeeps DEF Submit
<1>2. CASE CooldownElapses
  BY <1>2, CooldownElapsesKeeps
<1>3. CASE RequestStep
  BY <1>3, RequestKeeps DEF RequestStep
<1>4. CASE AccountStep
  BY <1>4, AccountKeeps DEF AccountStep
<1>5. CASE OtherLoops
  BY <1>5, OtherLoopsKeep
<1>6. CASE Crash
  BY <1>6, CrashKeeps
<1>7. CASE UNCHANGED vars
  <2>1. UNCHANGED <<passVars, crashes>> /\ UNCHANGED sharedVars
    BY <1>7 DEF vars
  <2>2. SharedTypeOK' /\ UNCHANGED requestVars /\ ActiveIn(rows') \subseteq ActiveIn(rows)
    BY <2>1, SharedKept
  <2>. QED  BY <2>1, <2>2, OutsideThePass DEF requestVars, IInv, Named, DeletesNamed
<1>. QED
  BY <1>1, <1>2, <1>3, <1>4, <1>5, <1>6, <1>7 DEF Next

(* The inductive invariant holds throughout. *)
THEOREM Invariance == Spec => []IInv
<1>1. Init => IInv
  BY InitEstablishes
<1>2. IInv /\ [Next]_vars => IInv'
  BY StepKeeps
<1>. QED  BY <1>1, <1>2, PTL DEF Spec

(* Every variable keeps its type: the table, the account and the requests, and *)
(* the pass of the submission loop, whatever the answers of TorBox, the        *)
(* requests and the crashes between two of its statements.                     *)
THEOREM TypeCorrect == Spec => []TypeOK
<1>1. IInv => TypeOK
  BY DEF IInv
<1>. QED  BY <1>1, Invariance, PTL

(* submitPass never has more rows active on TorBox than max_active_slots, for  *)
(* any number of slots, rows and releases, although it counts the slots once   *)
(* and fills them one create at a time.                                        *)
THEOREM SlotsBounded == Spec => []SlotBound
<1>1. IInv => SlotBound
  BY DEF IInv
<1>. QED  BY <1>1, Invariance, PTL

(* The slots a pass may still fill are free beside the rows active now. *)
THEOREM BudgetHolds == Spec => []Budget
<1>1. IInv => Budget
  BY DEF IInv
<1>. QED  BY <1>1, Invariance, PTL
-----------------------------------------------------------------------------
(* The life of a torrent.  Each statement of the store that changes the state  *)
(* of a row is a step of Lifecycle, and the others leave it where it is.       *)

LEMMA LifeStutters ==
  ASSUME SameLife(rows, rows'), lastId' = lastId
  PROVE  UNCHANGED Life!lifeVars
BY DEF SameLife, StatesOf, HashesOf, Life!lifeVars

LEMMA LifeMoves ==
  ASSUME rows \in Table, NEW id \in Ids, NEW state,
         <<rows[id].state, state>> \in Life!Moves,
         StatesOf(rows') = [StatesOf(rows) EXCEPT ![id] = state],
         HashesOf(rows') = HashesOf(rows), lastId' = lastId
  PROVE  Life!Next
<1>1. Life!Move(id)
  BY DEF Life!Move, StatesOf, HashesOf
<1>. QED  BY <1>1 DEF Life!Next

(* The instance counts with the Cardinality of its own module. *)
LEMMA LifeCounts ==
  ASSUME NEW ids
  PROVE  Life!Cardinality(ids) = Cardinality(ids)
BY DEF Life!Cardinality, Cardinality

LEMMA LifeSubmits ==
  ASSUME rows \in Table, NEW id \in Ids, rows[id].state = "QUEUED",
         Cardinality(ActiveRows) < MaxSlots,
         StatesOf(rows') = [StatesOf(rows) EXCEPT ![id] = "TORBOX_ACTIVE"],
         HashesOf(rows') = HashesOf(rows), lastId' = lastId
  PROVE  Life!Next
<1> DEFINE states == [other \in Ids |-> rows[other].state]
           holding == {other \in Ids : states[other] = "TORBOX_ACTIVE"}
<1>1. holding = ActiveRows
  BY DEF ActiveRows, InState
<1>2. Life!Cardinality(holding) < MaxSlots
  BY <1>1, LifeCounts
<1>3. /\ states[id] = "QUEUED"
      /\ [other \in Ids |-> rows'[other].state] = [states EXCEPT ![id] = "TORBOX_ACTIVE"]
      /\ [other \in Ids |-> rows'[other].hash] = [other \in Ids |-> rows[other].hash]
  BY DEF StatesOf, HashesOf
<1>4. Life!Submit(id)
  BY <1>2, <1>3 DEF Life!Submit
<1>. QED  BY <1>4 DEF Life!Next

LEMMA RequestLives ==
  ASSUME SharedTypeOK, Sound(rows, lastId), NEW h \in Hashes, RequestLife(h)
  PROVE  [Life!Next]_(Life!lifeVars)
<1>1. CASE SameLife(rows, rows') /\ lastId' = lastId
  BY <1>1, LifeStutters
<1>2. ASSUME NEW id \in Ids, id = lastId + 1, lastId' = id, RowsOf(rows, h) = {},
             StatesOf(rows') = [StatesOf(rows) EXCEPT ![id] = "QUEUED"],
             HashesOf(rows') = [HashesOf(rows) EXCEPT ![id] = h]
      PROVE  Life!Next
  <2>1. id \notin 1 .. lastId /\ 1 .. lastId' = (1 .. lastId) \cup {id}
    BY <1>2 DEF SharedTypeOK
  <2>2. \A other \in Life!Rows : HashesOf(rows)[other] # h
    BY <1>2 DEF Life!Rows, RowsOf, Exists, HashesOf
  <2>3. Life!Track(id, h)
    BY <1>2, <2>1, <2>2 DEF Life!Track, StatesOf, HashesOf
  <2>. QED  BY <2>3 DEF Life!Next
<1>3. CASE OneRequeued(rows, rows') /\ lastId' = lastId
  <2>1. PICK id \in Ids : /\ rows[id].state = "ERROR"
                          /\ StatesOf(rows') = [StatesOf(rows) EXCEPT ![id] = "QUEUED"]
    BY <1>3 DEF OneRequeued
  <2>2. <<rows[id].state, "QUEUED">> \in Life!Moves
    BY <2>1 DEF Life!Moves
  <2>. QED  BY <1>3, <2>1, <2>2, LifeMoves DEF SharedTypeOK, Table, OneRequeued
<1>4. CASE OneDropped(rows, rows') /\ lastId' = lastId
  <2>1. PICK id \in Ids : /\ Exists(rows, id)
                          /\ StatesOf(rows') = [StatesOf(rows) EXCEPT ![id] = "NONE"]
                          /\ HashesOf(rows') = [HashesOf(rows) EXCEPT ![id] = NoHash]
    BY <1>4 DEF OneDropped
  <2>2. Life!Forget(id)
    BY <1>4, <2>1 DEF Life!Forget, Life!Rows, StatesOf, HashesOf, Exists
  <2>. QED  BY <2>2 DEF Life!Next
<1>. QED  BY <1>1, <1>2, <1>3, <1>4 DEF RequestLife

-----------------------------------------------------------------------------
(* What a submission relies on while requests, TorBox and the other loops move *)
(* between its statements: the rows it listed are QUEUED still, or deleted; the *)
(* row of the torrent on its way to TorBox has the release it had; the answer  *)
(* is about that release.                                                      *)
Submission ==
  /\ \A id \in todo : id <= lastId /\ rows[id].state \in {"NONE", "QUEUED"}
  /\ pc \in {"create", "reply"} =>
       /\ cur.id <= lastId /\ cur.id \notin todo
       /\ rows[cur.id].state \in {"NONE", "QUEUED"}
       /\ Exists(rows, cur.id) => rows[cur.id].hash = cur.hash
  /\ pc = "reply" /\ reply.kind \in {"created", "found"} =>
       StandsFor(account, reply.tb, cur.hash)
  /\ pc = "reply" /\ reply.kind \in {"rejected", "nameless"} =>
       cur.hash \in Refusable \cup Nameless

Linked == Sound(rows, lastId) /\ OwnRefs(rows, account) /\ Submission

(* The step of OnlyVerdictsFail. *)
Verdict == \A id \in Ids : rows[id].state = "QUEUED" /\ rows'[id].state = "ERROR"
                             => rows[id].hash \in Refusable \cup Nameless

Effect == Linked' /\ Verdict /\ [Life!Next]_(Life!lifeVars)

(* A step outside the pass that moves no QUEUED row. *)
LEMMA LinkedOutside ==
  ASSUME IInv, Linked, UNCHANGED passVars, rows' \in Table, lastId' \in Nat,
         Sound(rows', lastId'), lastId <= lastId',
         RefsKept(rows, rows'), EntriesKept(account, account'),
         GivenKept(rows, rows', lastId), StatesKept(rows, rows', {"QUEUED"})
  PROVE  Linked' /\ Verdict
<1>0. /\ rows \in Table /\ lastId \in Nat /\ todo \subseteq Ids
      /\ pc \in {"create", "reply"} => cur.id \in Ids
      /\ pc = "reply" /\ reply.kind \in {"created", "found"} => reply.tb \in TbIds
  BY DEF IInv, TypeOK, SharedTypeOK, Table, Named
<1>1. OwnRefs(rows', account')
  BY <1>0, OwnRefsKept DEF Linked
<1>2. ASSUME NEW id \in Ids, id <= lastId, rows[id].state \in {"NONE", "QUEUED"}
      PROVE  /\ id <= lastId' /\ rows'[id].state \in {"NONE", "QUEUED"}
             /\ Exists(rows', id) => Exists(rows, id) /\ rows'[id].hash = rows[id].hash
  <2>1. NoRow.state = "NONE"
    BY DEF NoRow
  <2>2. rows'[id] = NoRow \/ (Exists(rows, id) /\ rows'[id].hash = rows[id].hash)
    BY <1>2 DEF GivenKept
  <2>. QED  BY <1>0, <1>2, <2>1, <2>2 DEF StatesKept, Exists, Ids
<1>3. Submission'
  <2>1. \A id \in todo : id <= lastId' /\ rows'[id].state \in {"NONE", "QUEUED"}
    BY <1>0, <1>2 DEF Linked, Submission
  <2>2. ASSUME pc \in {"create", "reply"}
        PROVE  /\ cur.id <= lastId' /\ cur.id \notin todo
               /\ rows'[cur.id].state \in {"NONE", "QUEUED"}
               /\ Exists(rows', cur.id) => rows'[cur.id].hash = cur.hash
    BY <1>0, <1>2, <2>2 DEF Linked, Submission
  <2>3. ASSUME pc = "reply", reply.kind \in {"created", "found"}
        PROVE  StandsFor(account', reply.tb, cur.hash)
    BY <1>0, <2>3, StandsForKept DEF Linked, Submission
  <2>. QED  BY <2>1, <2>2, <2>3 DEF Linked, Submission, passVars
<1>4. Verdict
  BY DEF Verdict, StatesKept
<1>. QED  BY <1>1, <1>3, <1>4 DEF Linked

(* A step that leaves the table alone, and of the account takes entries only. *)
LEMMA LinkedInside ==
  ASSUME IInv, Linked, UNCHANGED <<rows, lastId>>, EntriesKept(account, account'),
         Submission'
  PROVE  Effect
<1>1. rows \in Table
  BY DEF IInv, TypeOK, SharedTypeOK, Table
<1>2. RefsKept(rows, rows') /\ SameLife(rows, rows')
  BY NothingChanges DEF Linked
<1>3. OwnRefs(rows', account')
  BY <1>1, <1>2, OwnRefsKept DEF Linked
<1>4. Verdict
  BY DEF Verdict
<1>. QED  BY <1>2, <1>3, <1>4, LifeStutters DEF Effect, Linked

-----------------------------------------------------------------------------
LEMMA IdleLinks ==
  ASSUME IInv, Linked, Idle, UNCHANGED <<rows, lastId, account>>
  PROVE  Effect
<1>1. Submission'
  BY DEF Submission, Idle
<1>. QED  BY <1>1, LinkedInside, AccountUnchanged

(* The end of a submission that leaves the table alone. *)
LEMMA DoneLinks ==
  ASSUME IInv, Linked, NEW left, Done(left),
         UNCHANGED <<rows, lastId>>, EntriesKept(account, account')
  PROVE  Effect
<1>1. Submission'
  BY DEF Linked, Submission, Done
<1>. QED  BY <1>1, LinkedInside

LEMMA ListingLinks ==
  ASSUME IInv, Linked, CountSlots \/ ListQueue \/ PassEnds
  PROVE  Effect
<1>1. UNCHANGED <<rows, lastId, account>>
  BY DEF CountSlots, ListQueue, PassEnds, sharedVars
<1>2. CASE Idle
  BY <1>1, <1>2, IdleLinks
<1>3. CASE CountSlots
  <2>1. Submission'
    BY <1>1, <1>3 DEF CountSlots, Linked, Submission
  <2>. QED  BY <1>1, <2>1, LinkedInside, AccountUnchanged
<1>4. CASE ListQueue /\ ~Idle
  <2>1. pc' = "next" /\ todo' = InState(rows, {"QUEUED"})
    BY <1>4 DEF ListQueue, ListByState
  <2>2. \A id \in todo' : id <= lastId /\ rows[id].state = "QUEUED"
    BY <2>1 DEF InState, Linked, Sound, Exists
  <2>3. Submission'
    BY <1>1, <2>1, <2>2 DEF Submission
  <2>. QED  BY <1>1, <2>3, LinkedInside, AccountUnchanged
<1>. QED  BY <1>2, <1>3, <1>4 DEF PassEnds

LEMMA NextTorrentLinks ==
  ASSUME IInv, Linked, NextTorrent
  PROVE  Effect
<1>1. PICK id \in Ids : Reaches(id)
  BY DEF NextTorrent
<1>2. UNCHANGED <<rows, lastId, account>> /\ todo' = todo \ {id} /\ id \in todo
  BY <1>1 DEF Reaches, sharedVars
<1>3. Submission'
  <2>1. CASE Exists(rows, id)
    <3>1. pc' = "create" /\ cur' = [id |-> id, hash |-> rows[id].hash]
      BY <1>1, <2>1 DEF Reaches
    <3>. QED  BY <1>2, <2>1, <3>1 DEF Linked, Submission
  <2>2. CASE ~Exists(rows, id)
    <3>1. UNCHANGED <<pc, cur>> /\ pc = "next"
      BY <1>1, <2>2 DEF Reaches, NextTorrent
    <3>. QED  BY <1>2, <3>1 DEF Linked, Submission
  <2>. QED  BY <2>1, <2>2
<1>. QED  BY <1>2, <1>3, LinkedInside, AccountUnchanged

(* An answer that is about the release on its way. *)
LEMMA AnswerLinks ==
  ASSUME IInv, Linked, pc \in {"create", "reply"}, NEW kind, NEW tb, Answered(kind, tb),
         UNCHANGED <<rows, lastId, account, todo, cur>>,
         kind \in {"created", "found"} => StandsFor(account, tb, cur.hash),
         kind \in {"rejected", "nameless"} => cur.hash \in Refusable \cup Nameless
  PROVE  Effect
<1>1. Submission'
  BY DEF Linked, Submission, Answered
<1>. QED  BY <1>1, LinkedInside, AccountUnchanged

LEMMA OtherAnswersLink ==
  ASSUME IInv, Linked, TorBoxNamesNothing \/ TorBoxHasIt \/ TorBoxRefuses \/ TorBoxUnavailable
  PROVE  Effect
<1>1. pc = "create" /\ UNCHANGED <<rows, lastId, account, todo, cur>>
  BY DEF TorBoxNamesNothing, TorBoxHasIt, TorBoxRefuses, TorBoxUnavailable, CallFrame, tableVars
<1>2. \E kind \in {"nameless", "duplicate", "rejected", "rateLimited", "transient", "network"} :
        /\ Answered(kind, Null)
        /\ kind \in {"rejected", "nameless"} => cur.hash \in Refusable \cup Nameless
  BY DEF TorBoxNamesNothing, TorBoxHasIt, TorBoxRefuses, TorBoxUnavailable
<1>. QED  BY <1>1, <1>2, AnswerLinks

(* A new entry has an id that nothing names. *)
LEMMA CreateLinks ==
  ASSUME IInv, Linked, TorBoxCreates
  PROVE  Effect
<1>1. PICK tb \in FreshIds(NamedIds \cup {reply.tb}), phase \in CreatedPhases(account) :
        /\ account' = Create(account, tb, cur.hash, phase)
        /\ \/ AnsweredOrLost(IF phase = "queued" THEN "queued" ELSE "created", tb)
           \/ cur.hash \in Nameless /\ Answered("nameless", Null)
  BY DEF TorBoxCreates
<1>2. tb \in TbIds /\ \A id \in Ids : rows[id].ref # tb
  BY <1>1 DEF FreshIds, NamedIds
<1>3. pc = "create" /\ UNCHANGED <<rows, lastId, todo, cur>>
  BY DEF TorBoxCreates, CallFrame, tableVars
<1>4. /\ rows \in Table /\ account \in [TbIds -> Entry]
  BY DEF IInv, TypeOK, SharedTypeOK, Table
<1>5. /\ account'[tb].hash = cur.hash
      /\ \A other \in TbIds \ {tb} : account'[other] = account[other]
  BY <1>1, <1>2, <1>4 DEF Create
<1>6. OwnRefs(rows', account')
  BY <1>2, <1>3, <1>4, <1>5 DEF Linked, OwnRefs, StandsFor, Table, Row
<1>7. Submission'
  BY <1>1, <1>3, <1>5 DEF Linked, Submission, AnsweredOrLost, Answered, StandsFor
<1>8. SameLife(rows, rows')
  BY <1>3 DEF SameLife
<1>. QED
  BY <1>3, <1>6, <1>7, <1>8, LifeStutters DEF Effect, Linked, Verdict

LEMMA AdoptsLinks ==
  ASSUME IInv, Linked, Adopts
  PROVE  Effect
<1>1. UNCHANGED <<rows, lastId, account>> /\ pc = "reply"
  BY DEF Adopts, sharedVars
<1>2. CASE /\ \E tb \in ListedOf(account, cur.hash) : Answered("found", tb)
           /\ UNCHANGED <<used, todo, free, cur, cooldown, crashes>>
  <2>1. PICK tb \in ListedOf(account, cur.hash) : Answered("found", tb)
    BY <1>2
  <2>2. StandsFor(account, tb, cur.hash)
    BY DEF ListedOf, EntriesOf, StandsFor
  <2>. QED  BY <1>1, <1>2, <2>1, <2>2, AnswerLinks
<1>3. CASE Done(FALSE)
  BY <1>1, <1>3, DoneLinks, AccountUnchanged
<1>. QED  BY <1>2, <1>3 DEF Adopts

LEMMA PausesLink ==
  ASSUME IInv, Linked, CancelsQueued \/ Pauses \/ Retries
  PROVE  Effect
<1>1. account \in [TbIds -> Entry]
  BY DEF IInv, TypeOK, SharedTypeOK
<1>2. UNCHANGED <<rows, lastId>> /\ Done(FALSE)
  BY DEF CancelsQueued, Pauses, Retries, tableVars, sharedVars
<1>3. EntriesKept(account, account')
  BY <1>1, RemoveEffect, AccountUnchanged DEF CancelsQueued, Pauses, Retries, sharedVars
<1>. QED  BY <1>2, <1>3, DoneLinks

-----------------------------------------------------------------------------
(* The statements of submit: they go to the row of the torrent it has listed,  *)
(* which is QUEUED, or to none.                                                *)

LEMMA TracksLinks ==
  ASSUME IInv, Linked, Tracks
  PROVE  Effect
<1>0. /\ rows \in Table /\ cur.id \in Ids /\ reply.tb \in TbIds /\ pc = "reply"
      /\ UNCHANGED <<lastId, account>>
      /\ StandsFor(account, reply.tb, cur.hash)
      /\ rows[cur.id].state \in {"NONE", "QUEUED"}
      /\ Exists(rows, cur.id) => rows[cur.id].hash = cur.hash
  BY DEF Tracks, IInv, TypeOK, SharedTypeOK, Table, Named, Linked, Submission
<1>1. CASE rows' = MarkActive(rows, cur.id, reply.tb) /\ Done(TRUE)
  <2>1. /\ RowsKept(rows, rows') /\ HashesOf(rows') = HashesOf(rows)
        /\ \A other \in Ids \ {cur.id} : rows'[other] = rows[other]
        /\ rows'[cur.id].hash = rows[cur.id].hash
        /\ IF Exists(rows, cur.id)
             THEN /\ StatesOf(rows') = [StatesOf(rows) EXCEPT ![cur.id] = "TORBOX_ACTIVE"]
                  /\ rows'[cur.id].ref = reply.tb
             ELSE rows' = rows
    BY <1>0, <1>1, MarkActiveEffect DEF Linked
  <2>2. Sound(rows', lastId')
    BY <1>0, <2>1, SoundKept DEF Linked
  <2>3. OwnRefs(rows', account')
    BY <1>0, <2>1 DEF Linked, OwnRefs, StandsFor
  <2>4. Submission'
    <3>1. /\ pc' = "next" /\ todo' = todo /\ todo \subseteq Ids
          /\ cur.id \notin todo /\ lastId' = lastId
      BY <1>0, <1>1 DEF IInv, TypeOK, Linked, Submission, Done
    <3>2. \A id \in todo : id <= lastId /\ rows'[id].state \in {"NONE", "QUEUED"}
      BY <2>1, <3>1 DEF Linked, Submission
    <3>. QED  BY <3>1, <3>2 DEF Submission
  <2>5. Verdict
    <3>1. rows'[cur.id].state # "ERROR"
      BY <1>0, <2>1 DEF StatesOf
    <3>. QED  BY <2>1, <3>1 DEF Verdict
  <2>6. [Life!Next]_(Life!lifeVars)
    <3>1. CASE Exists(rows, cur.id)
      <4>1. Cardinality(ActiveRows) < MaxSlots
        <5>1. Cardinality(ActiveRows) + free <= MaxSlots /\ free > 0 /\ free \in Nat
          BY <1>0 DEF IInv, Budget, TypeOK
        <5>2. Cardinality(ActiveRows) \in Nat
          BY RowsFinite, ActiveAreIds DEF ActiveRows, ActiveIn
        <5>. QED  BY <5>1, <5>2, SubmitterAssumption
      <4>. QED  BY <1>0, <2>1, <3>1, <4>1, LifeSubmits DEF Exists
    <3>2. CASE ~Exists(rows, cur.id)
      BY <1>0, <2>1, <3>2, LifeStutters DEF SameLife
    <3>. QED  BY <3>1, <3>2
  <2>. QED  BY <2>2, <2>3, <2>4, <2>5, <2>6 DEF Effect, Linked
<1>2. CASE rows' = rows /\ Done(FALSE)
  BY <1>0, <1>2, DoneLinks, AccountUnchanged
<1>. QED  BY <1>1, <1>2 DEF Tracks

LEMMA FailsLinks ==
  ASSUME IInv, Linked, Fails
  PROVE  Effect
<1>0. /\ rows \in Table /\ cur.id \in Ids /\ pc = "reply"
      /\ UNCHANGED <<lastId, account>> /\ Done(TRUE) /\ rows' = MarkError(rows, cur.id)
      /\ rows[cur.id].state \in {"NONE", "QUEUED"} /\ cur.hash \in Refusable \cup Nameless
      /\ Exists(rows, cur.id) => rows[cur.id].hash = cur.hash
  BY DEF Fails, IInv, TypeOK, SharedTypeOK, Table, Named, Linked, Submission
<1>1. /\ RowsKept(rows, rows') /\ RefsKept(rows, rows') /\ HashesOf(rows') = HashesOf(rows)
      /\ IF Exists(rows, cur.id)
           THEN StatesOf(rows') = [StatesOf(rows) EXCEPT ![cur.id] = "ERROR"]
           ELSE rows' = rows
      /\ rows' \in Table
  BY <1>0, MarkErrorEffect, MarkErrorType DEF Linked
<1>2. Sound(rows', lastId') /\ OwnRefs(rows', account')
  BY <1>0, <1>1, SoundKept, OwnRefsKept, AccountUnchanged DEF Linked
<1>3. \A other \in Ids \ {cur.id} : rows'[other].state = rows[other].state
  BY <1>1 DEF StatesOf
<1>4. Submission'
  <2>1. /\ pc' = "next" /\ todo' = todo /\ todo \subseteq Ids
        /\ cur.id \notin todo /\ lastId' = lastId
    BY <1>0 DEF IInv, TypeOK, Linked, Submission, Done
  <2>2. \A id \in todo : id <= lastId /\ rows'[id].state \in {"NONE", "QUEUED"}
    BY <1>3, <2>1 DEF Linked, Submission
  <2>. QED  BY <2>1, <2>2 DEF Submission
<1>5. Verdict
  BY <1>0, <1>3 DEF Verdict, Exists
<1>6. [Life!Next]_(Life!lifeVars)
  <2>1. CASE Exists(rows, cur.id)
    <3>1. <<rows[cur.id].state, "ERROR">> \in Life!Moves
      BY <1>0, <2>1 DEF Exists, Life!Moves
    <3>. QED  BY <1>0, <1>1, <2>1, <3>1, LifeMoves
  <2>2. CASE ~Exists(rows, cur.id)
    BY <1>0, <1>1, <2>2, LifeStutters DEF SameLife
  <2>. QED  BY <2>1, <2>2
<1>. QED  BY <1>2, <1>4, <1>5, <1>6 DEF Effect, Linked

-----------------------------------------------------------------------------
(* What moves between the statements of the pass. *)

LEMMA RequestLinks ==
  ASSUME IInv, Linked, RequestStep
  PROVE  Effect
<1>1. PICK h \in Hashes : Request(h)
  BY DEF RequestStep
<1>2. SharedTypeOK /\ DeletesNamed /\ Sound(rows, lastId) /\ UNCHANGED passVars
  BY DEF IInv, TypeOK, Named, Linked, RequestStep
<1>3. rows' \in Table /\ lastId' \in Nat
  BY <1>1, <1>2, RequestType DEF SharedTypeOK, Table
<1>4. /\ Sound(rows', lastId') /\ lastId <= lastId'
      /\ RefsKept(rows, rows') /\ EntriesKept(account, account')
      /\ GivenKept(rows, rows', lastId)
      /\ StatesKept(rows, rows', States \ {"ERROR"})
      /\ RequestLife(h)
  BY <1>1, <1>2, RequestEffect
<1>5. StatesKept(rows, rows', {"QUEUED"})
  BY <1>4 DEF StatesKept, States
<1>6. Linked' /\ Verdict
  BY <1>2, <1>3, <1>4, <1>5, LinkedOutside
<1>. QED  BY <1>2, <1>4, <1>6, RequestLives DEF Effect

LEMMA AccountLinks ==
  ASSUME IInv, Linked, AccountStep
  PROVE  Effect
<1>1. PICK tb \in TbIds : TorBoxStep(tb)
  BY DEF AccountStep
<1>2. account \in [TbIds -> Entry]
  BY DEF IInv, TypeOK, SharedTypeOK
<1>3. EntriesKept(account, account') /\ UNCHANGED <<rows, lastId>> /\ UNCHANGED passVars
  BY <1>1, <1>2, TorBoxStepEffect DEF AccountStep, tableVars
<1>4. Submission'
  <2>1. pc = "reply" /\ reply.kind \in {"created", "found"} => reply.tb \in TbIds
    BY DEF IInv, Named
  <2>. QED  BY <1>3, <2>1, StandsForKept DEF Linked, Submission, passVars
<1>. QED  BY <1>3, <1>4, LinkedInside

(* A loop that moves one row on, which was not QUEUED. *)
LEMMA OneMoveLinks ==
  ASSUME IInv, Linked, OthersFrame, NEW id \in Ids, NEW state,
         rows' \in Table, RowsKept(rows, rows'), RefsKept(rows, rows'),
         EntriesKept(account, account'),
         rows[id].state # "QUEUED", <<rows[id].state, state>> \in Life!Moves,
         StatesOf(rows') = [StatesOf(rows) EXCEPT ![id] = state],
         HashesOf(rows') = HashesOf(rows)
  PROVE  Effect
<1>1. /\ UNCHANGED passVars /\ lastId' = lastId /\ lastId \in Nat /\ rows \in Table
  BY DEF OthersFrame, IInv, TypeOK, SharedTypeOK, Table
<1>2. Sound(rows', lastId') /\ GivenKept(rows, rows', lastId)
  BY <1>1, SoundKept, GivenRowsKept DEF Linked
<1>3. StatesKept(rows, rows', {"QUEUED"})
  BY DEF StatesKept, StatesOf
<1>4. Linked' /\ Verdict
  BY <1>1, <1>2, <1>3, LinkedOutside
<1>. QED  BY <1>1, <1>4, LifeMoves DEF Effect

LEMMA OtherLoopsLink ==
  ASSUME IInv, Linked, OtherLoops
  PROVE  Effect
<1>1. PICK id \in Ids : Leaves(id) \/ Reaped(id)
  BY DEF OtherLoops
<1>2. rows \in Table /\ SharedTypeOK /\ Sound(rows, lastId) /\ account \in [TbIds -> Entry]
  BY DEF IInv, TypeOK, SharedTypeOK, Table, Linked
<1>3. CASE Fetched(id)
  <2>1. PICK tb \in TbIds :
          /\ tb = rows[id].ref \/ account[tb].hash = rows[id].hash
          /\ rows' = MarkLocalQueued(UpdateTorBoxID(rows, id, tb), id)
    BY <1>3 DEF Fetched, Listed
  <2> DEFINE mid == UpdateTorBoxID(rows, id, tb)
  <2>2. /\ rows[id].state = "TORBOX_ACTIVE" /\ UNCHANGED <<account, lastId>>
        /\ UNCHANGED passVars /\ lastId \in Nat /\ OthersFrame
    BY <1>2, <1>3 DEF Fetched, OthersFrame, SharedTypeOK
  <2>3. /\ mid \in Table /\ RowsKept(rows, mid) /\ SameLife(rows, mid)
        /\ \A other \in Ids \ {id} : mid[other] = rows[other]
        /\ mid[id].hash = rows[id].hash
        /\ mid[id] = rows[id] \/ mid[id].ref = tb
    BY <1>2, UpdateTorBoxIDEffect, UpdateTorBoxIDType
  <2>4. Sound(mid, lastId) /\ OwnRefs(mid, account)
    <3>1. StandsFor(account, mid[id].ref, mid[id].hash) \/ mid[id].ref = Null
      BY <2>1, <2>3 DEF Linked, OwnRefs, StandsFor, Null, TbIds
    <3>. QED  BY <1>2, <2>3, <3>1, SoundKept DEF Linked, OwnRefs
  <2>5. mid[id].state = "TORBOX_ACTIVE"
    BY <2>2, <2>3 DEF SameLife, StatesOf
  <2> HIDE DEF mid
  <2>6. /\ RowsKept(mid, rows') /\ RefsKept(mid, rows') /\ HashesOf(rows') = HashesOf(mid)
        /\ StatesOf(rows') = [StatesOf(mid) EXCEPT ![id] = "LOCAL_QUEUED"]
        /\ rows' \in Table
    BY <2>1, <2>3, <2>4, <2>5, MarkLocalQueuedEffect, MarkLocalQueuedType DEF mid
  <2>7. RowsKept(rows, rows') /\ Sound(rows', lastId) /\ GivenKept(rows, rows', lastId)
    BY <1>2, <2>3, <2>6, RowsKeptTwice, SoundKept, GivenRowsKept
  <2>8. OwnRefs(rows', account)
    BY <2>3, <2>4, <2>6, OwnRefsKept, AccountUnchanged
  <2>9. /\ StatesOf(rows') = [StatesOf(rows) EXCEPT ![id] = "LOCAL_QUEUED"]
        /\ HashesOf(rows') = HashesOf(rows)
    BY <2>3, <2>6 DEF SameLife
  <2>10. StatesKept(rows, rows', {"QUEUED"})
    BY <2>2, <2>9 DEF StatesKept, StatesOf
  <2>11. Submission' /\ Verdict
    <3>1. \A other \in Ids : rows[other].state \in {"NONE", "QUEUED"}
                               => rows'[other].state \in {"NONE", "QUEUED"}
      BY <2>2, <2>9 DEF StatesOf
    <3>2. \A other \in Ids : Exists(rows', other)
                               => Exists(rows, other) /\ rows'[other].hash = rows[other].hash
      BY <2>7 DEF RowsKept, Exists, NoRow
    <3>3. todo \subseteq Ids /\ (pc \in {"create", "reply"} => cur.id \in Ids)
      BY DEF IInv, TypeOK, Named
    <3>. QED
      BY <2>2, <2>10, <3>1, <3>2, <3>3
         DEF Linked, Submission, passVars, Verdict, StatesKept
  <2>12. <<rows[id].state, "LOCAL_QUEUED">> \in Life!Moves
    BY <2>2 DEF Life!Moves
  <2>13. Life!Next
    BY <1>2, <2>2, <2>9, <2>12, LifeMoves
  <2>. QED  BY <2>2, <2>7, <2>8, <2>11, <2>13 DEF Effect, Linked
<1>4. CASE GivesUp(id)
  <2>1. rows[id].state \in {"TORBOX_ACTIVE", "LOCAL_QUEUED"} /\ Exists(rows, id) /\ OthersFrame
    BY <1>4 DEF GivesUp, Exists
  <2>2. /\ MarkError(rows, id) \in Table
        /\ RowsKept(rows, MarkError(rows, id)) /\ RefsKept(rows, MarkError(rows, id))
        /\ HashesOf(MarkError(rows, id)) = HashesOf(rows)
        /\ StatesOf(MarkError(rows, id)) = [StatesOf(rows) EXCEPT ![id] = "ERROR"]
    BY <1>2, <2>1, MarkErrorEffect, MarkErrorType
  <2>3. /\ rows' \in Table /\ RowsKept(rows, rows') /\ RefsKept(rows, rows')
        /\ SameLife(MarkError(rows, id), rows') /\ EntriesKept(account, account')
    BY <1>2, <1>4, <2>2, DeletedFromTorBoxEffect DEF GivesUp
  <2>4. <<rows[id].state, "ERROR">> \in Life!Moves /\ rows[id].state # "QUEUED"
    BY <2>1 DEF Life!Moves
  <2>. QED  BY <2>1, <2>2, <2>3, <2>4, OneMoveLinks DEF SameLife
<1>5. CASE Downloaded(id)
  <2>1. rows[id].state = "LOCAL_QUEUED" /\ Exists(rows, id) /\ OthersFrame
    BY <1>5 DEF Downloaded, Exists
  <2>2. /\ MarkComplete(rows, id) \in Table
        /\ RowsKept(rows, MarkComplete(rows, id)) /\ RefsKept(rows, MarkComplete(rows, id))
        /\ HashesOf(MarkComplete(rows, id)) = HashesOf(rows)
        /\ StatesOf(MarkComplete(rows, id)) = [StatesOf(rows) EXCEPT ![id] = "COMPLETE"]
    BY <1>2, <2>1, MarkCompleteEffect, MarkCompleteType
  <2>3. /\ rows' \in Table /\ RowsKept(rows, rows') /\ RefsKept(rows, rows')
        /\ SameLife(MarkComplete(rows, id), rows') /\ EntriesKept(account, account')
    BY <1>2, <1>5, <2>2, DeletedFromTorBoxEffect DEF Downloaded
  <2>4. <<rows[id].state, "COMPLETE">> \in Life!Moves /\ rows[id].state # "QUEUED"
    BY <2>1 DEF Life!Moves
  <2>. QED  BY <2>1, <2>2, <2>3, <2>4, OneMoveLinks DEF SameLife
<1>6. CASE Reaped(id)
  <2>1. RowsKept(rows, rows) /\ RefsKept(rows, rows)
    BY <1>2, NothingChanges
  <2>2. /\ rows' \in Table /\ RowsKept(rows, rows') /\ RefsKept(rows, rows')
        /\ SameLife(rows, rows') /\ EntriesKept(account, account') /\ OthersFrame
    BY <1>2, <1>6, <2>1, DeletedFromTorBoxEffect DEF Reaped
  <2>3. Sound(rows', lastId') /\ GivenKept(rows, rows', lastId) /\ lastId' = lastId
        /\ lastId \in Nat /\ UNCHANGED passVars
    BY <1>2, <2>2, SoundKept, GivenRowsKept DEF OthersFrame, SharedTypeOK
  <2>4. StatesKept(rows, rows', {"QUEUED"})
    BY <2>2 DEF SameLife, StatesOf, StatesKept
  <2>5. Linked' /\ Verdict
    BY <2>2, <2>3, <2>4, LinkedOutside
  <2>. QED  BY <2>2, <2>3, <2>5, LifeStutters DEF Effect
<1>. QED  BY <1>1, <1>3, <1>4, <1>5, <1>6 DEF Leaves

LEMMA CrashLinks ==
  ASSUME IInv, Linked, Crash \/ CooldownElapses \/ UNCHANGED vars
  PROVE  Effect
<1>1. CASE Crash
  BY <1>1, IdleLinks DEF Crash, tableVars
<1>2. CASE CooldownElapses \/ UNCHANGED vars
  <2>1. UNCHANGED <<rows, lastId, account, pc, todo, cur, reply>>
    BY <1>2 DEF CooldownElapses, sharedVars, passVars, vars
  <2>2. Submission'
    BY <2>1 DEF Linked, Submission
  <2>. QED  BY <2>1, <2>2, LinkedInside, AccountUnchanged
<1>. QED  BY <1>1, <1>2

-----------------------------------------------------------------------------
LEMMA InitLinks ==
  ASSUME Init
  PROVE  Linked /\ Life!Init
<1>1. rows = EmptyTable /\ lastId = 0 /\ pc = "idle" /\ todo = {}
  BY DEF Init, SharedInit
<1>2. Sound(rows, lastId) /\ OwnRefs(rows, account) /\ Submission
  BY <1>1, EmptyTableSound DEF OwnRefs, EmptyTable, NoRow, Submission
<1>3. Life!Init
  BY <1>1 DEF Life!Init, EmptyTable, NoRow
<1>. QED  BY <1>2, <1>3 DEF Linked

LEMMA StepLinks ==
  ASSUME IInv, Linked, [Next]_vars
  PROVE  Effect
<1>1. CASE Submit
  BY <1>1, ListingLinks, NextTorrentLinks, CreateLinks, OtherAnswersLink, TracksLinks,
     AdoptsLinks, PausesLink, FailsLinks DEF Submit
<1>. QED
  BY <1>1, CrashLinks, RequestLinks, AccountLinks, OtherLoopsLink DEF Next

LEMMA LinkedHolds == Spec => [](IInv /\ Linked)
<1>1. Init => IInv /\ Linked
  BY InitEstablishes, InitLinks
<1>2. IInv /\ Linked /\ [Next]_vars => IInv' /\ Linked'
  BY StepKeeps, StepLinks DEF Effect
<1>. QED  BY <1>1, <1>2, PTL DEF Spec

(* The torrent a row names on TorBox is that row's release, also when the row  *)
(* was deleted, and its infohash added again, while createtorrent was on its   *)
(* way: for any number of rows, releases, ids and crashes (engine.go, submit). *)
THEOREM RefsAreOwn == Spec => []RefIsOwnRelease
<1>1. Linked => RefIsOwnRelease
  BY DEF Linked, OwnRefs, StandsFor, RefIsOwnRelease
<1>. QED  BY <1>1, LinkedHolds, PTL

(* No answer of TorBox but a refusal of the very release, or a success that    *)
(* names nothing, makes a queued row an ERROR, whatever the pass, the requests *)
(* and the other loops do meanwhile (engine.go, submit).                       *)
THEOREM VerdictsOnly == Spec => OnlyVerdictsFail
<1>1. IInv /\ Linked /\ [Next]_vars => Verdict
  BY StepLinks DEF Effect
<1>2. Verdict <=> (\A id \in Ids : rows[id].state = "QUEUED" /\ rows'[id].state = "ERROR"
                                    => rows[id].hash \in Refusable \cup Nameless)
  BY DEF Verdict
<1>. QED  BY <1>1, <1>2, LinkedHolds, PTL DEF Spec, OnlyVerdictsFail

(* The submission loop, with everything that moves beside it, implements the   *)
(* life of a torrent: it starts where Lifecycle does, and every step of it is  *)
(* a step of Lifecycle or changes nothing there.  In particular a slot is free *)
(* whenever a row becomes active, and the update after a create meets a row    *)
(* that is QUEUED still, or none.                                              *)
THEOREM SubmitterFollowsLifecycle == Spec => FollowsLifecycle
<1>1. Init => Life!Init
  BY InitLinks
<1>2. IInv /\ Linked /\ [Next]_vars => [Life!Next]_(Life!lifeVars)
  BY StepLinks DEF Effect
<1>. QED  BY <1>1, <1>2, LinkedHolds, PTL DEF Spec, FollowsLifecycle, Life!Spec
=============================================================================
