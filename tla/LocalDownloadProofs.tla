-------------------------- MODULE LocalDownloadProofs --------------------------
(* Type correctness of the download loop, its admission of one goroutine for a *)
(* torrent and of parallel_torrents in all, that a row becomes COMPLETE with   *)
(* everything in place only and stays so, for any number of releases, entries, *)
(* rows, goroutines, retries, deletes and crashes.                             *)
EXTENDS LocalDownload, StoreProofs

Job      == [row : Listing \cup {NoRead}, at : JobSteps,
             stop : BOOLEAN, link : BOOLEAN, left : SUBSET Entries]
Deleting == [at : DeleteSteps, id : Ids \cup {0}, ref : TbIds \cup {Null}, content : BOOLEAN]

(* A listed row is the row of its release still, or it is deleted. *)
Follows(t) == t.id <= lastId /\ (Exists(rows, t.id) => rows[t.id].hash = t.hash)

TableOK ==
  /\ rows \in Table /\ lastId \in 0 .. MaxRows /\ adds \in 0 .. MaxAdds
  /\ Sound(rows, lastId)
  /\ \A id \in Ids : rows[id].added <= adds

DiskOK == staged \in [Hashes -> SUBSET Entries] /\ placed \in [Hashes -> SUBSET Entries]

(* Between the look at activeDownloads and the registration there, the lock is *)
(* given up; nobody else registers meanwhile.                                  *)
PassOK ==
  /\ pass \in {"idle", "queued", "each", "disk"}
  /\ todo \subseteq Listing /\ \A t \in todo : Follows(t)
  /\ IF pass = "disk"
       THEN /\ gate \in Listing /\ Follows(gate)
            /\ gate.hash \notin registered /\ Cardinality(registered) < ParallelTorrents
       ELSE gate = NoRead

Runs(w) == /\ job[w].row \in Listing /\ job[w].at # "free" /\ Follows(job[w].row)
           /\ job[w].at \in {"clear", "move"} => job[w].left # {}

JobsOK == job \in [Workers -> Job] /\ \A w \in Workers : job[w] = NoJob \/ Runs(w)

RegistryOK ==
  /\ registered = {H(w) : w \in Busy}
  /\ \A w, v \in Busy : H(w) = H(v) => w = v
  /\ IsFiniteSet(Busy) /\ IsFiniteSet(registered)
  /\ Cardinality(Busy) = Cardinality(registered)
  /\ Cardinality(registered) <= ParallelTorrents

DeletesOK ==
  /\ deleting \in [Hashes -> Deleting]
  /\ \A h \in Hashes : deleting[h].at \notin {"none", "read"} => deleting[h].id \in Ids

OthersOK ==
  /\ gone \subseteq TbIds /\ waiting \subseteq Hashes /\ pathed \subseteq Ids /\ boot \subseteq Ids
  /\ attempts \in [Hashes -> 0 .. MaxLocalAttempts - 1] /\ crashes \in 0 .. MaxCrashes

(* What a goroutine has brought into place, while nobody deletes its torrent. *)
Whole(w) ==
  Exists(rows, Id(w)) /\ deleting[H(w)].at = "none" =>
    /\ job[w].at = "finalize" => Tops[H(w)] \subseteq staged[H(w)]
    /\ job[w].at \in {"clear", "move"} => Tops[H(w)] \subseteq job[w].left \cup placed[H(w)]
    /\ job[w].at = "complete" => Tops[H(w)] \subseteq placed[H(w)]

(* The inductive invariant, and what a step does. *)
IInv == /\ TableOK /\ DiskOK /\ PassOK /\ JobsOK /\ RegistryOK /\ DeletesOK /\ OthersOK
        /\ \A w \in Busy : Whole(w)

InPlaceStep ==
  \A id \in Ids :
    rows[id].state # "COMPLETE" /\ rows'[id].state = "COMPLETE"
      /\ deleting[rows[id].hash].at = "none"
      => Tops[rows[id].hash] \subseteq placed'[rows[id].hash]

Effect == IInv' /\ InPlaceStep

USE LocalDownloadAssumption

-----------------------------------------------------------------------------
(* The statements. *)

(* A statement keeps the rows; but for one, it completes none. *)
StampsKept(table, next) == \A id \in Ids : next[id].added \in {0, table[id].added}
NoneCompleted(table, next) ==
  \A id \in Ids : next[id].state = "COMPLETE" => table[id].state = "COMPLETE"

LEMMA ClearTorBoxRefsKeeps ==
  ASSUME NEW table \in Table, NEW last, Sound(table, last), NEW id \in Ids,
         NEW next, next = ClearTorBoxRefs(table, id)
  PROVE  /\ next \in Table /\ RowsKept(table, next) /\ StampsKept(table, next)
         /\ NoneCompleted(table, next)
<1>1. next \in Table /\ RowsKept(table, next)
  BY ClearTorBoxRefsType, ClearTorBoxRefsEffect
<1>2. StampsKept(table, next) /\ NoneCompleted(table, next)
  BY DEF ClearTorBoxRefs, StampsKept, NoneCompleted, Table, Row
<1>. QED  BY <1>1, <1>2

LEMMA MarkErrorKeeps ==
  ASSUME NEW table \in Table, NEW last, Sound(table, last), NEW id \in Ids,
         NEW next, next = MarkError(table, id)
  PROVE  /\ next \in Table /\ RowsKept(table, next) /\ StampsKept(table, next)
         /\ NoneCompleted(table, next)
<1>1. next \in Table /\ RowsKept(table, next)
  BY MarkErrorType, MarkErrorEffect
<1>2. StampsKept(table, next) /\ NoneCompleted(table, next)
  BY DEF MarkError, StampsKept, NoneCompleted, Table, Row
<1>. QED  BY <1>1, <1>2

LEMMA DeleteByHashesKeeps ==
  ASSUME NEW table \in Table, NEW last, Sound(table, last), NEW h \in Hashes,
         NEW next, next = DeleteByHashes(table, h)
  PROVE  /\ next \in Table /\ RowsKept(table, next) /\ StampsKept(table, next)
         /\ NoneCompleted(table, next) /\ RowsOf(next, h) = {}
<1>1. next \in Table /\ RowsKept(table, next)
  BY DeleteByHashesType, DeleteByHashesEffect
<1>2. \A id \in Ids : next[id] = IF table[id].hash = h THEN NoRow ELSE table[id]
  BY DEF DeleteByHashes
<1>3. StampsKept(table, next) /\ NoneCompleted(table, next) /\ RowsOf(next, h) = {}
  BY <1>2 DEF NoRow, RowsOf, Exists, StampsKept, NoneCompleted
<1>. QED  BY <1>1, <1>3

LEMMA MarkLocalDownloadingKeeps ==
  ASSUME NEW table \in Table, NEW last, Sound(table, last), NEW id \in Ids,
         NEW next, next = MarkLocalDownloading(table, id)
  PROVE  /\ next \in Table /\ RowsKept(table, next) /\ StampsKept(table, next)
         /\ NoneCompleted(table, next)
<1>1. CASE table[id].state = "LOCAL_QUEUED"
  <2>1. next = SetState(table, id, "LOCAL_DOWNLOAD") /\ Exists(table, id)
    BY <1>1 DEF MarkLocalDownloading, SetState, Exists
  <2>2. "LOCAL_DOWNLOAD" \in States
    BY DEF States
  <2>3. next \in Table /\ RowsKept(table, next)
    BY <2>1, <2>2, SetStateEffect
  <2>4. StampsKept(table, next) /\ NoneCompleted(table, next)
    BY <2>1 DEF SetState, StampsKept, NoneCompleted, Table, Row
  <2>. QED  BY <2>3, <2>4
<1>2. CASE table[id].state # "LOCAL_QUEUED"
  BY <1>2, NothingChanges DEF MarkLocalDownloading, StampsKept, NoneCompleted
<1>. QED  BY <1>1, <1>2

LEMMA MarkCompleteKeeps ==
  ASSUME NEW table \in Table, NEW last, Sound(table, last), NEW id \in Ids,
         NEW next, next = MarkComplete(table, id)
  PROVE  /\ next \in Table /\ RowsKept(table, next) /\ StampsKept(table, next)
         /\ \A other \in Ids \ {id} : next[other] = table[other]
         /\ ~Exists(table, id) => next = table
<1>1. next \in Table /\ RowsKept(table, next)
  BY MarkCompleteType, MarkCompleteEffect
<1>2. StampsKept(table, next) /\ \A other \in Ids \ {id} : next[other] = table[other]
  BY DEF MarkComplete, StampsKept, Table, Row
<1>. QED  BY <1>1, <1>2 DEF MarkComplete

LEMMA TableKept ==
  ASSUME TableOK, rows' \in Table, RowsKept(rows, rows'), StampsKept(rows, rows'),
         UNCHANGED tableVars
  PROVE  TableOK'
<1>1. Sound(rows', lastId)
  BY SoundKept DEF TableOK
<1>2. \A id \in Ids : rows'[id].added <= adds
  BY DEF TableOK, StampsKept, Table, Row
<1>. QED  BY <1>1, <1>2 DEF TableOK, tableVars

LEMMA TableSame ==
  ASSUME TableOK
  PROVE  /\ rows \in Table /\ RowsKept(rows, rows) /\ StampsKept(rows, rows)
         /\ NoneCompleted(rows, rows)
BY NothingChanges DEF TableOK, StampsKept, NoneCompleted

LEMMA FollowsKept ==
  ASSUME RowsKept(rows, rows'), lastId' = lastId, NEW t, t.id \in Ids, Follows(t)
  PROVE  /\ Follows(t)'
         /\ Exists(rows', t.id) => Exists(rows, t.id)
<1>1. NoRow.state = "NONE"
  BY DEF NoRow
<1>. QED  BY <1>1 DEF Follows, RowsKept, Exists

(* The rows a listing returns. *)
LEMMA ListedRows ==
  ASSUME TableOK, NEW ids \in SUBSET Ids, \A id \in ids : Exists(rows, id)
  PROVE  AsListed(ids) \subseteq Listing /\ \A t \in AsListed(ids) : Follows(t)
<1>1. ASSUME NEW id \in ids
      PROVE  LET t == [id |-> id, hash |-> rows[id].hash, state |-> rows[id].state,
                       ref |-> rows[id].ref, added |-> rows[id].added]
             IN  t \in Listing /\ Follows(t)
  <2>1. rows[id].hash \in Hashes /\ id <= lastId /\ rows[id].state \in States
    BY <1>1 DEF TableOK, Sound, Exists, Table, Row
  <2>2. rows[id].added \in 0 .. MaxAdds /\ rows[id].ref \in TbIds \cup {Null}
    BY <1>1 DEF TableOK, Table, Row
  <2>. QED  BY <2>1, <2>2 DEF Listing, Follows
<1>. QED  BY <1>1 DEF AsListed

-----------------------------------------------------------------------------
(* The goroutines of downloadOne. *)

LEMMA Working ==
  ASSUME IInv, NEW w \in Workers, job[w].at # "free"
  PROVE  /\ w \in Busy /\ job[w] \in Job /\ Runs(w) /\ Whole(w)
         /\ H(w) \in Hashes /\ Id(w) \in Ids /\ Follows(job[w].row)
<1>1. job[w] # NoJob
  BY DEF NoJob
<1>. QED  BY <1>1 DEF IInv, JobsOK, Runs, Busy, H, Id, Listing

(* What a goroutine has in place, another actor does not disturb. *)
LEMMA WholeKept ==
  ASSUME IInv, NEW w \in Workers, job[w].at # "free",
         job'[w].row = job[w].row, job'[w].at = job[w].at, job'[w].left = job[w].left,
         staged'[H(w)] = staged[H(w)], placed'[H(w)] = placed[H(w)],
         Exists(rows', Id(w)) => Exists(rows, Id(w)),
         deleting'[H(w)].at = "none" => deleting[H(w)].at = "none" \/ ~Exists(rows', Id(w))
  PROVE  Whole(w)'
<1>1. Whole(w)
  BY Working
<1>. QED  BY <1>1 DEF Whole, H, Id

(* A step of goroutine w that goes on. *)
LEMMA JobStep ==
  ASSUME IInv, NEW w \in Workers, job[w].at # "free",
         NEW next \in Job, job' = [job EXCEPT ![w] = next], next.row = job[w].row,
         next.at # "free", next.at \in {"clear", "move"} => next.left # {},
         rows' \in Table, RowsKept(rows, rows'), StampsKept(rows, rows'),
         UNCHANGED <<tableVars, passVars, deleting, registered>>,
         DiskOK', OthersOK', Whole(w)',
         \A h \in Hashes \ {H(w)} : staged'[h] = staged[h] /\ placed'[h] = placed[h]
  PROVE  IInv'
<1>0. /\ TableOK /\ PassOK /\ JobsOK /\ RegistryOK /\ DeletesOK /\ lastId' = lastId
      /\ w \in Busy /\ Runs(w) /\ H(w) \in Hashes /\ Id(w) \in Ids
  BY Working DEF IInv, tableVars
<1>1. TableOK'
  BY <1>0, TableKept
<1>2. PassOK'
  <2>1. \A t \in Listing : Follows(t) => Follows(t)'
    BY <1>0, FollowsKept DEF Listing
  <2>. QED  BY <1>0, <2>1 DEF PassOK, passVars
<1>3. job'[w] = next /\ \A v \in Workers \ {w} : job'[v] = job[v]
  BY <1>0 DEF JobsOK
<1>4. JobsOK'
  <2>1. job' \in [Workers -> Job]
    BY <1>0 DEF JobsOK
  <2>2. \A v \in Workers : job[v] # NoJob => Follows(job[v].row)'
    BY <1>0, FollowsKept DEF JobsOK, Runs, Listing
  <2>3. job[w] # NoJob
    BY <1>0 DEF Busy
  <2>. QED  BY <1>0, <1>3, <2>1, <2>2, <2>3 DEF JobsOK, Runs
<1>5. Busy' = Busy /\ \A v \in Workers : job'[v].row = job[v].row
  <2>1. next # NoJob
    BY DEF NoJob
  <2>. QED  BY <1>0, <1>3, <2>1 DEF Busy
<1>6. RegistryOK'
  <2>1. Busy \subseteq Workers
    BY DEF Busy
  <2>2. registered' = {job'[v].row.hash : v \in Busy}
    BY <1>0, <1>5, <2>1 DEF RegistryOK, H
  <2>3. \A v, u \in Busy : job'[v].row.hash = job'[u].row.hash => v = u
    BY <1>0, <1>5, <2>1 DEF RegistryOK, H
  <2>. QED  BY <1>0, <1>5, <2>2, <2>3 DEF RegistryOK, H
<1>7. DeletesOK'
  BY <1>0 DEF DeletesOK
<1>8. ASSUME NEW v \in Busy
      PROVE  Whole(v)'
  <2>1. CASE v = w
    BY <2>1
  <2>2. CASE v # w
    <3>1. v \in Workers /\ job[v].at # "free" /\ H(v) \in Hashes \ {H(w)} /\ Id(v) \in Ids
      BY <1>0, <2>2 DEF JobsOK, RegistryOK, Runs, Busy, H, Id, Listing
    <3>2. Exists(rows', Id(v)) => Exists(rows, Id(v))
      BY <1>0, <3>1, Working, FollowsKept DEF Id
    <3>. QED  BY <1>3, <2>2, <3>1, <3>2, WholeKept
  <2>. QED  BY <2>1, <2>2
<1>. QED  BY <1>1, <1>2, <1>4, <1>5, <1>6, <1>7, <1>8 DEF IInv

(* One that writes no content and moves on to a step that asks for none. *)
LEMMA PlainStep ==
  ASSUME IInv, NEW w \in Workers, job[w].at # "free",
         NEW step \in JobSteps \ {"free", "finalize", "clear", "move", "complete"},
         NEW link \in BOOLEAN,
         job' = [job EXCEPT ![w].at = step, ![w].link = link] \/ Goes(w, step),
         rows' \in Table, RowsKept(rows, rows'), StampsKept(rows, rows'),
         UNCHANGED <<diskVars, registered>>, JobFrame, OthersOK'
  PROVE  IInv'
<1>0. job[w] \in Job /\ job \in [Workers -> Job]
  BY Working DEF IInv, JobsOK
<1> DEFINE moved == [job[w] EXCEPT !.at = step]
           linked == [job[w] EXCEPT !.at = step, !.link = link]
<1>1. \E next \in {moved, linked} : job' = [job EXCEPT ![w] = next]
  BY <1>0 DEF Goes
<1>2. PICK next \in {moved, linked} : job' = [job EXCEPT ![w] = next]
  BY <1>1
<1>3. next \in Job /\ next.row = job[w].row /\ next.at = step /\ job'[w] = next
  BY <1>0, <1>2 DEF Job
<1>4. Whole(w)'
  BY <1>3 DEF Whole
<1>5. /\ UNCHANGED <<tableVars, passVars, deleting, registered>>
      /\ UNCHANGED <<staged, placed>> /\ DiskOK'
  BY DEF JobFrame, diskVars, IInv, DiskOK
<1>. QED  BY <1>2, <1>3, <1>4, <1>5, JobStep

LEMMA NothingCompleted ==
  ASSUME TableOK, NoneCompleted(rows, rows')
  PROVE  InPlaceStep
BY DEF NoneCompleted, InPlaceStep

LEMMA BeginsKeeps ==
  ASSUME IInv, NEW w \in Workers, Begins(w), UNCHANGED <<gone, pathed>>
  PROVE  Effect
<1>0. /\ job[w].at = "start" /\ Id(w) \in Ids /\ rows \in Table /\ Sound(rows, lastId) /\ TableOK
      /\ UNCHANGED <<diskVars, registered>> /\ JobFrame
  BY Working DEF Begins, IInv, TableOK
<1>1. /\ rows' \in Table /\ RowsKept(rows, rows') /\ StampsKept(rows, rows')
      /\ NoneCompleted(rows, rows')
  BY <1>0, TableSame, MarkLocalDownloadingKeeps DEF Begins
<1>2. OthersOK'
  BY DEF Begins, JobFrame, IInv, OthersOK, retryVars, passVars
<1>3. \E step \in {"fail", "fetch"}, link \in BOOLEAN :
        job' = [job EXCEPT ![w].at = step, ![w].link = link] \/ Goes(w, step)
  BY DEF Begins
<1>4. {"fail", "fetch"} \subseteq JobSteps \ {"free", "finalize", "clear", "move", "complete"}
  BY DEF JobSteps
<1>5. IInv'
  BY <1>0, <1>1, <1>2, <1>3, <1>4, PlainStep
<1>. QED  BY <1>0, <1>1, <1>5, NothingCompleted DEF Effect

(* The steps that write neither to the table nor to the disk, nor say what is  *)
(* in place.                                                                   *)
LEMMA QuietKeeps ==
  ASSUME IInv, NEW w \in Workers, FetchFails(w) \/ FinalizeFails(w) \/ Retries(w),
         UNCHANGED <<gone, pathed>>
  PROVE  Effect
<1>0. /\ job[w].at # "free" /\ rows' = rows /\ H(w) \in Hashes /\ TableOK
      /\ UNCHANGED <<diskVars, registered>> /\ JobFrame
  BY Working DEF FetchFails, FinalizeFails, Retries, DiskFailed, LocalFailed, Waits, IInv
<1>1. \E step \in {"exit", "failed", "fail"} : Goes(w, step)
  BY DEF FetchFails, FinalizeFails, Retries, DiskFailed, LocalFailed, Waits
<1>2. {"exit", "failed", "fail"} \subseteq JobSteps \ {"free", "finalize", "clear", "move", "complete"}
  BY DEF JobSteps
<1>3. OthersOK'
  <2>1. attempts \in [Hashes -> 0 .. MaxLocalAttempts - 1] /\ waiting \subseteq Hashes
    BY DEF IInv, OthersOK
  <2>2. attempts' \in [Hashes -> 0 .. MaxLocalAttempts - 1] /\ waiting' \subseteq Hashes
    <3>1. CASE FetchFails(w) \/ FinalizeFails(w)
      BY <2>1, <3>1 DEF FetchFails, FinalizeFails, retryVars
    <3>2. CASE DiskFailed(w)
      BY <1>0, <2>1, <3>2 DEF DiskFailed, Waits
    <3>3. CASE LocalFailed(w)
      <4>1. attempts[H(w)] \in Nat /\ 0 \in 0 .. MaxLocalAttempts - 1
        BY <1>0, <2>1
      <4>2. CASE attempts[H(w)] + 1 < MaxLocalAttempts
        <5>1. attempts[H(w)] + 1 \in 0 .. MaxLocalAttempts - 1
          BY <4>1, <4>2
        <5>. QED  BY <1>0, <2>1, <3>3, <4>2, <5>1 DEF LocalFailed, Waits
      <4>3. CASE ~(attempts[H(w)] + 1 < MaxLocalAttempts)
        BY <1>0, <2>1, <3>3, <4>1, <4>3 DEF LocalFailed
      <4>. QED  BY <4>2, <4>3
    <3>. QED  BY <3>1, <3>2, <3>3 DEF Retries
  <2>. QED  BY <1>0, <2>2 DEF IInv, OthersOK, JobFrame, passVars
<1>4. IInv'
  BY <1>0, <1>1, <1>2, <1>3, TableSame, PlainStep
<1>. QED  BY <1>0, <1>4, TableSame, NothingCompleted DEF Effect

(* What a request to delete makes of the torrents that are gone. *)
LEMMA Asked ==
  ASSUME gone \subseteq TbIds, NEW ref \in TbIds \cup {Null},
         AsksTorBox(ref) \/ TorBoxSaysGone(ref)
  PROVE  gone' \subseteq TbIds
BY DEF AsksTorBox, TorBoxSaysGone

LEMMA DropsRefKeeps ==
  ASSUME IInv, NEW w \in Workers, Tidies(w) \/ Fails(w), UNCHANGED pathed
  PROVE  Effect
<1>0. /\ job[w].at # "free" /\ job[w].row.ref \in TbIds \cup {Null}
      /\ TableOK /\ rows' = rows
      /\ UNCHANGED <<diskVars, registered, retryVars>> /\ JobFrame
      /\ AsksTorBox(job[w].row.ref) \/ TorBoxSaysGone(job[w].row.ref)
      /\ \E step \in {"exit", "tidyClear", "failMark", "failClear"} : Goes(w, step)
  BY Working DEF Tidies, Fails, DropsRef, IInv, Job, Listing, NoRead
<1>1. gone' \subseteq TbIds
  BY <1>0, Asked DEF IInv, OthersOK
<1>2. OthersOK'
  BY <1>0, <1>1 DEF JobFrame, IInv, OthersOK, retryVars, passVars
<1>3. {"exit", "tidyClear", "failMark", "failClear"}
        \subseteq JobSteps \ {"free", "finalize", "clear", "move", "complete"}
  BY DEF JobSteps
<1>4. IInv'
  BY <1>0, <1>2, <1>3, TableSame, PlainStep
<1>. QED  BY <1>0, <1>4, TableSame, NothingCompleted DEF Effect

LEMMA ClearsRefKeeps ==
  ASSUME IInv, NEW w \in Workers, ClearsRef(w), UNCHANGED <<gone, pathed>>
  PROVE  Effect
<1>0. /\ job[w].at # "free" /\ Id(w) \in Ids
      /\ rows \in Table /\ Sound(rows, lastId) /\ TableOK
      /\ UNCHANGED <<diskVars, registered, retryVars>> /\ JobFrame
      /\ \E step \in {"exit", "failMark"} : Goes(w, step)
  BY Working DEF ClearsRef, IInv, TableOK
<1>1. /\ rows' \in Table /\ RowsKept(rows, rows') /\ StampsKept(rows, rows')
      /\ NoneCompleted(rows, rows')
  BY <1>0, ClearTorBoxRefsKeeps DEF ClearsRef
<1>2. OthersOK'
  BY <1>0 DEF JobFrame, IInv, OthersOK, retryVars, passVars
<1>3. {"exit", "failMark"} \subseteq JobSteps \ {"free", "finalize", "clear", "move", "complete"}
  BY DEF JobSteps
<1>4. IInv'
  BY <1>0, <1>1, <1>2, <1>3, PlainStep
<1>. QED  BY <1>0, <1>1, <1>4, NothingCompleted DEF Effect

LEMMA FailMarksKeeps ==
  ASSUME IInv, NEW w \in Workers, FailMarks(w), UNCHANGED <<gone, pathed>>
  PROVE  Effect
<1>0. /\ job[w].at # "free" /\ Id(w) \in Ids
      /\ rows \in Table /\ Sound(rows, lastId) /\ TableOK
      /\ UNCHANGED <<diskVars, registered, retryVars>> /\ JobFrame
      /\ rows' = MarkError(rows, Id(w)) /\ Goes(w, "exit")
  BY Working DEF FailMarks, IInv, TableOK
<1>1. /\ rows' \in Table /\ RowsKept(rows, rows') /\ StampsKept(rows, rows')
      /\ NoneCompleted(rows, rows')
  BY <1>0, MarkErrorKeeps
<1>2. OthersOK'
  BY <1>0 DEF JobFrame, IInv, OthersOK, retryVars, passVars
<1>3. "exit" \in JobSteps \ {"free", "finalize", "clear", "move", "complete"}
  BY DEF JobSteps
<1>4. IInv'
  BY <1>0, <1>1, <1>2, <1>3, PlainStep
<1>. QED  BY <1>0, <1>1, <1>4, NothingCompleted DEF Effect

(* What they do to the content. *)
LEMMA FetchesKeeps ==
  ASSUME IInv, NEW w \in Workers, Fetches(w), UNCHANGED <<gone, pathed>>
  PROVE  Effect
<1>0. /\ job[w].at = "fetch" /\ H(w) \in Hashes /\ job[w] \in Job /\ TableOK /\ DiskOK
      /\ rows' = rows /\ job' = job /\ placed' = placed /\ job \in [Workers -> Job]
      /\ UNCHANGED <<registered, retryVars>> /\ JobFrame
  BY Working DEF Fetches, IInv, JobsOK
<1>1. PICK e \in Tops[H(w)] : staged' = [staged EXCEPT ![H(w)] = @ \cup {e}]
  BY DEF Fetches
<1>2. e \in Entries
  BY <1>0, <1>1 DEF Entries
<1>3. DiskOK' /\ \A h \in Hashes \ {H(w)} : staged'[h] = staged[h]
  BY <1>0, <1>1, <1>2 DEF DiskOK
<1>4. OthersOK'
  BY <1>0 DEF JobFrame, IInv, OthersOK, retryVars, passVars
<1>5. Whole(w)'
  BY <1>0 DEF Whole
<1>6. job' = [job EXCEPT ![w] = job[w]]
  BY <1>0
<1>7. UNCHANGED <<tableVars, passVars, deleting, registered>>
  BY <1>0 DEF JobFrame
<1>8. IInv'
  BY <1>0, <1>3, <1>4, <1>5, <1>6, <1>7, TableSame, JobStep
<1>. QED  BY <1>0, <1>8, TableSame, NothingCompleted DEF Effect

LEMMA FetchedKeeps ==
  ASSUME IInv, NEW w \in Workers, Fetched(w), UNCHANGED <<gone, pathed>>
  PROVE  Effect
<1> DEFINE next == [job[w] EXCEPT !.at = "finalize"]
<1>0. /\ job[w].at = "fetch" /\ job[w] \in Job /\ TableOK /\ DiskOK
      /\ rows' = rows /\ job \in [Workers -> Job] /\ Tops[H(w)] \subseteq staged[H(w)]
      /\ UNCHANGED <<diskVars, registered, retryVars>> /\ JobFrame
  BY Working DEF Fetched, IInv, JobsOK
<1>1. job' = [job EXCEPT ![w] = next] /\ next \in Job /\ job'[w] = next
  BY <1>0 DEF Fetched, Goes, Job, JobSteps
<1>2. OthersOK'
  BY <1>0 DEF JobFrame, IInv, OthersOK, retryVars, passVars
<1>3. Whole(w)'
  BY <1>0, <1>1 DEF Whole, H, Job, diskVars
<1>4. /\ UNCHANGED <<tableVars, passVars, deleting, registered>>
      /\ UNCHANGED <<staged, placed>> /\ DiskOK'
  BY <1>0 DEF JobFrame, diskVars, DiskOK
<1>5. next.row = job[w].row /\ next.at = "finalize"
  BY <1>0 DEF Job
<1>6. IInv'
  BY <1>0, <1>1, <1>2, <1>3, <1>4, <1>5, TableSame, JobStep
<1>. QED  BY <1>0, <1>6, TableSame, NothingCompleted DEF Effect

LEMMA FinalizeReadsKeeps ==
  ASSUME IInv, NEW w \in Workers, FinalizeReads(w), UNCHANGED <<gone, pathed>>
  PROVE  Effect
<1> DEFINE next == [job[w] EXCEPT !.at = "clear", !.left = staged[H(w)]]
<1>0. /\ job[w].at = "finalize" /\ job[w] \in Job /\ TableOK /\ DiskOK /\ H(w) \in Hashes
      /\ rows' = rows /\ job \in [Workers -> Job] /\ Whole(w)
      /\ UNCHANGED <<diskVars, registered, retryVars>> /\ JobFrame /\ staged[H(w)] # {}
  BY Working DEF FinalizeReads, IInv, JobsOK
<1>1. "clear" \in JobSteps /\ staged[H(w)] \subseteq Entries
  BY <1>0 DEF JobSteps, DiskOK
<1>2. job' = [job EXCEPT ![w] = next] /\ next \in Job /\ job'[w] = next
  BY <1>0, <1>1 DEF FinalizeReads, Job
<1>3. OthersOK'
  BY <1>0 DEF JobFrame, IInv, OthersOK, retryVars, passVars
<1>4. next.row = job[w].row /\ next.at = "clear" /\ next.left = staged[H(w)]
  BY <1>0 DEF Job
<1>5. /\ UNCHANGED <<tableVars, passVars, deleting, registered>>
      /\ UNCHANGED <<staged, placed>> /\ DiskOK'
  BY <1>0 DEF JobFrame, diskVars, DiskOK
<1>6. Whole(w)'
  BY <1>0, <1>2, <1>4, <1>5 DEF Whole, H, Id
<1>7. next.at # "free" /\ (next.at \in {"clear", "move"} => next.left # {})
  BY <1>0, <1>4
<1> HIDE DEF next
<1>8. IInv'
  BY <1>0, <1>2, <1>3, <1>4, <1>5, <1>6, <1>7, TableSame, JobStep
<1>. QED  BY <1>0, <1>8, TableSame, NothingCompleted DEF Effect

LEMMA FinalizeClearsKeeps ==
  ASSUME IInv, NEW w \in Workers, FinalizeClears(w), UNCHANGED <<gone, pathed>>
  PROVE  Effect
<1> DEFINE next == [job[w] EXCEPT !.at = "move"]
           e == First(job[w].left)
<1>0. /\ job[w].at = "clear" /\ job[w] \in Job /\ TableOK /\ DiskOK /\ H(w) \in Hashes
      /\ rows' = rows /\ job \in [Workers -> Job] /\ Whole(w) /\ job[w].left # {}
      /\ UNCHANGED <<staged, registered, retryVars>> /\ JobFrame
      /\ placed' = [placed EXCEPT ![H(w)] = @ \ {e}]
  BY Working DEF FinalizeClears, IInv, JobsOK, Runs
<1>1. e \in job[w].left
  BY <1>0 DEF First
<1>2. job' = [job EXCEPT ![w] = next] /\ next \in Job /\ job'[w] = next
  BY <1>0 DEF FinalizeClears, Goes, Job, JobSteps
<1>3. OthersOK'
  BY <1>0 DEF JobFrame, IInv, OthersOK, retryVars, passVars
<1>4. next.row = job[w].row /\ next.at = "move" /\ next.left = job[w].left
  BY <1>0 DEF Job
<1>5. /\ UNCHANGED <<tableVars, passVars, deleting, registered>> /\ DiskOK'
      /\ placed'[H(w)] = placed[H(w)] \ {e}
      /\ \A h \in Hashes \ {H(w)} : staged'[h] = staged[h] /\ placed'[h] = placed[h]
  BY <1>0 DEF JobFrame, DiskOK
<1>6. Whole(w)'
  BY <1>0, <1>1, <1>2, <1>4, <1>5 DEF Whole, H, Id
<1>7. IInv'
  BY <1>0, <1>2, <1>3, <1>4, <1>5, <1>6, TableSame, JobStep
<1>. QED  BY <1>0, <1>7, TableSame, NothingCompleted DEF Effect

LEMMA FinalizeMovesKeeps ==
  ASSUME IInv, NEW w \in Workers, FinalizeMoves(w), UNCHANGED <<gone, pathed>>
  PROVE  Effect
<1> DEFINE e == First(job[w].left)
<1>0. /\ job[w].at = "move" /\ job[w] \in Job /\ TableOK /\ DiskOK /\ H(w) \in Hashes
      /\ rows' = rows /\ job \in [Workers -> Job] /\ Whole(w) /\ job[w].left # {}
      /\ UNCHANGED <<registered, retryVars>> /\ JobFrame
  BY Working DEF FinalizeMoves, IInv, JobsOK, Runs
<1>1. e \in job[w].left /\ e \in Entries
  BY <1>0 DEF First, Job
<1>2. OthersOK'
  BY <1>0 DEF JobFrame, IInv, OthersOK, retryVars, passVars
<1>3. UNCHANGED <<tableVars, passVars, deleting, registered>>
  BY <1>0 DEF JobFrame
<1> DEFINE step == IF job[w].left = {e} THEN "complete" ELSE "clear"
           next == [job[w] EXCEPT !.at = step, !.left = @ \ {e}]
<1>4. /\ staged' = [staged EXCEPT ![H(w)] = @ \ {e}]
      /\ placed' = [placed EXCEPT ![H(w)] = @ \cup {e}]
      /\ job' = [job EXCEPT ![w].at = step, ![w].left = @ \ {e}]
  BY DEF FinalizeMoves
<1>5. step \in JobSteps
  BY DEF JobSteps
<1>6. job' = [job EXCEPT ![w] = next] /\ next \in Job /\ job'[w] = next
  BY <1>0, <1>4, <1>5 DEF Job
<1>7. next.row = job[w].row /\ next.at = step /\ next.left = job[w].left \ {e}
  BY <1>0 DEF Job
<1>8. /\ DiskOK' /\ placed'[H(w)] = placed[H(w)] \cup {e}
      /\ \A h \in Hashes \ {H(w)} : staged'[h] = staged[h] /\ placed'[h] = placed[h]
  BY <1>0, <1>1, <1>4 DEF DiskOK
<1>9. next.at # "free" /\ (next.at \in {"clear", "move"} => next.left # {})
  BY <1>1, <1>7
<1>10. Whole(w)'
  BY <1>0, <1>1, <1>3, <1>6, <1>7, <1>8 DEF Whole, H, Id
<1> HIDE DEF next, step
<1>11. IInv'
  BY <1>0, <1>2, <1>3, <1>6, <1>7, <1>8, <1>9, <1>10, TableSame, JobStep
<1>. QED  BY <1>0, <1>11, TableSame, NothingCompleted DEF Effect

(* A row is marked COMPLETE by the goroutine that brought its content there.   *)
LEMMA CompletesKeeps ==
  ASSUME IInv, NEW w \in Workers, Completes(w), UNCHANGED gone
  PROVE  Effect
<1>0. /\ job[w].at = "complete" /\ job[w] \in Job /\ TableOK /\ DiskOK /\ OthersOK
      /\ H(w) \in Hashes /\ Id(w) \in Ids /\ Whole(w) /\ Follows(job[w].row)
      /\ rows \in Table /\ Sound(rows, lastId)
      /\ UNCHANGED <<diskVars, registered>> /\ JobFrame
      /\ rows' = MarkComplete(rows, Id(w)) /\ Goes(w, "tidy")
  BY Working DEF Completes, IInv, TableOK
<1>1. /\ rows' \in Table /\ RowsKept(rows, rows') /\ StampsKept(rows, rows')
      /\ \A other \in Ids \ {Id(w)} : rows'[other] = rows[other]
      /\ ~Exists(rows, Id(w)) => rows' = rows
  BY <1>0, MarkCompleteKeeps
<1>2. OthersOK'
  <2>1. pathed' \subseteq Ids /\ waiting' \subseteq Hashes
    BY <1>0 DEF Completes, OthersOK
  <2>2. attempts' \in [Hashes -> 0 .. MaxLocalAttempts - 1]
    BY <1>0 DEF Completes, OthersOK
  <2>. QED  BY <1>0, <2>1, <2>2 DEF OthersOK, JobFrame, passVars
<1>3. "tidy" \in JobSteps \ {"free", "finalize", "clear", "move", "complete"}
  BY DEF JobSteps
<1>4. IInv'
  BY <1>0, <1>1, <1>2, <1>3, PlainStep
<1>5. InPlaceStep
  <2> SUFFICES ASSUME NEW id \in Ids, rows[id].state # "COMPLETE", rows'[id].state = "COMPLETE",
                      deleting[rows[id].hash].at = "none"
               PROVE  Tops[rows[id].hash] \subseteq placed'[rows[id].hash]
    BY DEF InPlaceStep
  <2>1. id = Id(w) /\ Exists(rows, Id(w))
    BY <1>1
  <2>2. rows[id].hash = H(w)
    BY <1>0, <2>1 DEF Follows, H, Id
  <2>. QED  BY <1>0, <2>1, <2>2 DEF Whole, diskVars
<1>. QED  BY <1>4, <1>5 DEF Effect

(* The goroutine's last step frees its slot. *)
LEMMA EndsKeeps ==
  ASSUME IInv, NEW w \in Workers, Ends(w), UNCHANGED <<gone, pathed>>
  PROVE  Effect
<1>0. /\ TableOK /\ DiskOK /\ PassOK /\ JobsOK /\ RegistryOK /\ DeletesOK /\ OthersOK
      /\ w \in Busy /\ H(w) \in Hashes /\ Busy \subseteq Workers
      /\ rows' = rows /\ job' = [job EXCEPT ![w] = NoJob] /\ registered' = registered \ {H(w)}
      /\ UNCHANGED <<diskVars, retryVars>> /\ JobFrame
  BY Working DEF Ends, IInv, Busy
<1>1. job'[w] = NoJob /\ \A v \in Workers \ {w} : job'[v] = job[v]
  BY <1>0 DEF JobsOK
<1>2. Busy' = Busy \ {w}
  BY <1>0, <1>1 DEF Busy
<1>3. TableOK'
  BY <1>0, TableSame, TableKept DEF JobFrame
<1>4. JobsOK'
  <2>1. NoJob \in Job
    BY DEF NoJob, Job, JobSteps
  <2>2. job' \in [Workers -> Job]
    BY <1>0, <2>1 DEF JobsOK
  <2>3. \A v \in Workers \ {w} : Runs(v) => Runs(v)'
    BY <1>0, <1>1 DEF Runs, Follows, JobFrame, tableVars
  <2>. QED  BY <1>0, <1>1, <2>2, <2>3 DEF JobsOK
<1>5. /\ IsFiniteSet(registered') /\ Cardinality(registered') = Cardinality(registered) - 1
      /\ IsFiniteSet(Busy') /\ Cardinality(Busy') = Cardinality(Busy) - 1
      /\ Cardinality(registered) \in Nat
  <2>1. H(w) \in registered
    BY <1>0 DEF RegistryOK
  <2>. QED  BY <1>0, <1>2, <2>1, FS_RemoveElement, FS_CardinalityType DEF RegistryOK
<1>6. RegistryOK'
  <2>1. \A v \in Busy \ {w} : job'[v].row = job[v].row
    BY <1>0, <1>1
  <2>2. registered' = {job'[v].row.hash : v \in Busy \ {w}}
    BY <1>0, <2>1 DEF RegistryOK, H
  <2>3. \A v, u \in Busy \ {w} : job'[v].row.hash = job'[u].row.hash => v = u
    BY <1>0, <2>1 DEF RegistryOK, H
  <2>. QED  BY <1>0, <1>2, <1>5, <2>2, <2>3 DEF RegistryOK, H
<1>7. PassOK'
  BY <1>0, <1>5 DEF PassOK, JobFrame, passVars, tableVars, Follows, RegistryOK
<1>8. DiskOK' /\ DeletesOK' /\ OthersOK'
  BY <1>0 DEF DiskOK, DeletesOK, OthersOK, JobFrame, diskVars, retryVars, passVars
<1>9. \A v \in Busy' : Whole(v)'
  BY <1>0, <1>1, <1>2 DEF IInv, Whole, H, Id, diskVars, JobFrame
<1>10. IInv'
  BY <1>3, <1>4, <1>6, <1>7, <1>8, <1>9 DEF IInv
<1>. QED  BY <1>0, <1>10, TableSame, NothingCompleted DEF Effect

LEMMA DownloadKeeps ==
  ASSUME IInv, NEW w \in Workers, Download(w)
  PROVE  Effect
BY BeginsKeeps, FetchesKeeps, FetchedKeeps, QuietKeeps, FinalizeReadsKeeps, FinalizeClearsKeeps,
   FinalizeMovesKeeps, CompletesKeeps, DropsRefKeeps, ClearsRefKeeps, FailMarksKeeps, EndsKeeps
   DEF Download, Finalizes

-----------------------------------------------------------------------------
(* The pass, an elapsed backoff and the recovery. *)

(* A step that leaves the table, the disk, the goroutines and the deletes.     *)
LEMMA AsideKeeps ==
  ASSUME IInv, PassOK', OthersOK',
         UNCHANGED <<rows, tableVars, diskVars, job, registered, deleting>>
  PROVE  Effect
<1>0. /\ TableOK /\ DiskOK /\ JobsOK /\ RegistryOK /\ DeletesOK /\ \A w \in Busy : Whole(w)
      /\ UNCHANGED <<lastId, adds, staged, placed>>
  BY DEF IInv, tableVars, diskVars
<1>1. TableOK' /\ DiskOK' /\ DeletesOK'
  BY <1>0 DEF TableOK, DiskOK, DeletesOK
<1>2. JobsOK' /\ RegistryOK'
  BY <1>0 DEF JobsOK, Runs, Follows, RegistryOK, Busy, H
<1>3. \A w \in Busy' : Whole(w)'
  BY <1>0 DEF Whole, Busy, H, Id
<1>4. IInv'
  BY <1>1, <1>2, <1>3 DEF IInv
<1>. QED  BY <1>0, <1>4, TableSame, NothingCompleted DEF Effect

LEMMA BackoffElapsesKeeps ==
  ASSUME IInv, NEW h \in Hashes, BackoffElapses(h)
  PROVE  Effect
<1>1. OthersOK'
  BY DEF BackoffElapses, IInv, OthersOK, passVars
<1>2. PassOK'
  BY DEF BackoffElapses, IInv, PassOK, passVars, tableVars, Follows
<1>. QED  BY <1>1, <1>2, AsideKeeps DEF BackoffElapses

LEMMA ListsKeeps ==
  ASSUME IInv, ListsResuming \/ ListsQueued
  PROVE  Effect
<1>0. TableOK /\ PassOK /\ OthersOK /\ gate = NoRead /\ UNCHANGED <<rows, gate, job, registered>>
      /\ PassFrame /\ \E state \in {"LOCAL_DOWNLOAD", "LOCAL_QUEUED"} :
           /\ todo' \subseteq todo \cup AsListed(ListByState(rows, state))
  BY DEF IInv, ListsResuming, ListsQueued, PassOK
<1>1. PICK state \in {"LOCAL_DOWNLOAD", "LOCAL_QUEUED"} :
        todo' \subseteq todo \cup AsListed(ListByState(rows, state))
  BY <1>0
<1>2. ListByState(rows, state) \subseteq Ids /\ \A id \in ListByState(rows, state) : Exists(rows, id)
  BY <1>1 DEF ListByState, InState, Exists
<1>3. /\ AsListed(ListByState(rows, state)) \subseteq Listing
      /\ \A t \in AsListed(ListByState(rows, state)) : Follows(t)
  BY <1>0, <1>2, ListedRows
<1>4. pass' \in {"queued", "idle", "each"}
  BY DEF ListsResuming, ListsQueued, Onward
<1>5. todo' \subseteq Listing /\ \A t \in todo' : Follows(t)'
  BY <1>0, <1>1, <1>3 DEF PassOK, Follows, PassFrame, tableVars
<1>6. PassOK'
  BY <1>0, <1>4, <1>5 DEF PassOK
<1>7. OthersOK'
  BY <1>0 DEF OthersOK, PassFrame, retryVars
<1>. QED  BY <1>0, <1>6, <1>7, AsideKeeps DEF PassFrame

LEMMA PassesOverKeeps ==
  ASSUME IInv, WaitsForDisk \/ \E t \in todo : PassesOver(t)
  PROVE  Effect
<1>0. /\ PassOK /\ OthersOK /\ UNCHANGED <<rows, job, registered>> /\ PassFrame
      /\ todo' \subseteq todo /\ pass' \in {"idle", "each"} /\ gate' = NoRead
  BY DEF IInv, PassesOver, Reaches, WaitsForDisk, PassesGate, PassOK, Onward
<1>1. PassOK'
  BY <1>0 DEF PassOK, Follows, PassFrame, tableVars
<1>2. OthersOK'
  BY <1>0 DEF OthersOK, PassFrame, retryVars
<1>. QED  BY <1>0, <1>1, <1>2, AsideKeeps DEF PassFrame

LEMMA ConsidersKeeps ==
  ASSUME IInv, NEW t \in todo, Considers(t)
  PROVE  Effect
<1>0. /\ PassOK /\ OthersOK /\ UNCHANGED <<rows, job, registered>> /\ PassFrame
      /\ todo' \subseteq todo /\ pass' = "disk" /\ gate' = t /\ Admissible(t)
  BY DEF IInv, Considers, Reaches
<1>1. PassOK'
  BY <1>0 DEF PassOK, Follows, PassFrame, tableVars, Admissible
<1>2. OthersOK'
  BY <1>0 DEF OthersOK, PassFrame, retryVars
<1>. QED  BY <1>0, <1>1, <1>2, AsideKeeps DEF PassFrame

(* The registration: what the look at activeDownloads found is so still.       *)
LEMMA StartsKeeps ==
  ASSUME IInv, NEW h \in Hashes, Starts(h)
  PROVE  Effect
<1> DEFINE next == [row |-> gate, at |-> "start", stop |-> FALSE, link |-> FALSE, left |-> {}]
<1>0. /\ TableOK /\ DiskOK /\ PassOK /\ JobsOK /\ RegistryOK /\ DeletesOK /\ OthersOK
      /\ rows' = rows /\ PassFrame /\ todo' = todo /\ gate' = NoRead /\ gate.hash = h
      /\ pass' \in {"idle", "each"} /\ registered' = registered \cup {h}
      /\ gate \in Listing /\ Follows(gate) /\ h \notin registered
      /\ Cardinality(registered) < ParallelTorrents
  BY DEF IInv, Starts, PassesGate, PassOK, Onward
<1>1. PICK w \in Workers : job[w] = NoJob /\ job' = [job EXCEPT ![w] = next]
  BY DEF Starts
<1>2. next \in Job /\ next # NoJob
  BY <1>0 DEF Job, JobSteps, NoJob
<1>3. job' \in [Workers -> Job] /\ job'[w] = next /\ \A v \in Workers \ {w} : job'[v] = job[v]
  BY <1>0, <1>1, <1>2 DEF JobsOK
<1>4. Busy' = Busy \cup {w} /\ w \notin Busy /\ Busy \subseteq Workers
  BY <1>1, <1>2, <1>3 DEF Busy
<1>5. JobsOK'
  <2>1. Runs(w)'
    BY <1>0, <1>3 DEF Runs, Follows, PassFrame, tableVars
  <2>2. \A v \in Workers \ {w} : Runs(v) => Runs(v)'
    BY <1>0, <1>3 DEF Runs, Follows, PassFrame, tableVars
  <2>. QED  BY <1>0, <1>3, <2>1, <2>2 DEF JobsOK
<1>6. /\ IsFiniteSet(registered') /\ Cardinality(registered') = Cardinality(registered) + 1
      /\ IsFiniteSet(Busy') /\ Cardinality(Busy') = Cardinality(Busy) + 1
      /\ Cardinality(registered) \in Nat
  BY <1>0, <1>4, FS_AddElement, FS_CardinalityType DEF RegistryOK
<1>7. RegistryOK'
  <2>1. \A v \in Busy : job'[v].row = job[v].row
    BY <1>3, <1>4
  <2>2. job'[w].row.hash = h
    BY <1>0, <1>3
  <2>3. registered = {job[v].row.hash : v \in Busy}
    BY <1>0 DEF RegistryOK, H
  <2>4. registered' = {job'[v].row.hash : v \in Busy \cup {w}}
    BY <1>0, <2>1, <2>2, <2>3
  <2>5. \A v, u \in Busy : job'[v].row.hash = job'[u].row.hash => v = u
    BY <1>0, <2>1 DEF RegistryOK, H
  <2>6. \A v \in Busy : job'[v].row.hash # h
    BY <1>0, <2>1, <2>3
  <2>7. \A v, u \in Busy \cup {w} : job'[v].row.hash = job'[u].row.hash => v = u
    BY <2>2, <2>5, <2>6
  <2>8. Cardinality(Busy') = Cardinality(registered') /\ Cardinality(registered') <= ParallelTorrents
    BY <1>0, <1>6 DEF RegistryOK
  <2>. QED  BY <1>4, <1>6, <2>4, <2>7, <2>8 DEF RegistryOK, H
<1>8. PassOK'
  BY <1>0 DEF PassOK, Follows, PassFrame, tableVars
<1>9. TableOK' /\ DiskOK' /\ DeletesOK' /\ OthersOK'
  BY <1>0 DEF TableOK, DiskOK, DeletesOK, OthersOK, PassFrame, tableVars, diskVars, retryVars
<1>10. \A v \in Busy' : Whole(v)'
  <2>1. Whole(w)'
    BY <1>3 DEF Whole
  <2>2. \A v \in Busy : Whole(v)'
    BY <1>0, <1>3, <1>4 DEF IInv, Whole, H, Id, PassFrame, diskVars
  <2>. QED  BY <1>4, <2>1, <2>2
<1>11. IInv'
  BY <1>5, <1>7, <1>8, <1>9, <1>10 DEF IInv
<1>. QED  BY <1>0, <1>11, TableSame, NothingCompleted DEF Effect

LEMMA DownloadPassKeeps ==
  ASSUME IInv, DownloadPass
  PROVE  Effect
<1>1. CASE ListsResuming \/ ListsQueued
  BY <1>1, ListsKeeps
<1>2. CASE WaitsForDisk \/ \E t \in todo : PassesOver(t)
  BY <1>2, PassesOverKeeps
<1>3. CASE \E t \in todo : Considers(t)
  BY <1>3, ConsidersKeeps
<1>4. CASE \E h \in Hashes : Starts(h)
  BY <1>4, StartsKeeps
<1>. QED  BY <1>1, <1>2, <1>3, <1>4 DEF DownloadPass

(* A step beside the pass and the goroutines, which writes to the table, the   *)
(* disk or the deletes, and tells a goroutine to stop at most.                 *)
LEMMA BesideKeeps ==
  ASSUME IInv, TableOK', DiskOK', DeletesOK', OthersOK',
         \A t \in Listing : Follows(t) => Follows(t)',
         job' \in [Workers -> Job],
         \A w \in Workers : /\ job'[w].row = job[w].row /\ job'[w].at = job[w].at
                            /\ job'[w].left = job[w].left
                            /\ job[w] = NoJob <=> job'[w] = NoJob,
         UNCHANGED <<pass, todo, gate, registered>>,
         \A w \in Busy : Whole(w)'
  PROVE  IInv'
<1>0. PassOK /\ JobsOK /\ RegistryOK /\ Busy \subseteq Workers
  BY DEF IInv, Busy
<1>1. PassOK'
  BY <1>0 DEF PassOK
<1>2. JobsOK'
  BY <1>0 DEF JobsOK, Runs
<1>3. Busy' = Busy
  BY DEF Busy
<1>4. RegistryOK'
  <2>1. registered' = {job'[v].row.hash : v \in Busy}
    BY <1>0 DEF RegistryOK, H
  <2>2. \A v, u \in Busy : job'[v].row.hash = job'[u].row.hash => v = u
    BY <1>0 DEF RegistryOK, H
  <2>. QED  BY <1>0, <1>3, <2>1, <2>2 DEF RegistryOK, H
<1>. QED  BY <1>1, <1>2, <1>3, <1>4 DEF IInv

LEMMA ArrivesKeeps ==
  ASSUME IInv, NEW h \in Hashes, Arrives(h)
  PROVE  Effect
<1>0. /\ TableOK /\ DiskOK /\ JobsOK /\ DeletesOK /\ OthersOK
      /\ rows \in Table /\ Sound(rows, lastId) /\ lastId \in Nat
      /\ adds' = adds + 1 /\ adds' \in 0 .. MaxAdds /\ adds \in Nat
      /\ UNCHANGED <<gone, diskVars, passVars, job, registered, retryVars, deleting, crashes>>
  BY DEF IInv, Arrives, TableOK
<1>1. Ready(h) \in Row
  <2>1. adds + 1 \in TbIds
    BY <1>0, StoreAssumption DEF TbIds
  <2>. QED  BY <1>0, <2>1 DEF Ready, Row, States
<1>2. PICK id \in Ids :
        /\ rows' = [rows EXCEPT ![id] = Ready(h)] /\ pathed' \subseteq pathed
        /\ \/ lastId' = lastId /\ id \in RowsOf(rows, h)
           \/ lastId' = lastId + 1 /\ id = lastId' /\ RowsOf(rows, h) = {}
  BY DEF Arrives, RowsOf, NextRowId
<1>3. /\ rows' \in Table /\ rows'[id] = Ready(h)
      /\ \A other \in Ids \ {id} : rows'[other] = rows[other]
  BY <1>0, <1>1, <1>2 DEF Table
<1>4. Ready(h).hash = h /\ Ready(h).state = "LOCAL_QUEUED" /\ Ready(h).added = adds'
  BY <1>0 DEF Ready
<1>5. id <= lastId' /\ lastId <= lastId' /\ lastId' \in 0 .. MaxRows
  BY <1>0, <1>2 DEF Sound, RowsOf, Ids, TableOK
<1>6. \A other \in RowsOf(rows, h) : other = id
  BY <1>0, <1>2 DEF Sound, RowsOf
<1>7. Sound(rows', lastId')
  <2>1. ASSUME NEW other \in Ids, Exists(rows', other)
        PROVE  rows'[other].hash \in Hashes /\ other <= lastId'
    BY <1>0, <1>3, <1>4, <1>5, <2>1 DEF Sound, Exists, Ids
  <2>2. ASSUME NEW other \in Ids, ~Exists(rows', other)
        PROVE  rows'[other] = NoRow
    BY <1>0, <1>3, <1>4, <2>2 DEF Sound, Exists
  <2>3. ASSUME NEW i \in Ids, NEW j \in Ids, Exists(rows', i), Exists(rows', j),
               rows'[i].hash = rows'[j].hash
        PROVE  i = j
    BY <1>0, <1>3, <1>4, <1>6, <2>3 DEF Sound, Exists, RowsOf
  <2>. QED  BY <2>1, <2>2, <2>3 DEF Sound
<1>8. TableOK'
  <2>1. \A other \in Ids : rows'[other].added <= adds'
    BY <1>0, <1>3, <1>4 DEF TableOK, Table, Row
  <2>. QED  BY <1>0, <1>3, <1>5, <1>7, <2>1 DEF TableOK
<1>9. \A t \in Listing : Follows(t) => Follows(t)' /\ (Exists(rows', t.id) => Exists(rows, t.id))
  BY <1>0, <1>2, <1>3, <1>4, <1>5 DEF Follows, Listing, Exists, RowsOf, Ids
<1>10. \A w \in Busy : Whole(w)'
  <2> TAKE w \in Busy
  <2>1. w \in Workers /\ job[w].at # "free" /\ H(w) \in Hashes
    BY <1>0 DEF Busy, JobsOK, Runs, H, Listing
  <2>2. job[w].row \in Listing /\ Follows(job[w].row)
    BY <1>0, <2>1 DEF JobsOK, Runs, NoJob
  <2>. QED  BY <1>0, <1>9, <2>1, <2>2, WholeKept DEF diskVars, Id
<1>11. DiskOK' /\ DeletesOK' /\ OthersOK'
  BY <1>0, <1>2 DEF DiskOK, DeletesOK, OthersOK, diskVars, passVars, retryVars
<1>12. IInv'
  BY <1>0, <1>8, <1>9, <1>10, <1>11, BesideKeeps DEF passVars, JobsOK
<1>13. NoneCompleted(rows, rows')
  BY <1>3, <1>4 DEF NoneCompleted
<1>. QED  BY <1>0, <1>12, <1>13, NothingCompleted DEF Effect

(* A step of DeleteTorrent leaves the pass and the registrations alone, and    *)
(* what it removes belongs to the torrent that is being deleted.               *)
LEMMA DeleteStep ==
  ASSUME IInv, NEW h \in Hashes, rows' \in Table, RowsKept(rows, rows'), StampsKept(rows, rows'),
         NoneCompleted(rows, rows'), DeleteFrame, DiskOK', DeletesOK', OthersOK',
         job' \in [Workers -> Job],
         \A w \in Workers : /\ job'[w].row = job[w].row /\ job'[w].at = job[w].at
                            /\ job'[w].left = job[w].left
                            /\ job[w] = NoJob <=> job'[w] = NoJob,
         \A other \in Hashes \ {h} : /\ deleting'[other] = deleting[other]
                                     /\ staged'[other] = staged[other]
                                     /\ placed'[other] = placed[other],
         \/ deleting'[h].at # "none"
         \/ RowsOf(rows', h) = {} /\ UNCHANGED diskVars
  PROVE  Effect
<1>0. /\ TableOK /\ JobsOK /\ lastId' = lastId /\ Busy \subseteq Workers
  BY DEF IInv, Busy, DeleteFrame, tableVars
<1>1. TableOK'
  BY <1>0, TableKept DEF DeleteFrame
<1>2. \A t \in Listing : Follows(t) => Follows(t)' /\ (Exists(rows', t.id) => Exists(rows, t.id))
  BY <1>0, FollowsKept DEF Listing
<1>3. ASSUME NEW w \in Busy
      PROVE  Whole(w)'
  <2>1. /\ w \in Workers /\ job[w].at # "free" /\ H(w) \in Hashes
        /\ job[w].row \in Listing /\ Follows(job[w].row)
    BY <1>0 DEF JobsOK, Runs, H, Listing, Busy
  <2>2. /\ job'[w].row = job[w].row /\ job'[w].at = job[w].at /\ job'[w].left = job[w].left
        /\ Follows(job[w].row)' /\ (Exists(rows', Id(w)) => Exists(rows, Id(w)))
    BY <1>2, <2>1 DEF Id
  <2>3. CASE H(w) # h
    BY <2>1, <2>2, <2>3, WholeKept
  <2>4. CASE H(w) = h /\ deleting'[h].at # "none"
    BY <2>2, <2>4 DEF Whole, H
  <2>5. CASE H(w) = h /\ RowsOf(rows', h) = {} /\ UNCHANGED diskVars
    <3>1. ~Exists(rows', Id(w))
      BY <2>1, <2>2, <2>5 DEF Follows, RowsOf, H, Id, Listing
    <3>. QED  BY <2>2, <3>1 DEF Whole, Id
  <2>. QED  BY <2>3, <2>4, <2>5
<1>4. UNCHANGED <<pass, todo, gate, registered>>
  BY DEF DeleteFrame, passVars
<1>5. IInv'
  BY <1>1, <1>2, <1>3, <1>4, BesideKeeps
<1>. QED  BY <1>0, <1>5, NothingCompleted DEF Effect

LEMMA DeleteCancelsKeeps ==
  ASSUME IInv, NEW h \in Hashes, DeleteCancels(h)
  PROVE  Effect
<1>0. /\ TableOK /\ DiskOK /\ JobsOK /\ DeletesOK /\ OthersOK /\ RegistryOK
      /\ rows' = rows /\ UNCHANGED <<gone, diskVars, pathed>> /\ DeleteFrame
      /\ deleting' = [deleting EXCEPT ![h].at = "read"]
  BY DEF IInv, DeleteCancels, Deletes
<1>1. DiskOK' /\ staged' = staged /\ placed' = placed
  BY <1>0 DEF DiskOK, diskVars
<1>2. /\ DeletesOK' /\ deleting'[h].at = "read"
      /\ \A other \in Hashes \ {h} : deleting'[other] = deleting[other]
  BY <1>0 DEF DeletesOK, Deleting, DeleteSteps
<1>3. OthersOK'
  <2>1. waiting' \subseteq Hashes /\ attempts' \in [Hashes -> 0 .. MaxLocalAttempts - 1]
    BY <1>0 DEF DeleteCancels, OthersOK
  <2>. QED  BY <1>0, <2>1 DEF OthersOK, DeleteFrame, passVars
<1>4. ASSUME NEW w \in Workers
      PROVE  /\ job'[w] \in Job /\ job'[w].row = job[w].row /\ job'[w].at = job[w].at
             /\ job'[w].left = job[w].left
             /\ job[w] = NoJob <=> job'[w] = NoJob
  <2>1. job[w] \in Job
    BY <1>0 DEF JobsOK
  <2>2. job'[w] = IF H(w) = h /\ h \in registered THEN [job[w] EXCEPT !.stop = TRUE] ELSE job[w]
    BY DEF DeleteCancels
  <2>3. job[w] = NoJob => job'[w] = NoJob
    BY <2>2, StoreAssumption DEF H, NoJob, NoRead
  <2>4. CASE job[w] # NoJob
    <3>1. job[w].at # "free"
      BY <1>0, <2>4 DEF JobsOK, Runs
    <3>2. job'[w].at # "free" /\ job'[w].at = job[w].at
      BY <2>1, <2>2, <3>1 DEF Job
    <3>3. job'[w] # NoJob
      BY <3>2 DEF NoJob
    <3>. QED  BY <2>1, <2>2, <2>4, <3>3 DEF Job
  <2>. QED  BY <2>1, <2>3, <2>4
<1>5. job' \in [Workers -> Job]
  <2>1. job' = [w \in Workers |-> job'[w]]
    BY DEF DeleteCancels
  <2>. QED  BY <1>4, <2>1
<1>. QED  BY <1>0, <1>1, <1>2, <1>3, <1>4, <1>5, TableSame, DeleteStep

LEMMA DeleteGoesOnKeeps ==
  ASSUME IInv, NEW h \in Hashes, DeleteGoesOn(h)
  PROVE  Effect
<1>0. /\ TableOK /\ DiskOK /\ JobsOK /\ DeletesOK /\ OthersOK /\ rows \in Table
      /\ Sound(rows, lastId) /\ deleting[h] \in Deleting
      /\ DeleteFrame /\ pathed' = pathed /\ job' = job /\ UNCHANGED retryVars
  BY DEF IInv, DeleteGoesOn, DeleteReads, DeleteAtTorBox, DeleteClearsRef, DeleteKeepsFiles,
         DeleteStaging, DeleteContent, DeleteDrops, TableOK, DeletesOK
<1>1. gone' \subseteq TbIds => OthersOK'
  BY <1>0 DEF OthersOK, DeleteFrame, retryVars, passVars
<1>2. job' \in [Workers -> Job] /\ gone \subseteq TbIds
  BY <1>0 DEF JobsOK, OthersOK
<1>3. CASE DeleteReads(h) /\ UNCHANGED gone
  <2>0. UNCHANGED <<rows, diskVars, staged, placed>>
    BY <1>3 DEF DeleteReads, diskVars
  <2>1. NoDelete \in Deleting /\ NoDelete.at = "none"
    BY DEF NoDelete, Deleting, DeleteSteps
  <2>2. CASE RowsOf(rows, h) = {}
    <3>1. deleting' = [deleting EXCEPT ![h] = NoDelete]
      BY <1>3, <2>2 DEF DeleteReads
    <3>2. DeletesOK' /\ \A other \in Hashes \ {h} : deleting'[other] = deleting[other]
      BY <1>0, <2>1, <3>1 DEF DeletesOK
    <3>3. RowsOf(rows', h) = {} /\ DiskOK'
      BY <1>0, <2>0, <2>2 DEF RowsOf, Exists, DiskOK
    <3>. QED  BY <1>0, <1>1, <1>2, <1>3, <2>0, <3>2, <3>3, TableSame, DeleteStep
  <2>3. CASE RowsOf(rows, h) # {}
    <3>1. PICK id \in RowsOf(rows, h) :
            deleting' = [deleting EXCEPT ![h] = [at |-> "torbox", id |-> id, ref |-> rows[id].ref,
                                                 content |-> Removable(id)]]
      BY <1>3, <2>3 DEF DeleteReads
    <3>2. id \in Ids /\ rows[id].ref \in TbIds \cup {Null} /\ Removable(id) \in BOOLEAN
      BY <1>0 DEF RowsOf, Table, Row, Removable
    <3>3. [at |-> "torbox", id |-> id, ref |-> rows[id].ref, content |-> Removable(id)] \in Deleting
      BY <3>2 DEF Deleting, DeleteSteps
    <3>4. /\ DeletesOK' /\ deleting'[h].at = "torbox"
          /\ \A other \in Hashes \ {h} : deleting'[other] = deleting[other]
      BY <1>0, <3>1, <3>2, <3>3 DEF DeletesOK
    <3>. QED  BY <1>0, <1>1, <1>2, <1>3, <2>0, <3>4, TableSame, DeleteStep DEF DiskOK
  <2>. QED  BY <2>2, <2>3
<1>4. ASSUME NEW from \in {"torbox", "unref", "files", "content"},
             NEW next \in {"unref", "files", "content", "drop"}, Deletes(h, from, next)
      PROVE  /\ DeletesOK' /\ deleting'[h].at # "none"
             /\ \A other \in Hashes \ {h} : deleting'[other] = deleting[other]
  <2>1. next \in DeleteSteps /\ next # "none" /\ deleting[h].id \in Ids
    BY <1>0, <1>4 DEF DeleteSteps, DeletesOK, Deletes
  <2>. QED  BY <1>0, <1>4, <2>1 DEF DeletesOK, Deletes, Deleting
<1>5. CASE DeleteAtTorBox(h)
  <2>1. /\ AsksTorBox(deleting[h].ref) \/ TorBoxSaysGone(deleting[h].ref)
        /\ UNCHANGED <<rows, staged, placed>> /\ DiskOK'
    BY <1>0, <1>5 DEF DeleteAtTorBox, diskVars, DiskOK
  <2>2. gone' \subseteq TbIds
    BY <1>0, <1>2, <2>1, Asked DEF Deleting
  <2>3. /\ DeletesOK' /\ deleting'[h].at # "none"
        /\ \A other \in Hashes \ {h} : deleting'[other] = deleting[other]
    BY <1>4, <1>5 DEF DeleteAtTorBox
  <2>. QED  BY <1>0, <1>1, <1>2, <2>1, <2>2, <2>3, TableSame, DeleteStep
<1>8. CASE DeleteClearsRef(h) /\ UNCHANGED gone
  <2>1. deleting[h].id \in Ids /\ UNCHANGED <<staged, placed>> /\ DiskOK'
    BY <1>0, <1>8 DEF DeleteClearsRef, Deletes, DeletesOK, diskVars, DiskOK
  <2>2. /\ rows' \in Table /\ RowsKept(rows, rows') /\ StampsKept(rows, rows')
        /\ NoneCompleted(rows, rows')
    BY <1>0, <1>8, <2>1, ClearTorBoxRefsKeeps DEF DeleteClearsRef
  <2>3. /\ DeletesOK' /\ deleting'[h].at # "none"
        /\ \A other \in Hashes \ {h} : deleting'[other] = deleting[other]
    BY <1>4, <1>8 DEF DeleteClearsRef
  <2>. QED  BY <1>0, <1>1, <1>2, <1>8, <2>1, <2>2, <2>3, DeleteStep
<1>6. CASE (DeleteKeepsFiles(h) \/ DeleteStaging(h) \/ DeleteContent(h)) /\ UNCHANGED gone
  <2>1. /\ DeletesOK' /\ deleting'[h].at # "none"
        /\ \A other \in Hashes \ {h} : deleting'[other] = deleting[other]
    BY <1>4, <1>6 DEF DeleteKeepsFiles, DeleteStaging, DeleteContent
  <2>2. /\ DiskOK' /\ rows' = rows
        /\ \A other \in Hashes \ {h} : staged'[other] = staged[other] /\ placed'[other] = placed[other]
    BY <1>0, <1>6 DEF DeleteKeepsFiles, DeleteStaging, DeleteContent, DiskOK, diskVars
  <2>. QED  BY <1>0, <1>1, <1>2, <1>6, <2>1, <2>2, TableSame, DeleteStep
<1>7. CASE DeleteDrops(h) /\ UNCHANGED gone
  <2>1. /\ rows' \in Table /\ RowsKept(rows, rows') /\ StampsKept(rows, rows')
        /\ NoneCompleted(rows, rows') /\ RowsOf(rows', h) = {}
    BY <1>0, <1>7, DeleteByHashesKeeps DEF DeleteDrops
  <2>2. NoDelete \in Deleting /\ NoDelete.at = "none"
    BY DEF NoDelete, Deleting, DeleteSteps
  <2>3. DeletesOK' /\ \A other \in Hashes \ {h} : deleting'[other] = deleting[other]
    BY <1>0, <1>7, <2>2 DEF DeletesOK, DeleteDrops
  <2>4. UNCHANGED <<diskVars, staged, placed>>
    BY <1>7 DEF DeleteDrops, diskVars
  <2>. QED  BY <1>0, <1>1, <1>2, <1>7, <2>1, <2>3, <2>4, DeleteStep DEF DiskOK
<1>. QED  BY <1>3, <1>5, <1>6, <1>7, <1>8 DEF DeleteGoesOn

(* The recovery looks at the disk itself. *)
LEMMA RecoversKeeps ==
  ASSUME IInv, NEW id \in Ids, Recovers(id)
  PROVE  Effect
<1>0. /\ TableOK /\ DiskOK /\ JobsOK /\ DeletesOK /\ OthersOK /\ rows \in Table
      /\ Sound(rows, lastId) /\ Busy \subseteq Workers
      /\ UNCHANGED <<tableVars, gone, diskVars, pass, todo, gate, job, registered, retryVars,
                     deleting, crashes>>
      /\ boot' \subseteq boot
  BY DEF IInv, Recovers, TableOK, Busy
<1>1. /\ rows' \in Table /\ RowsKept(rows, rows') /\ StampsKept(rows, rows')
      /\ \A other \in Ids \ {id} : rows'[other] = rows[other]
      /\ ~Exists(rows, id) => rows' = rows
      /\ rows' = rows \/ InPlace(rows[id].hash)
  <2>1. CASE Exists(rows, id) /\ InPlace(rows[id].hash)
    <3>1. rows' = MarkComplete(rows, id)
      BY <2>1 DEF Recovers
    <3>. QED  BY <1>0, <2>1, <3>1, MarkCompleteKeeps
  <2>2. CASE ~(Exists(rows, id) /\ InPlace(rows[id].hash))
    BY <1>0, <2>2, TableSame DEF Recovers
  <2>. QED  BY <2>1, <2>2
<1>2. TableOK' /\ lastId' = lastId
  BY <1>0, <1>1, TableKept DEF tableVars
<1>3. \A t \in Listing : Follows(t) => Follows(t)' /\ (Exists(rows', t.id) => Exists(rows, t.id))
  BY <1>1, <1>2, FollowsKept DEF Listing
<1>4. ASSUME NEW w \in Busy
      PROVE  Whole(w)'
  <2>1. /\ w \in Workers /\ job[w].at # "free" /\ job[w].row \in Listing /\ Follows(job[w].row)
    BY <1>0 DEF JobsOK, Runs, Busy
  <2>. QED  BY <1>0, <1>3, <2>1, WholeKept DEF diskVars, Id
<1>5. DiskOK' /\ DeletesOK' /\ OthersOK'
  BY <1>0 DEF DiskOK, DeletesOK, OthersOK, diskVars, retryVars, Recovers
<1>6. IInv'
  BY <1>0, <1>2, <1>3, <1>4, <1>5, BesideKeeps DEF JobsOK
<1>7. InPlaceStep
  BY <1>0, <1>1 DEF InPlaceStep, InPlace, diskVars
<1>. QED  BY <1>6, <1>7 DEF Effect

LEMMA CrashKeeps ==
  ASSUME IInv, Crash
  PROVE  Effect
<1>0. /\ TableOK /\ DiskOK /\ OthersOK
      /\ UNCHANGED <<rows, tableVars, gone, diskVars, pathed>>
      /\ job' = [w \in Workers |-> NoJob] /\ registered' = {}
  BY DEF IInv, Crash
<1>1. TableOK' /\ DiskOK'
  BY <1>0 DEF TableOK, DiskOK, tableVars, diskVars
<1>2. Busy' = {} /\ NoJob \in Job
  BY <1>0 DEF Busy, NoJob, Job, JobSteps
<1>3. JobsOK'
  BY <1>0, <1>2 DEF JobsOK
<1>4. RegistryOK'
  <2>1. IsFiniteSet({}) /\ Cardinality({}) = 0
    BY FS_EmptySet
  <2>. QED  BY <1>0, <1>2, <2>1 DEF RegistryOK
<1>5. PassOK'
  BY DEF Crash, PassOK
<1>6. DeletesOK'
  BY DEF Crash, DeletesOK, NoDelete, Deleting, DeleteSteps
<1>7. OthersOK'
  <2>1. boot' \subseteq Ids
    BY DEF Crash, InState
  <2>2. attempts' \in [Hashes -> 0 .. MaxLocalAttempts - 1] /\ waiting' = {}
    BY DEF Crash
  <2>3. crashes' \in 0 .. MaxCrashes
    BY <1>0 DEF Crash, OthersOK
  <2>. QED  BY <1>0, <2>1, <2>2, <2>3 DEF OthersOK
<1>8. IInv'
  BY <1>1, <1>2, <1>3, <1>4, <1>5, <1>6, <1>7 DEF IInv
<1>. QED  BY <1>0, <1>8, TableSame, NothingCompleted DEF Effect

-----------------------------------------------------------------------------
(* The theorems. *)

LEMMA InitIInv == Init => IInv
<1> SUFFICES ASSUME Init  PROVE  IInv
  OBVIOUS
<1>1. TableOK
  <2>1. \A id \in Ids : EmptyTable[id].added = 0
    BY DEF EmptyTable, NoRow
  <2>2. 0 \in 0 .. MaxRows /\ 0 \in 0 .. MaxAdds
    BY StoreAssumption
  <2>. QED  BY <2>1, <2>2, EmptyTableType, EmptyTableSound DEF Init, TableOK
<1>2. DiskOK /\ PassOK /\ DeletesOK
  BY DEF Init, DiskOK, PassOK, DeletesOK, NoDelete, Deleting, DeleteSteps
<1>3. Busy = {} /\ NoJob \in Job
  BY DEF Init, Busy, NoJob, Job, JobSteps
<1>4. JobsOK
  BY <1>3 DEF Init, JobsOK
<1>5. RegistryOK
  <2>1. IsFiniteSet({}) /\ Cardinality({}) = 0
    BY FS_EmptySet
  <2>. QED  BY <1>3, <2>1 DEF Init, RegistryOK
<1>6. OthersOK
  BY DEF Init, OthersOK
<1>. QED  BY <1>1, <1>2, <1>3, <1>4, <1>5, <1>6 DEF IInv

LEMMA StepKeeps ==
  ASSUME IInv, [Next]_vars
  PROVE  Effect
<1>1. CASE UNCHANGED vars
  <2>1. PassOK' /\ OthersOK'
    BY <1>1 DEF vars, IInv, PassOK, OthersOK, Follows, tableVars, diskVars, passVars, retryVars
  <2>. QED  BY <1>1, <2>1, AsideKeeps DEF vars
<1>2. CASE DownloadPass
  BY <1>2, DownloadPassKeeps
<1>3. CASE Crash
  BY <1>3, CrashKeeps
<1>4. CASE \E w \in Workers : Download(w)
  BY <1>4, DownloadKeeps
<1>5. CASE \E h \in Hashes : Arrives(h) \/ BackoffElapses(h) \/ DeleteTorrent(h)
  BY <1>5, ArrivesKeeps, BackoffElapsesKeeps, DeleteCancelsKeeps, DeleteGoesOnKeeps
     DEF DeleteTorrent
<1>6. CASE \E id \in Ids : Recovers(id)
  BY <1>6, RecoversKeeps
<1>. QED  BY <1>1, <1>2, <1>3, <1>4, <1>5, <1>6 DEF Next

LEMMA Invariant == Spec => []IInv
<1>1. IInv /\ [Next]_vars => IInv'
  BY StepKeeps DEF Effect
<1>. QED  BY InitIInv, <1>1, PTL DEF Spec

(* The state of the download loop has the type the model gives it: the retry   *)
(* budget is never exceeded, and no bookkeeping names what does not exist.     *)
THEOREM TypeCorrect == Spec => []TypeOK
<1>1. ASSUME IInv
      PROVE  TypeOK
  <2>1. gate \in Listing \cup {NoRead}
    BY <1>1 DEF IInv, PassOK
  <2>2. registered \subseteq Hashes
    BY <1>1, Working DEF IInv, RegistryOK, JobsOK, Runs, Busy
  <2>. QED  BY <1>1, <2>1, <2>2 DEF IInv, TypeOK, TableOK, Table, DiskOK, PassOK, JobsOK, Job,
                                    DeletesOK, Deleting, OthersOK
<1>. QED  BY Invariant, <1>1, PTL

(* maybeStartDownload never lets two goroutines download the same torrent nor  *)
(* more than parallel_torrents in all, however many torrents wait, fail, are   *)
(* deleted or are re-queued, and although it gives up the lock half way.       *)
THEOREM DownloadsExclusive == Spec => []Exclusive
<1>1. IInv => Exclusive
  BY DEF IInv, RegistryOK, Exclusive
<1>. QED  BY Invariant, <1>1, PTL

(* downloadOne and the recovery at startup mark a row COMPLETE only when every *)
(* entry of its torrent is in place, whatever other goroutines, deletes of     *)
(* other torrents and crashes do meanwhile.                                    *)
THEOREM CompletedWhole == Spec => CompletedInPlace
<1>1. IInv /\ [Next]_vars => InPlaceStep
  BY StepKeeps DEF Effect
<1>2. IInv /\ [Next]_vars => [InPlaceStep]_vars
  BY <1>1
<1>. QED  BY Invariant, <1>1, PTL DEF Spec, CompletedInPlace, InPlaceStep
-----------------------------------------------------------------------------
(* That a COMPLETE row stays so.  A download may be started from a listing     *)
(* that its row has left behind; it must not be one that fails the row for     *)
(* good, at once or for the last of its attempts.  The invariant says that a   *)
(* pass comes to a row that is COMPLETE once at most, that what it listed has  *)
(* a torrent on TorBox, and that no attempt is used up until then.             *)

Local == {"LOCAL_QUEUED", "LOCAL_DOWNLOAD"}

(* The goroutine has not come to the outcome of its download. *)
Downloads(w) == job[w].at \in {"start", "fetch", "finalize", "clear", "move", "failed", "complete"}

(* The listed rows the pass has still to start or to pass over. *)
Ahead == IF pass = "disk" THEN todo \cup {gate} ELSE todo

Undeleted(id) == Exists(rows, id) /\ deleting[rows[id].hash].at = "none"

(* Startup recovers before the first pass. *)
Recovered ==
  /\ boot # {} => pass = "idle" /\ Busy = {}
  /\ pass = "idle" => todo = {}

(* A pass lists a release twice at most: as one to resume, then as a new one.  *)
Listed ==
  /\ \A t \in Ahead : t.state \in Local
  /\ pass = "queued" => \A t \in todo : t.state = "LOCAL_DOWNLOAD"
  /\ \A t, u \in Ahead : t.hash = u.hash /\ t.state = u.state => t = u
  /\ pass = "disk" =>
       /\ gate \notin todo
       /\ \A t \in todo : t.hash = gate.hash => gate.state = "LOCAL_DOWNLOAD"

Begun ==
  \A w \in Busy :
    /\ job[w].at \notin {"start", "fail", "failClear", "failMark", "exit"} => job[w].row.ref # Null
    /\ job[w].at \in {"tidy", "tidyClear"} /\ Exists(rows, Id(w))
         => rows[Id(w)].state = "COMPLETE"

(* A delete names a row of its release. *)
Doomed ==
  \A h \in Hashes :
    deleting[h].at \notin {"none", "read"} =>
      /\ deleting[h].id <= lastId
      /\ Exists(rows, deleting[h].id) => rows[deleting[h].id].hash = h

(* Only a failure or a delete takes the torrent of a row that is not COMPLETE; *)
(* after a crash in a delete, the row is listed and tried as it is.            *)
Cleared ==
  \A id \in Ids :
    Undeleted(id) /\ rows[id].state \in Local /\ rows[id].ref = Null
      /\ (\A w \in Busy : Id(w) = id => job[w].at # "failMark")
      => /\ \A t \in Ahead : t.id = id => t.ref = Null
         /\ \A w \in Busy : Id(w) = id /\ Downloads(w) => job[w].row.ref = Null

(* A row listed as one to resume that failed, or was re-queued since, has no   *)
(* goroutine but one that ends, and a new torrent.                             *)
Requeued ==
  pass = "queued" =>
    \A t \in todo : rows[t.id].state \in {"ERROR", "LOCAL_QUEUED"} =>
      /\ \A w \in Busy : Id(w) = t.id => job[w].at = "exit"
      /\ rows[t.id].state = "LOCAL_QUEUED" /\ Undeleted(t.id) => rows[t.id].ref # Null

SameRow ==
  pass = "queued" =>
    \A t \in todo, w \in Busy : t.hash = H(w) /\ Exists(rows, Id(w)) => t.id = Id(w)

Pairs ==
  \A g, t \in Ahead :
    g.id = t.id /\ g.state = "LOCAL_DOWNLOAD" /\ t.state = "LOCAL_QUEUED" /\ Undeleted(t.id)
      => t.ref # Null

(* While a row is downloaded, the pass comes to its release once more at most. *)
OnceMore ==
  \A w \in Busy :
    Downloads(w) /\ Exists(rows, Id(w)) =>
      /\ \A t, u \in todo : t.hash = H(w) /\ u.hash = H(w) => t = u
      /\ Undeleted(Id(w)) /\ job[w].row.ref # Null
           => \A t \in todo : t.id = Id(w) => t.ref # Null

Settled ==
  \A id \in Ids :
    Undeleted(id) /\ rows[id].state = "COMPLETE" =>
      /\ \A t, u \in Ahead : t.hash = rows[id].hash /\ u.hash = rows[id].hash => t = u
      /\ \A t \in Ahead : t.hash = rows[id].hash =>
           /\ t.id = id => t.ref # Null
           /\ attempts[rows[id].hash] = 0
           /\ \A w \in Busy : H(w) = rows[id].hash => ~Downloads(w)
      /\ \A w \in Busy : H(w) = rows[id].hash /\ Downloads(w) => attempts[rows[id].hash] = 0
      /\ \A w \in Busy : Id(w) = id =>
           /\ job[w].at \notin {"fail", "failClear", "failMark"}
           /\ job[w].at = "start" => job[w].row.ref # Null

FInv == /\ Recovered /\ Listed /\ Begun /\ Doomed /\ Cleared /\ Requeued /\ SameRow /\ Pairs
        /\ OnceMore /\ Settled

(* What the other invariant says of the rows, the goroutines and the listings. *)
LEMMA Apart ==
  ASSUME IInv
  PROVE  /\ Busy \subseteq Workers /\ lastId \in Nat
         /\ \A w \in Busy : /\ job[w].row \in Listing /\ Id(w) \in Ids /\ H(w) \in Hashes
                            /\ job[w].at # "free" /\ Id(w) <= lastId
                            /\ Exists(rows, Id(w)) => rows[Id(w)].hash = H(w)
         /\ \A v, w \in Busy : H(v) = H(w) => v = w
         /\ \A v, w \in Busy : Id(v) = Id(w) /\ Exists(rows, Id(w)) => v = w
         /\ \A t \in Ahead : /\ t \in Listing /\ t.id \in Ids /\ t.hash \in Hashes
                             /\ t.id <= lastId
                             /\ Exists(rows, t.id) => rows[t.id].hash = t.hash
         /\ \A id \in Ids : Exists(rows, id) => rows[id].hash \in Hashes /\ id <= lastId
         /\ \A i, j \in Ids : Exists(rows, i) /\ Exists(rows, j) /\ rows[i].hash = rows[j].hash
                                => i = j
         /\ pass = "disk" => \A w \in Busy : H(w) # gate.hash
<1>1. Busy \subseteq Workers /\ lastId \in Nat
  BY DEF IInv, Busy, TableOK
<1>2. ASSUME NEW w \in Busy
      PROVE  /\ job[w].row \in Listing /\ Id(w) \in Ids /\ H(w) \in Hashes
             /\ job[w].at # "free" /\ Id(w) <= lastId
             /\ Exists(rows, Id(w)) => rows[Id(w)].hash = H(w)
  <2>1. w \in Workers /\ Runs(w)
    BY <1>1 DEF IInv, JobsOK, Busy
  <2>. QED  BY <2>1 DEF Runs, Follows, Listing, Id, H
<1>3. \A v, w \in Busy : H(v) = H(w) => v = w
  BY DEF IInv, RegistryOK
<1>4. \A v, w \in Busy : Id(v) = Id(w) /\ Exists(rows, Id(w)) => v = w
  BY <1>2, <1>3
<1>5. ASSUME NEW t \in Ahead
      PROVE  /\ t \in Listing /\ t.id \in Ids /\ t.hash \in Hashes /\ t.id <= lastId
             /\ Exists(rows, t.id) => rows[t.id].hash = t.hash
  BY DEF IInv, PassOK, Ahead, Follows, Listing
<1>6. /\ \A id \in Ids : Exists(rows, id) => rows[id].hash \in Hashes /\ id <= lastId
      /\ \A i, j \in Ids : Exists(rows, i) /\ Exists(rows, j) /\ rows[i].hash = rows[j].hash
                             => i = j
  BY DEF IInv, TableOK, Sound
<1>7. pass = "disk" => \A w \in Busy : H(w) # gate.hash
  BY DEF IInv, PassOK, RegistryOK
<1>. QED  BY <1>1, <1>2, <1>3, <1>4, <1>5, <1>6, <1>7

-----------------------------------------------------------------------------
(* The goroutines. *)

(* A step of goroutine w, which writes to its own row at most. *)
LEMMA WorkerStep ==
  ASSUME IInv, FInv, NEW w \in Busy, NEW to, job'[w].at = to, job[w].at # "exit",
         Busy' = Busy, \A v \in Busy : job'[v].row = job[v].row,
         \A v \in Busy \ {w} : job'[v].at = job[v].at,
         UNCHANGED <<pass, todo, gate, boot, deleting, lastId>>,
         \A id \in Ids : /\ Exists(rows', id) <=> Exists(rows, id)
                         /\ rows'[id].hash = rows[id].hash,
         \A id \in Ids \ {Id(w)} : rows'[id] = rows[id],
         \A h \in Hashes \ {H(w)} : attempts'[h] = attempts[h],
         Downloads(w)' => Downloads(w) /\ to # "start" /\ attempts'[H(w)] = attempts[H(w)],
         ~Downloads(w) => attempts'[H(w)] = attempts[H(w)],
         to \notin {"start", "fail", "failClear", "failMark", "exit"} => job[w].row.ref # Null,
         to = "tidy" => job[w].at = "complete" /\ attempts'[H(w)] = 0
                        /\ (Exists(rows, Id(w)) => rows'[Id(w)].state = "COMPLETE"),
         to = "fail" => \/ job[w].at = "start" /\ (job[w].row.ref = Null \/ ~Exists(rows, Id(w)))
                        \/ job[w].at = "failed" /\ attempts[H(w)] # 0,
         to = "tidyClear" => /\ job[w].at = "tidy"
                             /\ Exists(rows, Id(w)) => rows'[Id(w)].state = rows[Id(w)].state,
         to = "failClear" => job[w].at = "fail",
         to = "failMark" => job[w].at \in {"fail", "failClear"},
         job[w].at = "failMark" /\ Exists(rows, Id(w)) => rows'[Id(w)].state = "ERROR",
         Exists(rows, Id(w)) =>
           \/ /\ rows'[Id(w)].state = rows[Id(w)].state
              /\ \/ rows'[Id(w)].ref = rows[Id(w)].ref
                 \/ to = "failMark" \/ rows[Id(w)].state = "COMPLETE"
           \/ /\ rows[Id(w)].state = "LOCAL_QUEUED" /\ rows'[Id(w)].state = "LOCAL_DOWNLOAD"
              /\ rows'[Id(w)].ref = rows[Id(w)].ref
           \/ rows'[Id(w)].state = "COMPLETE" /\ to = "tidy"
           \/ rows'[Id(w)].state = "ERROR" /\ job[w].at = "failMark" /\ to = "exit"
  PROVE  FInv'
<1>0. /\ Ahead' = Ahead /\ \A v \in Busy : Id(v)' = Id(v) /\ H(v)' = H(v)
      /\ \A v \in Busy \ {w} : Downloads(v)' <=> Downloads(v)
      /\ \A id \in Ids : Undeleted(id)' <=> Undeleted(id)
      /\ todo \subseteq Ahead
  BY DEF Ahead, Id, H, Downloads, Undeleted
<1>1. Recovered' /\ Listed'
  BY <1>0 DEF FInv, Recovered, Listed
<1>2. Begun'
  <2> SUFFICES ASSUME NEW v \in Busy
               PROVE  /\ job'[v].at \notin {"start", "fail", "failClear", "failMark", "exit"}
                           => job'[v].row.ref # Null
                      /\ job'[v].at \in {"tidy", "tidyClear"} /\ Exists(rows', Id(v))
                           => rows'[Id(v)].state = "COMPLETE"
    BY <1>0 DEF Begun
  <2>1. CASE v = w
    <3>1. job[w].at = "tidy" /\ Exists(rows, Id(w)) => rows[Id(w)].state = "COMPLETE"
      BY DEF FInv, Begun
    <3>. QED  BY <2>1, <3>1, Apart
  <2>2. CASE v # w
    <3>1. Exists(rows', Id(v)) => rows'[Id(v)] = rows[Id(v)]
      BY <2>2, Apart
    <3>. QED  BY <2>2, <3>1, Apart DEF FInv, Begun
  <2>. QED  BY <2>1, <2>2
<1>3. Doomed'
  BY DEF FInv, Doomed, IInv, DeletesOK
<1>4. Cleared'
  <2> SUFFICES ASSUME NEW id \in Ids, Undeleted(id), rows'[id].state \in Local, rows'[id].ref = Null,
                      \A v \in Busy : Id(v) = id => job'[v].at # "failMark"
               PROVE  /\ \A t \in Ahead : t.id = id => t.ref = Null
                      /\ \A v \in Busy : Id(v) = id /\ Downloads(v)' => job[v].row.ref = Null
    BY <1>0 DEF Cleared
  <2>0. Exists(rows, id)
    BY DEF Undeleted
  <2>1. CASE id # Id(w)
    <3>1. \A v \in Busy : Id(v) = id => v # w
      BY <2>1
    <3>2. rows'[id] = rows[id] /\ \A v \in Busy : Id(v) = id => job'[v].at = job[v].at
      BY <2>1, <3>1
    <3>. QED  BY <1>0, <3>1, <3>2 DEF FInv, Cleared
  <2>2. CASE id = Id(w)
    <3>0. job'[w].at # "failMark"
      BY <2>2
    <3>1. rows[id].state \in Local /\ rows[id].ref = Null /\ job[w].at # "failMark"
      BY <2>0, <2>2, <3>0 DEF Local
    <3>2. \A v \in Busy : Id(v) = id => v = w
      BY <2>0, <2>2, Apart
    <3>. QED  BY <2>2, <3>1, <3>2 DEF FInv, Cleared
  <2>. QED  BY <2>1, <2>2
<1>5. Requeued'
  <2> SUFFICES ASSUME pass = "queued", NEW t \in todo, rows'[t.id].state \in {"ERROR", "LOCAL_QUEUED"}
               PROVE  /\ \A v \in Busy : Id(v) = t.id => job'[v].at = "exit"
                      /\ rows'[t.id].state = "LOCAL_QUEUED" /\ Undeleted(t.id) => rows'[t.id].ref # Null
    BY <1>0, Apart DEF Requeued
  <2>0. t.id \in Ids /\ Exists(rows, t.id)
    BY <1>0, Apart DEF Exists
  <2>1. CASE t.id # Id(w)
    <3>1. rows'[t.id] = rows[t.id] /\ \A v \in Busy : Id(v) = t.id => job'[v].at = job[v].at
      BY <2>0, <2>1
    <3>. QED  BY <3>1 DEF FInv, Requeued
  <2>2. CASE t.id = Id(w)
    <3>1. \A v \in Busy : Id(v) = t.id => v = w
      BY <2>0, <2>2, Apart
    <3>2. rows[t.id].state \notin {"ERROR", "LOCAL_QUEUED"}
      BY <2>2 DEF FInv, Requeued
    <3>. QED  BY <2>0, <2>2, <3>1, <3>2
  <2>. QED  BY <2>1, <2>2
<1>6. SameRow'
  BY <1>0, Apart DEF FInv, SameRow
<1>7. Pairs'
  BY <1>0, Apart DEF FInv, Pairs
<1>8. OnceMore'
  <2> SUFFICES ASSUME NEW v \in Busy, Downloads(v)', Exists(rows', Id(v))
               PROVE  /\ \A t, u \in todo : t.hash = H(v) /\ u.hash = H(v) => t = u
                      /\ Undeleted(Id(v)) /\ job[v].row.ref # Null
                           => \A t \in todo : t.id = Id(v) => t.ref # Null
    BY <1>0, Apart DEF OnceMore
  <2>1. Downloads(v) /\ Exists(rows, Id(v))
    BY <1>0, Apart
  <2>. QED  BY <2>1 DEF FInv, OnceMore
<1>9. Settled'
  <2> SUFFICES ASSUME NEW id \in Ids, Undeleted(id), rows'[id].state = "COMPLETE"
               PROVE  /\ \A t, u \in Ahead : t.hash = rows[id].hash /\ u.hash = rows[id].hash => t = u
                      /\ \A t \in Ahead : t.hash = rows[id].hash =>
                           /\ t.id = id => t.ref # Null
                           /\ attempts'[rows[id].hash] = 0
                           /\ \A v \in Busy : H(v) = rows[id].hash => ~Downloads(v)'
                      /\ \A v \in Busy : H(v) = rows[id].hash /\ Downloads(v)'
                           => attempts'[rows[id].hash] = 0
                      /\ \A v \in Busy : Id(v) = id =>
                           /\ job'[v].at \notin {"fail", "failClear", "failMark"}
                           /\ job'[v].at = "start" => job[v].row.ref # Null
    BY <1>0 DEF Settled
  <2>0. Exists(rows, id) /\ rows[id].hash \in Hashes
    BY Apart DEF Undeleted
  <2>1. CASE rows[id].state = "COMPLETE"
    <3>1. CASE H(w) # rows[id].hash
      <4>1. \A v \in Busy : H(v) = rows[id].hash \/ Id(v) = id => v # w
        BY <2>0, <3>1, Apart
      <4>. QED  BY <1>0, <2>0, <2>1, <3>1, <4>1 DEF FInv, Settled
    <3>2. CASE H(w) = rows[id].hash
      <4>1. \A v \in Busy : H(v) = rows[id].hash \/ Id(v) = id => v = w
        BY <2>0, <3>2, Apart
      <4>2. Downloads(w) => attempts[H(w)] = 0
        BY <2>1, <3>2 DEF FInv, Settled
      <4>3. \A t \in Ahead : t.hash = rows[id].hash => attempts[H(w)] = 0 /\ ~Downloads(w)
        BY <2>1, <3>2 DEF FInv, Settled
      <4>4. Id(w) = id => /\ job[w].at \notin {"fail", "failClear", "failMark"}
                          /\ job[w].at = "start" => job[w].row.ref # Null
        BY <2>1 DEF FInv, Settled
      <4>5. Id(w) = id => to \notin {"fail", "failClear", "failMark"} /\ to # "start"
        <5>1. "failed" \in {"start", "fetch", "finalize", "clear", "move", "failed", "complete"}
          OBVIOUS
        <5>. QED  BY <2>0, <4>2, <4>4, <5>1 DEF Downloads
      <4>. QED  BY <1>0, <2>1, <3>2, <4>1, <4>2, <4>3, <4>5 DEF FInv, Settled
    <3>. QED  BY <3>1, <3>2
  <2>2. CASE rows[id].state # "COMPLETE"
    <3>1. id = Id(w) /\ to = "tidy" /\ H(w) = rows[id].hash
      BY <2>0, <2>2, Apart
    <3>2. \A v \in Busy : H(v) = rows[id].hash \/ Id(v) = id => v = w
      BY <2>0, <3>1, Apart
    <3>3. Downloads(w) /\ ~Downloads(w)' /\ job[w].row.ref # Null /\ attempts'[H(w)] = 0
      BY <3>1 DEF Downloads
    <3>4. \A t \in Ahead : t.hash = H(w) => t \in todo
      BY Apart DEF Ahead
    <3>5. /\ \A t, u \in todo : t.hash = H(w) /\ u.hash = H(w) => t = u
          /\ \A t \in todo : t.id = Id(w) => t.ref # Null
      BY <2>0, <3>1, <3>3 DEF FInv, OnceMore
    <3>. QED  BY <3>1, <3>2, <3>3, <3>4, <3>5
  <2>. QED  BY <2>1, <2>2
<1>. QED  BY <1>1, <1>2, <1>3, <1>4, <1>5, <1>6, <1>7, <1>8, <1>9 DEF FInv

(* The bookkeeping of a step of goroutine w that goes on. *)
LEMMA JobGoes ==
  ASSUME IInv, NEW w \in Workers, job[w].at # "free", JobFrame,
         NEW next \in Job, job' = [job EXCEPT ![w] = next], next.row = job[w].row,
         next.at # "free"
  PROVE  /\ w \in Busy /\ Busy' = Busy /\ \A v \in Busy : job'[v].row = job[v].row
         /\ job'[w].at = next.at /\ \A v \in Busy \ {w} : job'[v].at = job[v].at
         /\ UNCHANGED <<pass, todo, gate, boot, deleting, lastId>>
<1>1. job \in [Workers -> Job] /\ w \in Busy /\ Busy \subseteq Workers
  BY Working DEF IInv, JobsOK, Busy
<1>2. job'[w] = next /\ \A v \in Workers \ {w} : job'[v] = job[v]
  BY <1>1
<1>3. next # NoJob
  BY DEF NoJob
<1>4. Busy' = Busy
  BY <1>1, <1>2, <1>3 DEF Busy
<1>. QED  BY <1>1, <1>2, <1>4 DEF JobFrame, passVars, tableVars

(* The steps between the start and the outcome write neither to the table nor  *)
(* to the count of attempts.                                                   *)
LEMMA BetweenStays ==
  ASSUME IInv, FInv, NEW w \in Workers,
         Fetches(w) \/ Fetched(w) \/ FetchFails(w) \/ Finalizes(w)
  PROVE  FInv'
<1>0. /\ job[w].at \in {"fetch", "finalize", "clear", "move"} /\ JobFrame
      /\ UNCHANGED <<rows, retryVars>>
  BY DEF Fetches, Fetched, FetchFails, Finalizes, FinalizeReads, FinalizeClears, FinalizeMoves,
         FinalizeFails
<1>1. /\ job[w] \in Job /\ job \in [Workers -> Job] /\ w \in Busy
      /\ DiskOK /\ H(w) \in Hashes
  BY <1>0, Working DEF IInv, JobsOK
<1>2. PICK next \in Job :
        /\ job' = [job EXCEPT ![w] = next] /\ next.row = job[w].row
        /\ next.at \in {"fetch", "finalize", "clear", "move", "failed", "complete", "exit"}
  <2>1. CASE Fetches(w)
    BY <1>0, <1>1, <2>1 DEF Fetches
  <2>2. CASE Fetched(w) \/ FetchFails(w) \/ FinalizeClears(w) \/ FinalizeFails(w)
    <3>1. PICK step \in {"fetch", "finalize", "clear", "move", "failed", "complete", "exit"} : Goes(w, step)
      BY <2>2 DEF Fetched, FetchFails, FinalizeClears, FinalizeFails
    <3>2. step \in JobSteps
      BY DEF JobSteps
    <3> DEFINE moved == [job[w] EXCEPT !.at = step]
    <3>3. moved \in Job /\ moved.row = job[w].row /\ moved.at = step
      BY <1>1, <3>2 DEF Job
    <3>4. job' = [job EXCEPT ![w] = moved]
      BY <1>1, <3>1 DEF Goes
    <3>. QED  BY <3>1, <3>3, <3>4
  <2>3. CASE FinalizeReads(w)
    <3> DEFINE moved == [job[w] EXCEPT !.at = "clear", !.left = staged[H(w)]]
    <3>1. job' = [job EXCEPT ![w] = moved]
      BY <1>1, <2>3 DEF FinalizeReads
    <3>2. moved \in Job /\ moved.row = job[w].row /\ moved.at = "clear"
      BY <1>1 DEF Job, JobSteps, DiskOK
    <3>. QED  BY <3>1, <3>2
  <2>4. CASE FinalizeMoves(w)
    <3> DEFINE e == First(job[w].left)
               moved == [job[w] EXCEPT !.at = IF job[w].left = {e} THEN "complete" ELSE "clear",
                                       !.left = @ \ {e}]
    <3>1. job' = [job EXCEPT ![w] = moved]
      BY <1>1, <2>4 DEF FinalizeMoves
    <3>2. moved \in Job /\ moved.row = job[w].row /\ moved.at \in {"complete", "clear"}
      BY <1>1 DEF Job, JobSteps
    <3>. QED  BY <3>1, <3>2
  <2>. QED  BY <1>0, <2>1, <2>2, <2>3, <2>4 DEF Finalizes
<1>3. Downloads(w) /\ job[w].row.ref # Null
  BY <1>0, <1>1 DEF Downloads, FInv, Begun
<1>. QED  BY <1>0, <1>2, <1>3, JobGoes, WorkerStep DEF retryVars

LEMMA BeginsStays ==
  ASSUME IInv, FInv, NEW w \in Workers, Begins(w)
  PROVE  FInv'
<1>0. /\ job[w].at = "start" /\ JobFrame /\ UNCHANGED retryVars /\ job[w] \in Job /\ w \in Busy
      /\ job \in [Workers -> Job] /\ Id(w) \in Ids /\ rows \in Table
  BY Working DEF Begins, IInv, JobsOK, TableOK
<1>1. CASE job[w].row.ref = Null \/ ~Exists(rows, Id(w))
  <2> DEFINE next == [job[w] EXCEPT !.at = "fail"]
  <2>1. job' = [job EXCEPT ![w] = next] /\ rows' = rows
    BY <1>0, <1>1 DEF Begins, Goes
  <2>2. next \in Job /\ next.row = job[w].row /\ next.at = "fail"
    BY <1>0 DEF Job, JobSteps
  <2>. QED  BY <1>0, <1>1, <2>1, <2>2, JobGoes, WorkerStep DEF retryVars, Downloads
<1>2. CASE ~(job[w].row.ref = Null \/ ~Exists(rows, Id(w)))
  <2> DEFINE next == [job[w] EXCEPT !.at = "fetch", !.link = job[w].row.ref \notin gone]
  <2>1. job' = [job EXCEPT ![w] = next]
    BY <1>0, <1>2 DEF Begins
  <2>2. next \in Job /\ next.row = job[w].row /\ next.at = "fetch"
    BY <1>0 DEF Job, JobSteps
  <2>3. \/ rows' = rows
        \/ /\ rows[Id(w)].state = "LOCAL_QUEUED"
           /\ rows' = [rows EXCEPT ![Id(w)].state = "LOCAL_DOWNLOAD"]
    BY <1>2 DEF Begins, MarkLocalDownloading
  <2>4. /\ \A id \in Ids : /\ Exists(rows', id) <=> Exists(rows, id)
                           /\ rows'[id].hash = rows[id].hash
        /\ \A id \in Ids \ {Id(w)} : rows'[id] = rows[id]
        /\ rows'[Id(w)].ref = rows[Id(w)].ref
        /\ \/ rows'[Id(w)].state = rows[Id(w)].state
           \/ rows[Id(w)].state = "LOCAL_QUEUED" /\ rows'[Id(w)].state = "LOCAL_DOWNLOAD"
    BY <1>0, <2>3 DEF Exists, Table, Row
  <2>. QED  BY <1>0, <1>2, <2>1, <2>2, <2>4, JobGoes, WorkerStep DEF retryVars, Downloads
<1>. QED  BY <1>1, <1>2

(* What one of the statements of downloadOne makes of the row. *)
LEMMA RowWritten ==
  ASSUME IInv, NEW id \in Ids, NEW next \in States,
         \/ rows' = IF Exists(rows, id) THEN [rows EXCEPT ![id].state = next] ELSE rows
         \/ rows' = ClearTorBoxRefs(rows, id) \/ rows' = rows
  PROVE  /\ \A other \in Ids : /\ Exists(rows', other) <=> Exists(rows, other)
                               /\ rows'[other].hash = rows[other].hash
         /\ \A other \in Ids \ {id} : rows'[other] = rows[other]
         /\ rows'[id].state = rows[id].state
            \/ (Exists(rows, id) /\ rows' = [rows EXCEPT ![id].state = next] /\ rows'[id].state = next
                /\ rows'[id].ref = rows[id].ref)
<1>1. rows \in Table /\ next # "NONE"
  BY DEF IInv, TableOK, States
<1>. QED  BY <1>1 DEF Exists, ClearTorBoxRefs, Table, Row

LEMMA GoesNext ==
  ASSUME IInv, NEW w \in Workers, job[w].at # "free", NEW step \in JobSteps \ {"free"},
         Goes(w, step), JobFrame
  PROVE  /\ w \in Busy /\ Busy' = Busy /\ \A v \in Busy : job'[v].row = job[v].row
         /\ job'[w].at = step /\ \A v \in Busy \ {w} : job'[v].at = job[v].at
         /\ UNCHANGED <<pass, todo, gate, boot, deleting, lastId>>
<1> DEFINE next == [job[w] EXCEPT !.at = step]
<1>1. job[w] \in Job /\ job \in [Workers -> Job]
  BY Working DEF IInv, JobsOK
<1>2. next \in Job /\ next.row = job[w].row /\ next.at = step
  BY <1>1 DEF Job
<1>3. job' = [job EXCEPT ![w] = next]
  BY <1>1 DEF Goes
<1>. QED  BY <1>2, <1>3, JobGoes

LEMMA CompletesStays ==
  ASSUME IInv, FInv, NEW w \in Workers, Completes(w)
  PROVE  FInv'
<1>0. /\ job[w].at = "complete" /\ JobFrame /\ Goes(w, "tidy") /\ rows' = MarkComplete(rows, Id(w))
      /\ Id(w) \in Ids /\ H(w) \in Hashes /\ w \in Busy
      /\ attempts' = [attempts EXCEPT ![H(w)] = 0] /\ DOMAIN attempts = Hashes
  BY Working DEF Completes, IInv, OthersOK
<1>1. /\ \A id \in Ids : /\ Exists(rows', id) <=> Exists(rows, id)
                         /\ rows'[id].hash = rows[id].hash
      /\ \A id \in Ids \ {Id(w)} : rows'[id] = rows[id]
  BY <1>0, RowWritten DEF MarkComplete, States
<1>2. Exists(rows, Id(w)) => rows'[Id(w)].state = "COMPLETE"
  BY <1>0 DEF MarkComplete, IInv, TableOK, Table, Row
<1>3. attempts'[H(w)] = 0 /\ \A h \in Hashes \ {H(w)} : attempts'[h] = attempts[h]
  BY <1>0
<1>4. job[w].row.ref # Null /\ Downloads(w) /\ "tidy" \in JobSteps \ {"free"}
  BY <1>0 DEF FInv, Begun, Downloads, JobSteps
<1>5. /\ Busy' = Busy /\ \A v \in Busy : job'[v].row = job[v].row
      /\ job'[w].at = "tidy" /\ \A v \in Busy \ {w} : job'[v].at = job[v].at
      /\ UNCHANGED <<pass, todo, gate, boot, deleting, lastId>>
  BY <1>0, <1>4, GoesNext
<1>6. ~Downloads(w)'
  BY <1>5 DEF Downloads
<1>. QED  BY <1>0, <1>1, <1>2, <1>3, <1>4, <1>5, <1>6, WorkerStep

LEMMA DropsRefStays ==
  ASSUME IInv, FInv, NEW w \in Workers, Tidies(w) \/ Fails(w)
  PROVE  FInv'
<1>0. /\ job[w].at \in {"tidy", "fail"} /\ JobFrame /\ UNCHANGED <<rows, retryVars>>
      /\ Id(w) \in Ids /\ w \in Busy
  BY Working DEF Tidies, Fails, DropsRef
<1>1. {"exit", "tidyClear", "failClear", "failMark"} \subseteq JobSteps \ {"free"} /\ ~Downloads(w)
  BY <1>0 DEF JobSteps, Downloads
<1>2. PICK to \in {"exit", "tidyClear", "failClear", "failMark"} :
        /\ Goes(w, to)
        /\ to \in {"failClear", "failMark"} <=> job[w].at = "fail"
  BY DEF Tidies, Fails, DropsRef
<1>3. job[w].at = "tidy" => job[w].row.ref # Null
  BY <1>0 DEF FInv, Begun
<1>4. /\ Busy' = Busy /\ \A v \in Busy : job'[v].row = job[v].row
      /\ job'[w].at = to /\ \A v \in Busy \ {w} : job'[v].at = job[v].at
      /\ UNCHANGED <<pass, todo, gate, boot, deleting, lastId>>
  BY <1>0, <1>1, <1>2, GoesNext
<1>5. ~Downloads(w)'
  BY <1>2, <1>4 DEF Downloads
<1>. QED  BY <1>0, <1>1, <1>2, <1>3, <1>4, <1>5, WorkerStep DEF retryVars, Exists

LEMMA ClearsRefStays ==
  ASSUME IInv, FInv, NEW w \in Workers, ClearsRef(w)
  PROVE  FInv'
<1>0. /\ job[w].at \in {"tidyClear", "failClear"} /\ JobFrame /\ UNCHANGED retryVars
      /\ Id(w) \in Ids /\ w \in Busy /\ rows' = ClearTorBoxRefs(rows, Id(w))
  BY Working DEF ClearsRef
<1>2. /\ \A id \in Ids : /\ Exists(rows', id) <=> Exists(rows, id)
                         /\ rows'[id].hash = rows[id].hash
      /\ \A id \in Ids \ {Id(w)} : rows'[id] = rows[id]
      /\ rows'[Id(w)].state = rows[Id(w)].state
  <2>1. rows \in Table
    BY DEF IInv, TableOK
  <2>. QED  BY <1>0, <2>1 DEF ClearTorBoxRefs, Exists, Table, Row
<1>3. {"exit", "failMark"} \subseteq JobSteps \ {"free"} /\ ~Downloads(w)
  BY <1>0 DEF JobSteps, Downloads
<1>4. job[w].at = "tidyClear" /\ Exists(rows, Id(w)) => rows[Id(w)].state = "COMPLETE"
  BY <1>0 DEF FInv, Begun
<1>5. PICK to \in {"exit", "failMark"} :
        /\ Goes(w, to)
        /\ to = "failMark" <=> job[w].at = "failClear"
  BY DEF ClearsRef
<1>6. /\ Busy' = Busy /\ \A v \in Busy : job'[v].row = job[v].row
      /\ job'[w].at = to /\ \A v \in Busy \ {w} : job'[v].at = job[v].at
      /\ UNCHANGED <<pass, todo, gate, boot, deleting, lastId>>
  BY <1>0, <1>3, <1>5, GoesNext
<1>7. ~Downloads(w)'
  BY <1>5, <1>6 DEF Downloads
<1>. QED  BY <1>0, <1>2, <1>3, <1>4, <1>5, <1>6, <1>7, WorkerStep DEF retryVars

LEMMA FailMarksStays ==
  ASSUME IInv, FInv, NEW w \in Workers, FailMarks(w)
  PROVE  FInv'
<1>0. /\ job[w].at = "failMark" /\ JobFrame /\ UNCHANGED retryVars /\ Goes(w, "exit")
      /\ Id(w) \in Ids /\ w \in Busy /\ rows' = MarkError(rows, Id(w))
  BY Working DEF FailMarks
<1>1. /\ \A id \in Ids : /\ Exists(rows', id) <=> Exists(rows, id)
                         /\ rows'[id].hash = rows[id].hash
      /\ \A id \in Ids \ {Id(w)} : rows'[id] = rows[id]
  BY <1>0, RowWritten DEF MarkError, States
<1>2. Exists(rows, Id(w)) => rows'[Id(w)].state = "ERROR"
  BY <1>0 DEF MarkError, IInv, TableOK, Table, Row
<1>3. "exit" \in JobSteps \ {"free"} /\ ~Downloads(w)
  BY <1>0 DEF JobSteps, Downloads
<1>4. /\ Busy' = Busy /\ \A v \in Busy : job'[v].row = job[v].row
      /\ job'[w].at = "exit" /\ \A v \in Busy \ {w} : job'[v].at = job[v].at
      /\ UNCHANGED <<pass, todo, gate, boot, deleting, lastId>>
  BY <1>0, <1>3, GoesNext
<1>5. ~Downloads(w)'
  BY <1>4 DEF Downloads
<1>. QED  BY <1>0, <1>1, <1>2, <1>3, <1>4, <1>5, WorkerStep DEF retryVars

LEMMA RetriesStays ==
  ASSUME IInv, FInv, NEW w \in Workers, Retries(w)
  PROVE  FInv'
<1>0. /\ job[w].at = "failed" /\ JobFrame /\ rows' = rows /\ H(w) \in Hashes /\ w \in Busy
      /\ Id(w) \in Ids /\ attempts \in [Hashes -> 0 .. MaxLocalAttempts - 1]
  BY Working DEF Retries, DiskFailed, LocalFailed, Waits, IInv, OthersOK
<1>1. PICK to \in {"exit", "fail"} : Goes(w, to) /\ (to = "fail" => attempts[H(w)] # 0)
  <2>1. CASE DiskFailed(w)
    BY <2>1 DEF DiskFailed, Waits
  <2>2. CASE LocalFailed(w)
    <3>1. CASE attempts[H(w)] + 1 < MaxLocalAttempts
      BY <2>2, <3>1 DEF LocalFailed, Waits
    <3>2. CASE ~(attempts[H(w)] + 1 < MaxLocalAttempts)
      <4>1. attempts[H(w)] # 0
        BY <1>0, <3>2, LocalDownloadAssumption
      <4>. QED  BY <2>2, <3>2, <4>1 DEF LocalFailed
    <3>. QED  BY <3>1, <3>2
  <2>. QED  BY <2>1, <2>2 DEF Retries
<1>2. \A h \in Hashes \ {H(w)} : attempts'[h] = attempts[h]
  BY <1>0 DEF Retries, DiskFailed, LocalFailed, Waits
<1>3. {"exit", "fail"} \subseteq JobSteps \ {"free"} /\ Downloads(w)
  BY <1>0 DEF JobSteps, Downloads
<1>4. /\ Busy' = Busy /\ \A v \in Busy : job'[v].row = job[v].row
      /\ job'[w].at = to /\ \A v \in Busy \ {w} : job'[v].at = job[v].at
      /\ UNCHANGED <<pass, todo, gate, boot, deleting, lastId>>
  BY <1>0, <1>1, <1>3, GoesNext
<1>5. ~Downloads(w)'
  BY <1>4 DEF Downloads
<1>. QED  BY <1>0, <1>1, <1>2, <1>3, <1>4, <1>5, WorkerStep DEF Exists

LEMMA EndsStays ==
  ASSUME IInv, FInv, NEW w \in Workers, Ends(w)
  PROVE  FInv'
<1>0. /\ job[w].at = "exit" /\ job' = [job EXCEPT ![w] = NoJob] /\ JobFrame
      /\ UNCHANGED <<rows, attempts>> /\ w \in Busy /\ job \in [Workers -> Job]
  BY Working DEF Ends, retryVars, IInv, JobsOK
<1>1. Busy' = Busy \ {w} /\ \A v \in Busy \ {w} : job'[v] = job[v]
  BY <1>0 DEF Busy
<1>2. UNCHANGED <<pass, todo, gate, boot, deleting, lastId>>
  BY <1>0 DEF JobFrame, passVars, tableVars
<1>3. /\ Ahead' = Ahead /\ \A v \in Busy' : Id(v)' = Id(v) /\ H(v)' = H(v) /\ (Downloads(v)' <=> Downloads(v))
      /\ \A id \in Ids : Undeleted(id)' <=> Undeleted(id)
      /\ ~Downloads(w)
  BY <1>0, <1>1, <1>2 DEF Ahead, Id, H, Downloads, Undeleted
<1>4. Recovered' /\ Listed' /\ Begun' /\ Doomed'
  BY <1>0, <1>1, <1>2, <1>3 DEF FInv, Recovered, Listed, Begun, Doomed
<1>5. Cleared'
  BY <1>0, <1>1, <1>2, <1>3 DEF FInv, Cleared
<1>6. Requeued' /\ SameRow'
  BY <1>0, <1>1, <1>2, <1>3, Apart DEF FInv, Requeued, SameRow, Ahead
<1>7. Pairs' /\ OnceMore'
  BY <1>0, <1>1, <1>2, <1>3, Apart DEF FInv, Pairs, OnceMore
<1>8. Settled'
  BY <1>0, <1>1, <1>2, <1>3 DEF FInv, Settled
<1>. QED  BY <1>4, <1>5, <1>6, <1>7, <1>8 DEF FInv

LEMMA DownloadStays ==
  ASSUME IInv, FInv, NEW w \in Workers, Download(w)
  PROVE  FInv'
BY BetweenStays, BeginsStays, CompletesStays, DropsRefStays, ClearsRefStays, FailMarksStays,
   RetriesStays, EndsStays
   DEF Download

-----------------------------------------------------------------------------
(* The pass. *)

(* The pass has done with a row, or goes to look at the disk for it. *)
LEMMA AheadShrinks ==
  ASSUME IInv, FInv, UNCHANGED <<rows, job, attempts, deleting, boot, lastId>>,
         pass \in {"each", "disk"}, pass' \in {"idle", "each", "disk"},
         pass' = "idle" => todo' = {}, Ahead' \subseteq Ahead, todo' \subseteq todo,
         pass' = "disk" =>
           /\ gate' \notin todo'
           /\ \A t \in todo' : t.hash = gate'.hash => gate'.state = "LOCAL_DOWNLOAD"
  PROVE  FInv'
<1>1. /\ Busy' = Busy /\ \A w \in Busy : Id(w)' = Id(w) /\ H(w)' = H(w) /\ (Downloads(w)' <=> Downloads(w))
      /\ \A id \in Ids : Undeleted(id)' <=> Undeleted(id)
  BY DEF Busy, Id, H, Downloads, Undeleted
<1>2. Recovered' /\ Listed' /\ Begun' /\ Doomed'
  BY <1>1 DEF FInv, Recovered, Listed, Begun, Doomed, Id
<1>3. Cleared'
  BY <1>1 DEF FInv, Cleared
<1>4. Requeued' /\ SameRow'
  BY DEF Requeued, SameRow
<1>5. Pairs' /\ OnceMore'
  BY <1>1, Apart DEF FInv, Pairs, OnceMore
<1>6. Settled'
  BY <1>1 DEF FInv, Settled
<1>. QED  BY <1>2, <1>3, <1>4, <1>5, <1>6 DEF FInv

LEMMA PassesOverStays ==
  ASSUME IInv, FInv, NEW t \in todo, PassesOver(t)
  PROVE  FInv'
<1>1. /\ pass = "each" /\ todo' = todo \ {t} /\ pass' = Onward
      /\ UNCHANGED <<rows, gate, job, attempts, deleting, boot, lastId>>
  BY DEF PassesOver, Reaches, PassFrame, retryVars, tableVars
<1>2. pass' \in {"idle", "each"} /\ (pass' = "idle" => todo' = {})
  BY <1>1 DEF Onward
<1>. QED  BY <1>1, <1>2, AheadShrinks DEF Ahead

LEMMA ConsidersStays ==
  ASSUME IInv, FInv, NEW t \in todo, Considers(t)
  PROVE  FInv'
<1>1. /\ pass = "each" /\ todo' = todo \ {t} /\ pass' = "disk" /\ gate' = t
      /\ \A other \in todo : ~Before(other, t)
      /\ UNCHANGED <<rows, job, attempts, deleting, boot, lastId>>
  BY DEF Considers, Reaches, PassFrame, retryVars, tableVars
<1>2. Ahead = todo /\ Ahead' = todo
  BY <1>1 DEF Ahead
<1>3. ASSUME NEW u \in todo', u.hash = t.hash
      PROVE  t.state = "LOCAL_DOWNLOAD"
  <2>1. u \in todo /\ u # t /\ t.state \in Local /\ u.state \in Local
    BY <1>1, <1>2, <1>3 DEF FInv, Listed
  <2>2. u.state # t.state
    BY <1>2, <1>3, <2>1 DEF FInv, Listed
  <2>. QED  BY <1>1, <2>1, <2>2 DEF Before, Local
<1>. QED  BY <1>1, <1>2, <1>3, AheadShrinks

LEMMA WaitsForDiskStays ==
  ASSUME IInv, FInv, WaitsForDisk
  PROVE  FInv'
<1>1. /\ pass = "disk" /\ todo' = todo /\ pass' = Onward
      /\ UNCHANGED <<rows, job, attempts, deleting, boot, lastId>>
  BY DEF WaitsForDisk, PassesGate, PassFrame, retryVars, tableVars
<1>2. pass' \in {"idle", "each"} /\ (pass' = "idle" => todo' = {})
  BY <1>1 DEF Onward
<1>. QED  BY <1>1, <1>2, AheadShrinks DEF Ahead

LEMMA ListsResumingStays ==
  ASSUME IInv, FInv, ListsResuming
  PROVE  FInv'
<1>1. /\ pass = "idle" /\ boot = {} /\ pass' = "queued"
      /\ todo' = AsListed(ListByState(rows, "LOCAL_DOWNLOAD"))
      /\ UNCHANGED <<rows, job, attempts, deleting, boot, lastId>>
  BY DEF ListsResuming, PassFrame, retryVars, tableVars
<1>2. Ahead = {} /\ Ahead' = todo'
  BY <1>1 DEF Ahead, FInv, Recovered
<1>3. \A t \in todo' : /\ t.id \in Ids /\ Exists(rows, t.id) /\ rows[t.id].state = "LOCAL_DOWNLOAD"
                       /\ t.state = "LOCAL_DOWNLOAD" /\ t.hash = rows[t.id].hash
                       /\ t.ref = rows[t.id].ref
  BY <1>1 DEF AsListed, ListByState, InState, Exists
<1>4. \A t, u \in todo' : t.hash = u.hash => t = u
  <2> SUFFICES ASSUME NEW t \in todo', NEW u \in todo', t.hash = u.hash
               PROVE  t = u
    OBVIOUS
  <2>1. t.id = u.id
    BY <1>3, Apart
  <2>. QED  BY <1>1, <2>1 DEF AsListed
<1>5. /\ Busy' = Busy /\ \A w \in Busy : Id(w)' = Id(w) /\ H(w)' = H(w) /\ (Downloads(w)' <=> Downloads(w))
      /\ \A id \in Ids : Undeleted(id)' <=> Undeleted(id)
  BY <1>1 DEF Busy, Id, H, Downloads, Undeleted
<1>6. Recovered' /\ Listed' /\ Begun' /\ Doomed'
  BY <1>1, <1>2, <1>3, <1>4, <1>5 DEF FInv, Recovered, Listed, Begun, Doomed, Local
<1>7. Cleared'
  BY <1>1, <1>2, <1>3, <1>5 DEF FInv, Cleared
<1>8. Requeued' /\ SameRow' /\ Pairs'
  BY <1>1, <1>2, <1>3, <1>5, Apart DEF Requeued, SameRow, Pairs
<1>9. OnceMore'
  <2> SUFFICES ASSUME NEW w \in Busy, Downloads(w), Undeleted(Id(w)), job[w].row.ref # Null,
                      NEW t \in todo', t.id = Id(w)
               PROVE  t.ref # Null
    BY <1>1, <1>4, <1>5, Apart DEF OnceMore
  <2>1. Exists(rows, Id(w)) /\ rows[Id(w)].state \in Local /\ Id(w) \in Ids
    BY <1>3, Apart DEF Local
  <2>2. \A v \in Busy : Id(v) = Id(w) => job[v].at # "failMark"
    BY <2>1, Apart DEF Downloads
  <2>3. rows[Id(w)].ref # Null
    BY <2>1, <2>2 DEF FInv, Cleared
  <2>. QED  BY <1>3, <2>3
<1>10. Settled'
  <2>1. \A id \in Ids : Undeleted(id) /\ rows[id].state = "COMPLETE" =>
           \A t \in Ahead' : t.hash # rows[id].hash
    BY <1>2, <1>3, Apart DEF Undeleted
  <2>. QED  BY <1>1, <1>5, <2>1 DEF FInv, Settled
<1>. QED  BY <1>6, <1>7, <1>8, <1>9, <1>10 DEF FInv

LEMMA ListsQueuedStays ==
  ASSUME IInv, FInv, ListsQueued
  PROVE  FInv'
<1> DEFINE listed == AsListed(ListByState(rows, "LOCAL_QUEUED"))
<1>1. /\ pass = "queued" /\ todo' = todo \cup listed /\ pass' = Onward
      /\ UNCHANGED <<rows, job, attempts, deleting, boot, lastId>>
  BY DEF ListsQueued, PassFrame, retryVars, tableVars
<1>2. /\ Ahead = todo /\ Ahead' = todo \cup listed /\ boot = {}
      /\ pass' \in {"idle", "each"} /\ (pass' = "idle" => todo' = {})
      /\ \A t \in todo : t.state = "LOCAL_DOWNLOAD"
  BY <1>1 DEF Ahead, FInv, Recovered, Listed, Onward
<1>3. \A t \in listed : /\ t.id \in Ids /\ Exists(rows, t.id) /\ rows[t.id].state = "LOCAL_QUEUED"
                        /\ t.state = "LOCAL_QUEUED" /\ t.hash = rows[t.id].hash
                        /\ t.ref = rows[t.id].ref
  BY DEF AsListed, ListByState, InState, Exists
<1>4. \A t, u \in listed : t.hash = u.hash => t = u
  <2> SUFFICES ASSUME NEW t \in listed, NEW u \in listed, t.hash = u.hash
               PROVE  t = u
    OBVIOUS
  <2>1. t.id = u.id
    BY <1>3, Apart
  <2>. QED  BY <2>1 DEF AsListed
<1>5. /\ Busy' = Busy /\ \A w \in Busy : Id(w)' = Id(w) /\ H(w)' = H(w) /\ (Downloads(w)' <=> Downloads(w))
      /\ \A id \in Ids : Undeleted(id)' <=> Undeleted(id)
  BY <1>1 DEF Busy, Id, H, Downloads, Undeleted
<1> HIDE DEF listed
<1>6. Listed'
  <2>1. \A t, u \in Ahead' : t.hash = u.hash /\ t.state = u.state => t = u
    BY <1>2, <1>3, <1>4 DEF FInv, Listed
  <2>. QED  BY <1>2, <1>3, <2>1 DEF Listed, Local
<1>7. Recovered' /\ Begun' /\ Doomed'
  BY <1>1, <1>2, <1>5 DEF FInv, Recovered, Begun, Doomed
<1>8. Cleared'
  BY <1>1, <1>2, <1>3, <1>5 DEF FInv, Cleared
<1>9. Requeued' /\ SameRow'
  BY <1>2 DEF Requeued, SameRow
<1>10. Pairs'
  <2> SUFFICES ASSUME NEW g \in Ahead', NEW t \in Ahead', g.id = t.id, g.state = "LOCAL_DOWNLOAD",
                      t.state = "LOCAL_QUEUED", Undeleted(t.id)
               PROVE  t.ref # Null
    BY <1>1, <1>2, <1>3, <1>5, Apart DEF Pairs
  <2>1. g \in todo /\ t \in listed
    BY <1>2, <1>3
  <2>2. rows[g.id].state = "LOCAL_QUEUED" /\ t.ref = rows[g.id].ref
    BY <1>3, <2>1
  <2>. QED  BY <1>1, <2>1, <2>2 DEF FInv, Requeued
<1>11. OnceMore'
  <2> SUFFICES ASSUME NEW w \in Busy, Downloads(w), Exists(rows, Id(w))
               PROVE  /\ \A t, u \in todo' : t.hash = H(w) /\ u.hash = H(w) => t = u
                      /\ Undeleted(Id(w)) /\ job[w].row.ref # Null
                           => \A t \in todo' : t.id = Id(w) => t.ref # Null
    BY <1>1, <1>5, Apart DEF OnceMore
  <2>1. /\ Id(w) \in Ids /\ rows[Id(w)].hash = H(w) /\ job[w].at \notin {"exit", "failMark"}
        /\ \A v \in Busy : Id(v) = Id(w) => v = w
    BY Apart DEF Downloads
  <2>2. ASSUME NEW t \in todo, NEW u \in listed, t.hash = H(w), u.hash = H(w)
        PROVE  FALSE
    <3>1. t.id = Id(w) /\ u.id = Id(w)
      BY <1>1, <1>3, <2>1, <2>2, Apart DEF FInv, SameRow
    <3>2. rows[t.id].state = "LOCAL_QUEUED"
      BY <1>3, <3>1
    <3>. QED  BY <1>1, <2>1, <3>1, <3>2 DEF FInv, Requeued
  <2>3. \A t, u \in todo' : t.hash = H(w) /\ u.hash = H(w) => t = u
    BY <1>1, <1>4, <2>2 DEF FInv, OnceMore
  <2>4. ASSUME Undeleted(Id(w)), job[w].row.ref # Null, NEW t \in todo', t.id = Id(w)
        PROVE  t.ref # Null
    <3>1. CASE t \in todo
      BY <2>4, <3>1 DEF FInv, OnceMore
    <3>2. CASE t \in listed
      <4>1. rows[Id(w)].state \in Local
        BY <1>3, <2>4, <3>2 DEF Local
      <4>2. rows[Id(w)].ref # Null
        BY <2>1, <2>4, <4>1 DEF FInv, Cleared
      <4>. QED  BY <1>3, <2>4, <3>2, <4>2
    <3>. QED  BY <1>1, <3>1, <3>2
  <2>. QED  BY <2>3, <2>4
<1>12. Settled'
  <2>1. \A id \in Ids : Undeleted(id) /\ rows[id].state = "COMPLETE" =>
           \A t \in Ahead' : t.hash = rows[id].hash => t \in Ahead
    BY <1>2, <1>3, Apart DEF Undeleted
  <2>. QED  BY <1>1, <1>5, <2>1 DEF FInv, Settled
<1>. QED  BY <1>6, <1>7, <1>8, <1>9, <1>10, <1>11, <1>12 DEF FInv

LEMMA StartsStays ==
  ASSUME IInv, FInv, NEW h \in Hashes, Starts(h)
  PROVE  FInv'
<1>1. /\ pass = "disk" /\ todo' = todo /\ pass' = Onward
      /\ UNCHANGED <<rows, attempts, deleting, boot, lastId>>
  BY DEF Starts, PassesGate, PassFrame, retryVars, tableVars
<1>2. PICK w \in Workers :
        /\ job[w] = NoJob
        /\ job' = [job EXCEPT ![w] = [row |-> gate, at |-> "start", stop |-> FALSE,
                                      link |-> FALSE, left |-> {}]]
  BY DEF Starts
<1>3. job \in [Workers -> Job] /\ gate \in Ahead /\ Ahead' = todo /\ todo \subseteq Ahead /\ boot = {}
      /\ pass' \in {"idle", "each"} /\ (pass' = "idle" => todo' = {})
  BY <1>1 DEF IInv, JobsOK, Ahead, FInv, Recovered, Onward
<1>4. /\ w \notin Busy /\ Busy' = Busy \cup {w} /\ \A v \in Busy : job'[v] = job[v]
      /\ job'[w].row = gate /\ job'[w].at = "start" /\ Downloads(w)'
  BY <1>2, <1>3 DEF Busy, NoJob, Downloads
<1>5. /\ \A v \in Busy : Id(v)' = Id(v) /\ H(v)' = H(v) /\ (Downloads(v)' <=> Downloads(v))
      /\ Id(w)' = gate.id /\ H(w)' = gate.hash
      /\ \A id \in Ids : Undeleted(id)' <=> Undeleted(id)
  BY <1>1, <1>4 DEF Id, H, Downloads, Undeleted
<1>6. /\ gate \notin todo /\ \A t \in todo : t.hash = gate.hash => gate.state = "LOCAL_DOWNLOAD"
      /\ gate.id \in Ids /\ (Exists(rows, gate.id) => rows[gate.id].hash = gate.hash)
  BY <1>1, <1>3, Apart DEF FInv, Listed
<1>7. Recovered' /\ Listed' /\ Doomed'
  BY <1>1, <1>3 DEF FInv, Recovered, Listed, Doomed
<1>8. Begun'
  BY <1>1, <1>4, <1>5 DEF FInv, Begun
<1>9. Cleared'
  BY <1>1, <1>3, <1>4, <1>5 DEF FInv, Cleared
<1>10. Requeued' /\ SameRow'
  BY <1>3 DEF Requeued, SameRow
<1>11. Pairs'
  BY <1>1, <1>3, <1>5, Apart DEF FInv, Pairs
<1>12. OnceMore'
  <2>1. ASSUME NEW t \in todo, t.hash = gate.hash
        PROVE  gate.state = "LOCAL_DOWNLOAD" /\ t.state = "LOCAL_QUEUED"
    <3>1. gate.state = "LOCAL_DOWNLOAD" /\ t.state \in Local
      BY <1>3, <1>6, <2>1 DEF FInv, Listed
    <3>2. t.state # gate.state
      BY <1>3, <1>6, <2>1 DEF FInv, Listed
    <3>. QED  BY <3>1, <3>2 DEF Local
  <2>2. \A t, u \in todo : t.hash = gate.hash /\ u.hash = gate.hash => t = u
    BY <1>3, <2>1 DEF FInv, Listed
  <2>3. ASSUME Undeleted(gate.id), NEW t \in todo, t.id = gate.id
        PROVE  t.ref # Null
    <3>1. t.hash = gate.hash
      BY <1>3, <1>6, <2>3, Apart DEF Undeleted
    <3>. QED  BY <1>3, <2>1, <2>3, <3>1 DEF FInv, Pairs
  <2>. QED  BY <1>1, <1>3, <1>4, <1>5, <1>6, <2>2, <2>3, Apart DEF FInv, OnceMore
<1>13. Settled'
  <2> SUFFICES ASSUME NEW id \in Ids, Undeleted(id), rows[id].state = "COMPLETE"
               PROVE  /\ \A t, u \in todo : t.hash = rows[id].hash /\ u.hash = rows[id].hash => t = u
                      /\ \A t \in todo : t.hash = rows[id].hash =>
                           /\ t.id = id => t.ref # Null
                           /\ attempts[rows[id].hash] = 0
                           /\ \A v \in Busy' : H(v)' = rows[id].hash => ~Downloads(v)'
                      /\ \A v \in Busy' : H(v)' = rows[id].hash /\ Downloads(v)'
                           => attempts[rows[id].hash] = 0
                      /\ \A v \in Busy' : Id(v)' = id =>
                           /\ job'[v].at \notin {"fail", "failClear", "failMark"}
                           /\ job'[v].at = "start" => job'[v].row.ref # Null
    BY <1>1, <1>3, <1>5 DEF Settled
  <2>1. /\ \A t, u \in Ahead : t.hash = rows[id].hash /\ u.hash = rows[id].hash => t = u
        /\ \A t \in Ahead : t.hash = rows[id].hash =>
             /\ t.id = id => t.ref # Null
             /\ attempts[rows[id].hash] = 0
             /\ \A v \in Busy : H(v) = rows[id].hash => ~Downloads(v)
        /\ \A v \in Busy : H(v) = rows[id].hash /\ Downloads(v) => attempts[rows[id].hash] = 0
        /\ \A v \in Busy : Id(v) = id =>
             /\ job[v].at \notin {"fail", "failClear", "failMark"}
             /\ job[v].at = "start" => job[v].row.ref # Null
    BY DEF FInv, Settled
  <2>2. \A t \in todo : t.hash = rows[id].hash => gate.hash # rows[id].hash
    BY <1>3, <1>6, <2>1
  <2>3. gate.hash = rows[id].hash => attempts[rows[id].hash] = 0
    BY <1>3, <2>1
  <2>4. gate.id = id => gate.ref # Null
    BY <1>3, <1>6, <2>1 DEF Undeleted
  <2>. QED  BY <1>3, <1>4, <1>5, <2>1, <2>2, <2>3, <2>4
<1>. QED  BY <1>7, <1>8, <1>9, <1>10, <1>11, <1>12, <1>13 DEF FInv

LEMMA DownloadPassStays ==
  ASSUME IInv, FInv, DownloadPass
  PROVE  FInv'
BY ListsResumingStays, ListsQueuedStays, WaitsForDiskStays, PassesOverStays, ConsidersStays, StartsStays
   DEF DownloadPass

-----------------------------------------------------------------------------
(* The requests, and startup. *)

(* A step that takes rows away, starts or ends a delete, or does neither: what *)
(* is left untouched by a delete is as it was.                                 *)
LEMMA BesideStays ==
  ASSUME IInv, FInv, UNCHANGED <<pass, todo, gate, boot>>, Busy' = Busy,
         \A w \in Busy : job'[w].row = job[w].row /\ job'[w].at = job[w].at,
         \A id \in Ids : Exists(rows', id) =>
           rows'[id].state = rows[id].state /\ rows'[id].hash = rows[id].hash,
         \A id \in Ids : Undeleted(id)' =>
           /\ Undeleted(id) /\ rows'[id] = rows[id]
           /\ attempts'[rows[id].hash] = attempts[rows[id].hash],
         Doomed'
  PROVE  FInv'
<1>1. /\ Ahead' = Ahead /\ todo \subseteq Ahead
      /\ \A w \in Busy : Id(w)' = Id(w) /\ H(w)' = H(w) /\ (Downloads(w)' <=> Downloads(w))
      /\ \A id \in Ids : Exists(rows', id) => Exists(rows, id)
  BY DEF Ahead, Id, H, Downloads, Exists
<1>2. Recovered' /\ Listed' /\ Begun'
  BY <1>1, Apart DEF FInv, Recovered, Listed, Begun
<1>3. Cleared'
  BY <1>1 DEF FInv, Cleared
<1>4. Requeued'
  <2> SUFFICES ASSUME pass = "queued", NEW t \in todo, rows'[t.id].state \in {"ERROR", "LOCAL_QUEUED"}
               PROVE  /\ \A w \in Busy : Id(w) = t.id => job[w].at = "exit"
                      /\ rows'[t.id].state = "LOCAL_QUEUED" /\ Undeleted(t.id)' => rows'[t.id].ref # Null
    BY <1>1 DEF Requeued
  <2>1. t.id \in Ids /\ Exists(rows', t.id)
    BY <1>1, Apart DEF Exists
  <2>. QED  BY <2>1 DEF FInv, Requeued
<1>5. SameRow' /\ Pairs'
  BY <1>1, Apart DEF FInv, SameRow, Pairs
<1>6. OnceMore'
  BY <1>1, Apart DEF FInv, OnceMore
<1>7. Settled'
  BY <1>1 DEF FInv, Settled
<1>. QED  BY <1>2, <1>3, <1>4, <1>5, <1>6, <1>7 DEF FInv

(* Before the first pass nothing is listed and no goroutine runs. *)
LEMMA NothingRuns ==
  ASSUME pass = "idle", todo = {}, Busy = {}, Doomed
  PROVE  FInv
BY DEF FInv, Recovered, Listed, Begun, Cleared, Requeued, SameRow, Pairs, OnceMore, Settled, Ahead

LEMMA InitStays ==
  ASSUME Init
  PROVE  FInv
<1>1. Busy = {} /\ Doomed
  BY DEF Init, Busy, Doomed, NoDelete
<1>. QED  BY <1>1, NothingRuns DEF Init

LEMMA CrashStays ==
  ASSUME Crash
  PROVE  FInv'
<1>1. pass' = "idle" /\ todo' = {} /\ Busy' = {} /\ Doomed'
  BY DEF Crash, Busy, Doomed, NoDelete
<1>. QED
  BY <1>1 DEF FInv, Recovered, Listed, Begun, Cleared, Requeued, SameRow, Pairs, OnceMore,
              Settled, Ahead

LEMMA RecoversStays ==
  ASSUME IInv, FInv, NEW id \in Ids, Recovers(id)
  PROVE  FInv'
<1>1. /\ pass = "idle" /\ todo = {} /\ Busy = {}
      /\ UNCHANGED <<pass, todo, job, deleting, lastId>>
      /\ (rows' = rows \/ rows' = MarkComplete(rows, id))
  BY DEF FInv, Recovered, Recovers, tableVars
<1>2. Busy' = {}
  BY <1>1 DEF Busy
<1>3. \A other \in Ids : (Exists(rows', other) => Exists(rows, other)) /\ rows'[other].hash = rows[other].hash
  BY <1>1 DEF MarkComplete, Exists, IInv, TableOK, Table, Row
<1>4. Doomed'
  BY <1>1, <1>3 DEF FInv, Doomed, IInv, DeletesOK
<1>. QED
  BY <1>1, <1>2, <1>4 DEF FInv, Recovered, Listed, Begun, Cleared, Requeued, SameRow, Pairs,
                          OnceMore, Settled, Ahead

LEMMA ArrivesStays ==
  ASSUME IInv, FInv, NEW h \in Hashes, Arrives(h)
  PROVE  FInv'
<1>1. /\ UNCHANGED <<pass, todo, gate, boot, job, attempts, deleting>>
      /\ lastId' \in Nat /\ lastId <= lastId'
  BY Apart DEF Arrives, passVars, retryVars, NextRowId, Ids
<1>2. PICK r \in Ids :
        /\ rows' = [rows EXCEPT ![r] = Ready(h)]
        /\ \/ r = lastId + 1
           \/ rows[r].state = "ERROR" /\ rows[r].hash = h
  BY DEF Arrives, NextRowId, RowsOf
<1>3. /\ \A id \in Ids \ {r} : rows'[id] = rows[id]
      /\ rows'[r].state = "LOCAL_QUEUED" /\ rows'[r].ref # Null /\ rows'[r].hash = h
  BY <1>2 DEF Ready, Null, IInv, TableOK, Table
<1>4. \A id \in Ids : id <= lastId =>
        /\ Exists(rows', id) <=> Exists(rows, id)
        /\ rows'[id].hash = rows[id].hash
        /\ rows'[id] = rows[id] \/ (id = r /\ rows[id].state = "ERROR")
        /\ Undeleted(id)' <=> Undeleted(id)
  <2> SUFFICES ASSUME NEW id \in Ids, id <= lastId
               PROVE  /\ Exists(rows', id) <=> Exists(rows, id)
                      /\ rows'[id].hash = rows[id].hash
                      /\ rows'[id] = rows[id] \/ (id = r /\ rows[id].state = "ERROR")
    BY <1>1 DEF Undeleted
  <2>1. CASE id # r
    BY <1>3, <2>1 DEF Exists
  <2>2. CASE id = r
    <3>1. r # lastId + 1
      BY <2>2, Apart DEF Ids
    <3>. QED  BY <1>2, <1>3, <2>2, <3>1 DEF Exists
  <2>. QED  BY <2>1, <2>2
<1>5. /\ Ahead' = Ahead /\ todo \subseteq Ahead /\ Busy' = Busy
      /\ \A w \in Busy : Id(w)' = Id(w) /\ H(w)' = H(w) /\ (Downloads(w)' <=> Downloads(w))
  BY <1>1 DEF Ahead, Busy, Id, H, Downloads
<1>6. Recovered' /\ Listed'
  BY <1>1, <1>5 DEF FInv, Recovered, Listed
<1>7. Begun'
  BY <1>1, <1>4, <1>5, Apart DEF FInv, Begun
<1>8. Doomed'
  <2> SUFFICES ASSUME NEW g \in Hashes, deleting[g].at \notin {"none", "read"}
               PROVE  /\ deleting[g].id <= lastId'
                      /\ Exists(rows', deleting[g].id) => rows'[deleting[g].id].hash = g
    BY <1>1 DEF Doomed
  <2>1. deleting[g].id \in Ids /\ deleting[g].id <= lastId
    BY DEF IInv, DeletesOK, FInv, Doomed
  <2>2. deleting[g].id <= lastId'
    BY <1>1, <2>1, Apart DEF Ids
  <2>. QED  BY <1>4, <2>1, <2>2 DEF FInv, Doomed
<1>9. \A id \in Ids : id # r => rows'[id] = rows[id] /\ (Undeleted(id)' <=> Undeleted(id))
  BY <1>1, <1>3 DEF Undeleted, Exists
<1>10. Cleared'
  BY <1>1, <1>3, <1>5, <1>9 DEF FInv, Cleared
<1>11. Requeued'
  <2> SUFFICES ASSUME pass = "queued", NEW t \in todo, rows'[t.id].state \in {"ERROR", "LOCAL_QUEUED"}
               PROVE  /\ \A w \in Busy : Id(w) = t.id => job[w].at = "exit"
                      /\ rows'[t.id].state = "LOCAL_QUEUED" /\ Undeleted(t.id)' => rows'[t.id].ref # Null
    BY <1>1, <1>5 DEF Requeued
  <2>1. t.id \in Ids /\ t.id <= lastId
    BY <1>5, Apart
  <2>2. rows[t.id].state \in {"ERROR", "LOCAL_QUEUED"} /\ (Undeleted(t.id)' => Undeleted(t.id))
    BY <1>4, <2>1
  <2>3. rows'[t.id] = rows[t.id] \/ t.id = r
    BY <1>4, <2>1
  <2>. QED  BY <1>3, <2>2, <2>3 DEF FInv, Requeued
<1>12. SameRow' /\ Pairs'
  BY <1>1, <1>4, <1>5, Apart DEF FInv, SameRow, Pairs
<1>13. OnceMore'
  BY <1>1, <1>4, <1>5, Apart DEF FInv, OnceMore
<1>14. Settled'
  BY <1>1, <1>3, <1>5, <1>9 DEF FInv, Settled
<1>. QED  BY <1>6, <1>7, <1>8, <1>10, <1>11, <1>12, <1>13, <1>14 DEF FInv

LEMMA BackoffElapsesStays ==
  ASSUME IInv, FInv, NEW h \in Hashes, BackoffElapses(h)
  PROVE  FInv'
<1>1. UNCHANGED <<rows, lastId, pass, todo, gate, boot, job, attempts, deleting>>
  BY DEF BackoffElapses, tableVars, passVars
<1>2. Busy' = Busy /\ Doomed' /\ \A id \in Ids : Undeleted(id)' <=> Undeleted(id)
  BY <1>1 DEF Busy, FInv, Doomed, Undeleted
<1>. QED  BY <1>1, <1>2, BesideStays

LEMMA DeleteCancelsStays ==
  ASSUME IInv, FInv, NEW h \in Hashes, DeleteCancels(h)
  PROVE  FInv'
<1>1. /\ UNCHANGED <<rows, lastId, pass, todo, gate, boot>>
      /\ deleting' = [deleting EXCEPT ![h].at = "read"]
      /\ attempts' = [attempts EXCEPT ![h] = 0]
      /\ DOMAIN attempts = Hashes /\ deleting \in [Hashes -> Deleting]
      /\ job \in [Workers -> Job]
  BY DEF DeleteCancels, DeleteFrame, Deletes, passVars, tableVars, IInv, OthersOK, DeletesOK, JobsOK
<1>2. \A w \in Workers : job'[w] = IF H(w) = h /\ h \in registered
                                     THEN [job[w] EXCEPT !.stop = TRUE] ELSE job[w]
  BY DEF DeleteCancels
<1>3. \A w \in Workers : job'[w].row = job[w].row /\ job'[w].at = job[w].at
  BY <1>1, <1>2 DEF Job
<1>4. Busy' = Busy
  <2> SUFFICES ASSUME NEW w \in Workers
               PROVE  job'[w] = NoJob <=> job[w] = NoJob
    BY DEF Busy
  <2>1. ASSUME job[w] = NoJob
        PROVE  job'[w] = NoJob
    <3>1. H(w) # h
      BY <2>1, StoreAssumption DEF H, NoJob, NoRead
    <3>. QED  BY <1>2, <2>1, <3>1
  <2>2. ASSUME job'[w] = NoJob
        PROVE  job[w] = NoJob
    <3>1. job[w].at = "free"
      BY <1>3, <2>2 DEF NoJob
    <3>. QED  BY <3>1, Apart DEF Busy
  <2>. QED  BY <2>1, <2>2
<1>5. /\ deleting'[h].at = "read" /\ \A g \in Hashes \ {h} : deleting'[g] = deleting[g]
      /\ \A g \in Hashes \ {h} : attempts'[g] = attempts[g]
  BY <1>1 DEF Deleting
<1>6. \A id \in Ids : Undeleted(id)' =>
        Undeleted(id) /\ attempts'[rows[id].hash] = attempts[rows[id].hash]
  BY <1>1, <1>5, Apart DEF Undeleted
<1>7. Doomed'
  BY <1>1, <1>5 DEF FInv, Doomed
<1>. QED  BY <1>1, <1>3, <1>4, <1>6, <1>7, BesideStays, Apart

(* A delete that has begun: it writes to the rows of its release. *)
LEMMA DeleteGoesOnStays ==
  ASSUME IInv, FInv, NEW h \in Hashes, DeleteGoesOn(h)
  PROVE  FInv'
<1>1. /\ UNCHANGED <<lastId, pass, todo, gate, boot, job, attempts>>
      /\ deleting \in [Hashes -> Deleting] /\ rows \in Table
  BY DEF DeleteGoesOn, DeleteReads, DeleteAtTorBox, DeleteClearsRef, DeleteKeepsFiles,
         DeleteStaging, DeleteContent, DeleteDrops, DeleteFrame, retryVars, passVars, tableVars, IInv, DeletesOK, TableOK
<1>2. Busy' = Busy
  BY <1>1 DEF Busy
<1>3. \A g \in Hashes \ {h} : deleting'[g] = deleting[g]
  BY <1>1 DEF DeleteGoesOn, DeleteReads, DeleteAtTorBox, DeleteClearsRef, DeleteKeepsFiles,
              DeleteStaging, DeleteContent, DeleteDrops, Deletes
<1> DEFINE Kept ==
      /\ \A id \in Ids : Exists(rows', id) =>
           rows'[id].state = rows[id].state /\ rows'[id].hash = rows[id].hash
      /\ \A id \in Ids : rows[id].hash # h => rows'[id] = rows[id]
      /\ deleting'[h].at = "none" => RowsOf(rows', h) = {}
      /\ deleting[h].at # "none"
      /\ deleting'[h].at \notin {"none", "read"} =>
           /\ deleting'[h].id \in Ids /\ deleting'[h].id <= lastId
           /\ Exists(rows, deleting'[h].id) => rows[deleting'[h].id].hash = h
<1>4. ASSUME DeleteReads(h)
      PROVE  Kept
  <2>1. rows' = rows /\ deleting[h].at = "read"
    BY <1>4 DEF DeleteReads
  <2>2. CASE RowsOf(rows, h) = {}
    <3>1. deleting'[h].at = "none"
      BY <1>1, <1>4, <2>2 DEF DeleteReads, NoDelete
    <3>. QED  BY <2>1, <2>2, <3>1
  <2>3. CASE RowsOf(rows, h) # {}
    <3>1. PICK id \in RowsOf(rows, h) : deleting'[h].at = "torbox" /\ deleting'[h].id = id
      BY <1>1, <1>4, <2>3 DEF DeleteReads
    <3>. QED  BY <2>1, <3>1, Apart DEF RowsOf
  <2>. QED  BY <2>2, <2>3
<1>5. ASSUME DeleteClearsRef(h)
      PROVE  Kept
  <2>1. /\ deleting[h].at = "unref" /\ deleting'[h].at = "files"
        /\ deleting'[h].id = deleting[h].id
        /\ rows' = ClearTorBoxRefs(rows, deleting[h].id)
    BY <1>1, <1>5 DEF DeleteClearsRef, Deletes, Deleting
  <2>2. /\ deleting[h].id \in Ids /\ deleting[h].id <= lastId
        /\ Exists(rows, deleting[h].id) => rows[deleting[h].id].hash = h
    BY <2>1 DEF IInv, DeletesOK, FInv, Doomed
  <2>3. /\ \A id \in Ids : Exists(rows', id) =>
             rows'[id].state = rows[id].state /\ rows'[id].hash = rows[id].hash
        /\ \A id \in Ids : rows[id].hash # h => rows'[id] = rows[id]
    BY <1>1, <2>1, <2>2 DEF ClearTorBoxRefs, Exists, Table, Row
  <2>. QED  BY <2>1, <2>2, <2>3
<1>6. ASSUME DeleteAtTorBox(h) \/ DeleteKeepsFiles(h) \/ DeleteStaging(h) \/ DeleteContent(h)
      PROVE  Kept
  <2>1. /\ deleting[h].at \in {"torbox", "files", "content"}
        /\ deleting'[h].at \in {"unref", "files", "content", "drop"}
        /\ deleting'[h].id = deleting[h].id /\ rows' = rows
    BY <1>1, <1>6 DEF DeleteAtTorBox, DeleteKeepsFiles, DeleteStaging, DeleteContent, Deletes, Deleting
  <2>2. /\ deleting[h].id \in Ids /\ deleting[h].id <= lastId
        /\ Exists(rows, deleting[h].id) => rows[deleting[h].id].hash = h
    BY <2>1 DEF IInv, DeletesOK, FInv, Doomed
  <2>. QED  BY <2>1, <2>2
<1>7. ASSUME DeleteDrops(h)
      PROVE  Kept
  <2>1. /\ deleting[h].at = "drop" /\ deleting'[h].at = "none"
        /\ rows' = DeleteByHashes(rows, h)
    BY <1>1, <1>7 DEF DeleteDrops, NoDelete
  <2>2. \A id \in Ids : rows'[id] = IF rows[id].hash = h THEN NoRow ELSE rows[id]
    BY <2>1 DEF DeleteByHashes
  <2>. QED  BY <2>1, <2>2 DEF Exists, NoRow, RowsOf
<1>8. Kept
  BY <1>4, <1>5, <1>6, <1>7 DEF DeleteGoesOn
<1> HIDE DEF Kept
<1>9. \A id \in Ids : Undeleted(id)' => Undeleted(id) /\ rows'[id] = rows[id]
  <2> SUFFICES ASSUME NEW id \in Ids, Undeleted(id)'
               PROVE  Undeleted(id) /\ rows'[id] = rows[id]
    OBVIOUS
  <2>1. Exists(rows', id) /\ deleting'[rows'[id].hash].at = "none" /\ rows'[id].hash = rows[id].hash
    BY <1>8 DEF Undeleted, Kept
  <2>2. rows[id].hash # h
    BY <1>8, <2>1 DEF Kept, RowsOf
  <2>3. rows'[id] = rows[id] /\ Exists(rows, id) /\ rows[id].hash \in Hashes
    BY <1>8, <2>1, <2>2, Apart DEF Kept, Exists
  <2>. QED  BY <1>3, <2>1, <2>2, <2>3 DEF Undeleted
<1>10. Doomed'
  <2> SUFFICES ASSUME NEW g \in Hashes, deleting'[g].at \notin {"none", "read"}
               PROVE  /\ deleting'[g].id <= lastId
                      /\ Exists(rows', deleting'[g].id) => rows'[deleting'[g].id].hash = g
    BY <1>1 DEF Doomed
  <2>1. /\ deleting'[g].id \in Ids /\ deleting'[g].id <= lastId
        /\ Exists(rows, deleting'[g].id) => rows[deleting'[g].id].hash = g
    BY <1>3, <1>8 DEF Kept, IInv, DeletesOK, FInv, Doomed
  <2>. QED  BY <1>8, <2>1 DEF Kept, Exists
<1>. QED  BY <1>1, <1>2, <1>8, <1>9, <1>10, BesideStays DEF Kept

LEMMA StepStays ==
  ASSUME IInv, FInv, [Next]_vars
  PROVE  FInv'
<1>1. CASE UNCHANGED vars
  <2>1. UNCHANGED <<rows, lastId, pass, todo, gate, boot, job, attempts, deleting>>
    BY <1>1 DEF vars, tableVars, passVars, retryVars
  <2>2. Busy' = Busy /\ Doomed' /\ \A id \in Ids : Undeleted(id)' <=> Undeleted(id)
    BY <2>1 DEF Busy, FInv, Doomed, Undeleted
  <2>. QED  BY <2>1, <2>2, BesideStays
<1>2. CASE DownloadPass
  BY <1>2, DownloadPassStays
<1>3. CASE Crash
  BY <1>3, CrashStays
<1>4. CASE \E w \in Workers : Download(w)
  BY <1>4, DownloadStays
<1>5. CASE \E h \in Hashes : Arrives(h) \/ BackoffElapses(h) \/ DeleteTorrent(h)
  BY <1>5, ArrivesStays, BackoffElapsesStays, DeleteCancelsStays, DeleteGoesOnStays
     DEF DeleteTorrent
<1>6. CASE \E id \in Ids : Recovers(id)
  BY <1>6, RecoversStays
<1>. QED  BY <1>1, <1>2, <1>3, <1>4, <1>5, <1>6 DEF Next

FinalStep ==
  \A id \in Ids :
    rows[id].state = "COMPLETE" /\ deleting[rows[id].hash].at = "none"
      => rows'[id].state = "COMPLETE"

LEMMA StepIsFinal ==
  ASSUME IInv, FInv, [Next]_vars
  PROVE  FinalStep
<1> SUFFICES ASSUME NEW id \in Ids, rows[id].state = "COMPLETE", deleting[rows[id].hash].at = "none"
             PROVE  rows'[id].state = "COMPLETE"
  BY DEF FinalStep
<1>0. /\ rows \in Table /\ Undeleted(id)
      /\ rows[id].hash \in Hashes /\ id <= lastId /\ lastId \in Nat
  <2>1. Exists(rows, id)
    BY DEF Exists
  <2>. QED  BY <2>1, Apart DEF Undeleted, IInv, TableOK
<1>1. ASSUME NEW w \in Workers, Download(w)
      PROVE  rows'[id].state = "COMPLETE"
  <2>1. CASE Completes(w)
    BY <1>0, <2>1 DEF Completes, MarkComplete, Table
  <2>2. CASE ClearsRef(w)
    BY <1>0, <2>2 DEF ClearsRef, ClearTorBoxRefs, Table, Row
  <2>3. CASE Begins(w)
    BY <1>0, <2>3 DEF Begins, MarkLocalDownloading, Table
  <2>4. CASE FailMarks(w)
    <3>1. w \in Busy /\ Id(w) # id
      BY <1>0, <2>4, Working DEF FailMarks, FInv, Settled
    <3>. QED  BY <1>0, <2>4, <3>1 DEF FailMarks, MarkError, Table
  <2>5. CASE \/ Tidies(w) \/ Fails(w) \/ Fetches(w) \/ Fetched(w) \/ FetchFails(w)
             \/ Finalizes(w) \/ Retries(w) \/ Ends(w)
    <3>1. rows' = rows
      BY <2>5 DEF Tidies, Fails, DropsRef, Fetches, Fetched, FetchFails, Finalizes, FinalizeReads,
                  FinalizeClears, FinalizeMoves, FinalizeFails, Retries, DiskFailed, LocalFailed,
                  Waits, Ends
    <3>. QED  BY <3>1
  <2>. QED  BY <1>1, <2>1, <2>2, <2>3, <2>4, <2>5 DEF Download
<1>2. ASSUME NEW h \in Hashes, Arrives(h)
      PROVE  rows'[id].state = "COMPLETE"
  <2>1. PICK r \in Ids :
          /\ rows' = [rows EXCEPT ![r] = Ready(h)]
          /\ r = lastId + 1 \/ rows[r].state = "ERROR"
    BY <1>2 DEF Arrives, NextRowId, RowsOf
  <2>2. r # id
    BY <1>0, <2>1 DEF Ids
  <2>. QED  BY <1>0, <2>1, <2>2 DEF Table
<1>3. ASSUME NEW h \in Hashes, DeleteGoesOn(h)
      PROVE  rows'[id].state = "COMPLETE"
  <2>1. CASE DeleteClearsRef(h)
    BY <1>0, <2>1 DEF DeleteClearsRef, ClearTorBoxRefs, Table, Row
  <2>2. CASE DeleteDrops(h)
    <3>1. rows[id].hash # h
      BY <2>2 DEF DeleteDrops
    <3>. QED  BY <2>2, <3>1 DEF DeleteDrops, DeleteByHashes
  <2>3. CASE \/ DeleteReads(h) \/ DeleteAtTorBox(h) \/ DeleteKeepsFiles(h) \/ DeleteStaging(h)
             \/ DeleteContent(h)
    BY <2>3 DEF DeleteReads, DeleteAtTorBox, DeleteKeepsFiles, DeleteStaging, DeleteContent
  <2>. QED  BY <1>3, <2>1, <2>2, <2>3 DEF DeleteGoesOn
<1>4. ASSUME NEW other \in Ids, Recovers(other)
      PROVE  rows'[id].state = "COMPLETE"
  <2>1. rows' = rows \/ rows' = [rows EXCEPT ![other].state = "COMPLETE"]
    BY <1>4 DEF Recovers, MarkComplete
  <2>. QED  BY <1>0, <2>1 DEF Table, Row
<1>5. CASE DownloadPass
  BY <1>5 DEF DownloadPass, ListsResuming, ListsQueued, WaitsForDisk, PassesOver, Considers, Starts
<1>6. CASE Crash
  BY <1>6 DEF Crash
<1>7. CASE UNCHANGED vars
  BY <1>7 DEF vars
<1>8. ASSUME NEW h \in Hashes, BackoffElapses(h) \/ DeleteCancels(h)
      PROVE  rows'[id].state = "COMPLETE"
  BY <1>8 DEF BackoffElapses, DeleteCancels
<1>. QED  BY <1>1, <1>2, <1>3, <1>4, <1>5, <1>6, <1>7, <1>8 DEF Next, DeleteTorrent

(* A row that is COMPLETE stays so until it is deleted, whatever a listing the *)
(* row has left behind makes downloadPass start, and whatever a goroutine that *)
(* a delete has cancelled writes after it.                                     *)
THEOREM CompletedStay == Spec => CompleteIsFinal
<1>1. Init => FInv
  BY InitStays
<1>2. IInv /\ FInv /\ [Next]_vars => FInv'
  BY StepStays
<1>3. IInv /\ FInv /\ [Next]_vars => [FinalStep]_vars
  BY StepIsFinal
<1>. QED  BY Invariant, <1>1, <1>2, <1>3, PTL DEF Spec, CompleteIsFinal, FinalStep
=============================================================================
