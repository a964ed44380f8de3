----------------------------- MODULE LocalDownload -----------------------------
(* The download loop of internal/engine: downloadPass and maybeStartDownload   *)
(* on one goroutine, downloadOne on one goroutine per torrent, DeleteTorrent    *)
(* on a request's, and the recovery at startup after a crash.  Files are kept  *)
(* as the top-level entries of a torrent, in its staging directory (complete)  *)
(* or in place.  Submission and fetching on TorBox are one step (Arrives); of   *)
(* TorBox only the torrents it has deleted are kept.                           *)
EXTENDS Store

CONSTANTS Tops,              \* release -> its top-level entries
          ParallelTorrents,  \* download.parallel_torrents
          MaxAdds,           \* bound: adds and re-queues, over the whole run
          MaxLocalAttempts,  \* maxLocalAttempts (8 in the code)
          Deletable,         \* the releases Sonarr may delete
          Workers,           \* bound: goroutines of downloadOne at a time
          MaxCrashes         \* bound: crashes of the process

ASSUME LocalDownloadAssumption ==
  /\ DOMAIN Tops = Hashes /\ \A h \in Hashes : Tops[h] # {} /\ IsFiniteSet(Tops[h])
  /\ ParallelTorrents \in Nat \ {0} /\ MaxLocalAttempts \in Nat \ {0, 1}
  /\ MaxAdds \in 0 .. MaxTb /\ MaxCrashes \in Nat /\ Deletable \subseteq Hashes

VARIABLES rows, lastId,
          adds,            \* adds and re-queues so far: the clock of added_on
          staged, placed,  \* release -> its entries in the staging directory, in place
          gone,            \* the torrents deleted from TorBox
          pass, todo,      \* downloadPass: where it is, the rows it listed
          gate,            \* the row whose disk check it makes
          job,             \* worker -> the download it runs
          registered,      \* activeDownloads
          attempts,        \* localRetries: release -> failed attempts
          waiting,         \* releases whose next attempt lies in the future
          pathed,          \* the rows with a content_path
          deleting,        \* release -> the delete in progress for it
          boot,            \* the rows startup has still to check
          crashes

tableVars == <<lastId, adds>>
diskVars  == <<staged, placed>>
passVars  == <<pass, todo, gate, boot>>
retryVars == <<attempts, waiting>>
vars == <<rows, tableVars, gone, diskVars, passVars, job, registered, retryVars, pathed, deleting, crashes>>

Listing == [id : Ids, hash : Hashes, state : States, ref : TbIds \cup {Null}, added : 0 .. MaxAdds]
AsListed(ids) == {[id |-> id, hash |-> rows[id].hash, state |-> rows[id].state,
                   ref |-> rows[id].ref, added |-> rows[id].added] : id \in ids}

NoRead == [id |-> 0, hash |-> NoHash, state |-> "NONE", ref |-> Null, added |-> 0]
NoJob  == [row |-> NoRead, at |-> "free", stop |-> FALSE, link |-> FALSE, left |-> {}]

Entries == UNION {Tops[h] : h \in Hashes}
NoDelete == [at |-> "none", id |-> 0, ref |-> Null, content |-> FALSE]
JobSteps == {"free", "start", "fetch", "finalize", "clear", "move", "failed", "fail",
             "failClear", "failMark", "complete", "tidy", "tidyClear", "exit"}
DeleteSteps == {"none", "read", "torbox", "unref", "files", "content", "drop"}

TypeOK ==
  /\ rows \in [Ids -> Row] /\ lastId \in 0 .. MaxRows /\ adds \in 0 .. MaxAdds
  /\ staged \in [Hashes -> SUBSET Entries] /\ placed \in [Hashes -> SUBSET Entries]
  /\ pass \in {"idle", "queued", "each", "disk"}
  /\ gate \in Listing \cup {NoRead}
  /\ todo \subseteq Listing
  /\ job \in [Workers -> [row : Listing \cup {NoRead}, at : JobSteps,
                          stop : BOOLEAN, link : BOOLEAN, left : SUBSET Entries]]
  /\ registered \subseteq Hashes /\ gone \subseteq TbIds
  /\ attempts \in [Hashes -> 0 .. MaxLocalAttempts - 1] /\ waiting \subseteq Hashes
  /\ pathed \subseteq Ids
  /\ deleting \in [Hashes -> [at : DeleteSteps, id : Ids \cup {0}, ref : TbIds \cup {Null}, content : BOOLEAN]]
  /\ boot \subseteq Ids /\ crashes \in 0 .. MaxCrashes

Init ==
  /\ rows = EmptyTable /\ lastId = 0 /\ adds = 0 /\ gone = {}
  /\ staged = [h \in Hashes |-> {}] /\ placed = [h \in Hashes |-> {}]
  /\ pass = "idle" /\ todo = {} /\ gate = NoRead /\ boot = {}
  /\ job = [w \in Workers |-> NoJob] /\ registered = {}
  /\ attempts = [h \in Hashes |-> 0] /\ waiting = {}
  /\ pathed = {} /\ deleting = [h \in Hashes |-> NoDelete]
  /\ crashes = 0

-----------------------------------------------------------------------------
(* An add, its submission and its fetch: a row whose content TorBox has, new   *)
(* or re-queued after it failed.                                               *)
Ready(h) == [hash |-> h, state |-> "LOCAL_QUEUED", ref |-> adds + 1,
             notified |-> FALSE, added |-> adds + 1]

Arrives(h) ==
  /\ adds < MaxAdds /\ adds' = adds + 1
  /\ IF RowsOf(rows, h) = {}
       THEN /\ NextRowId(rows, lastId) \in Ids
            /\ lastId' = NextRowId(rows, lastId)
            /\ rows' = [rows EXCEPT ![lastId'] = Ready(h)] /\ UNCHANGED pathed
       ELSE \E id \in RowsOf(rows, h) :
            /\ rows[id].state = "ERROR"
            /\ rows' = [rows EXCEPT ![id] = Ready(h)]
            /\ pathed' = pathed \ {id} /\ UNCHANGED lastId
  /\ UNCHANGED <<gone, diskVars, passVars, job, registered, retryVars, deleting, crashes>>

-----------------------------------------------------------------------------
(* downloadPass: the rows to resume, then the queued ones.                     *)

PassFrame == UNCHANGED <<tableVars, gone, diskVars, boot, retryVars, pathed, deleting, crashes>>

Onward == IF todo' = {} THEN "idle" ELSE "each"

ListsResuming ==
  /\ pass = "idle" /\ boot = {}
  /\ todo' = AsListed(ListByState(rows, "LOCAL_DOWNLOAD"))
  /\ pass' = "queued"
  /\ UNCHANGED <<rows, gate, job, registered>> /\ PassFrame

ListsQueued ==
  /\ pass = "queued"
  /\ todo' = todo \cup AsListed(ListByState(rows, "LOCAL_QUEUED"))
  /\ pass' = Onward
  /\ UNCHANGED <<rows, gate, job, registered>> /\ PassFrame

(* The pass takes the rows to resume first, and of each state the oldest first. *)
Before(t, other) ==
  \/ t.state = "LOCAL_DOWNLOAD" /\ other.state = "LOCAL_QUEUED"
  \/ t.state = other.state /\ t.added < other.added

Reaches(t) ==
  /\ pass = "each" /\ t \in todo
  /\ \A other \in todo : ~Before(other, t)
  /\ todo' = todo \ {t}

(* Admission without the look at what runs already. *)
AdmissibleTwice(t) == Cardinality(registered) < ParallelTorrents /\ t.hash \notin waiting

Admissible(t) ==
  /\ t.hash \notin registered /\ Cardinality(registered) < ParallelTorrents
  /\ t.hash \notin waiting

PassesOver(t) ==
  /\ Reaches(t) /\ ~Admissible(t)
  /\ pass' = Onward
  /\ UNCHANGED <<rows, gate, job, registered>> /\ PassFrame

(* maybeStartDownload up to the disk check, which it makes without the lock.   *)
Considers(t) ==
  /\ Reaches(t) /\ Admissible(t)
  /\ pass' = "disk" /\ gate' = t
  /\ UNCHANGED <<rows, job, registered>> /\ PassFrame

(* The disk check's answer: wait for space, or start.                          *)
PassesGate == pass = "disk" /\ todo' = todo /\ pass' = Onward /\ gate' = NoRead /\ PassFrame

WaitsForDisk == PassesGate /\ UNCHANGED <<rows, job, registered>>

Starts(h) ==
  /\ gate.hash = h /\ PassesGate
  /\ registered' = registered \cup {h}
  /\ \E w \in Workers :
       /\ job[w] = NoJob
       /\ job' = [job EXCEPT ![w] = [row |-> gate, at |-> "start", stop |-> FALSE, link |-> FALSE, left |-> {}]]
  /\ UNCHANGED rows

DownloadPass == \/ ListsResuming \/ ListsQueued \/ WaitsForDisk
                \/ \E t \in todo : PassesOver(t) \/ Considers(t)
                \/ \E h \in Hashes : Starts(h)

-----------------------------------------------------------------------------
(* downloadOne, of worker w.                                                   *)

H(w)  == job[w].row.hash
Id(w) == job[w].row.id
Goes(w, step) == job' = [job EXCEPT ![w].at = step]
JobFrame == UNCHANGED <<tableVars, passVars, deleting, crashes>>

(* A row without a torrent on TorBox, or whose files are gone with it, fails.  *)
(* TorBox gives a link to the files of a torrent it still has.                 *)
Begins(w) ==
  /\ job[w].at = "start"
  /\ IF job[w].row.ref = Null \/ ~Exists(rows, Id(w))
       THEN Goes(w, "fail") /\ UNCHANGED rows
       ELSE /\ job' = [job EXCEPT ![w].at = "fetch", ![w].link = job[w].row.ref \notin gone]
            /\ rows' = IF job[w].row.state = "LOCAL_QUEUED"
                         THEN MarkLocalDownloading(rows, Id(w)) ELSE rows
  /\ UNCHANGED <<diskVars, registered, retryVars>> /\ JobFrame

(* Download: one more entry is complete in the staging directory. *)
Fetches(w) ==
  /\ job[w].at = "fetch" /\ job[w].link
  /\ \E e \in Tops[H(w)] \ staged[H(w)] : staged' = [staged EXCEPT ![H(w)] = @ \cup {e}]
  /\ UNCHANGED <<rows, placed, job, registered, retryVars>> /\ JobFrame

(* It returns nil when all are, also when it was cancelled too late to notice. *)
Fetched(w) ==
  /\ job[w].at = "fetch" /\ Tops[H(w)] \subseteq staged[H(w)]
  /\ Goes(w, "finalize")
  /\ UNCHANGED <<rows, diskVars, registered, retryVars>> /\ JobFrame

(* It returns an error: after a cancellation the row is left as it is.         *)
FetchFails(w) ==
  /\ job[w].at = "fetch"
  /\ Goes(w, IF job[w].stop THEN "exit" ELSE "failed")
  /\ UNCHANGED <<rows, diskVars, registered, retryVars>> /\ JobFrame

(* Finalize: read the staging directory, then for every entry clear its place  *)
(* and move it there.                                                          *)
FinalizeReads(w) ==
  /\ job[w].at = "finalize" /\ staged[H(w)] # {}
  /\ job' = [job EXCEPT ![w].at = "clear", ![w].left = staged[H(w)]]
  /\ UNCHANGED <<rows, diskVars, registered, retryVars>> /\ JobFrame

(* os.ReadDir sorts, so the order of the entries is always the same. *)
First(entries) == CHOOSE e \in entries : TRUE

FinalizeClears(w) ==
  /\ job[w].at = "clear"
  /\ placed' = [placed EXCEPT ![H(w)] = @ \ {First(job[w].left)}]
  /\ Goes(w, "move")
  /\ UNCHANGED <<rows, staged, registered, retryVars>> /\ JobFrame

FinalizeMoves(w) ==
  /\ job[w].at = "move"
  /\ LET e == First(job[w].left) IN
       /\ e \in staged[H(w)]
       /\ staged' = [staged EXCEPT ![H(w)] = @ \ {e}]
       /\ placed' = [placed EXCEPT ![H(w)] = @ \cup {e}]
       /\ job' = [job EXCEPT ![w].at = IF job[w].left = {e} THEN "complete" ELSE "clear",
                              ![w].left = @ \ {e}]
  /\ UNCHANGED <<rows, registered, retryVars>> /\ JobFrame

(* There is nothing to read or to move, or ReadDir, MkdirAll, RemoveAll or     *)
(* Rename fails; the entries moved before stay in place.                       *)
FinalizeFails(w) ==
  /\ job[w].at \in {"finalize", "clear", "move"}
  /\ Goes(w, "failed")
  /\ UNCHANGED <<rows, diskVars, registered, retryVars>> /\ JobFrame

Completes(w) ==
  /\ job[w].at = "complete"
  /\ attempts' = [attempts EXCEPT ![H(w)] = 0] /\ waiting' = waiting \ {H(w)}
  /\ rows' = MarkComplete(rows, Id(w))
  /\ pathed' = IF Exists(rows, Id(w)) THEN pathed \cup {Id(w)} ELSE pathed
  /\ Goes(w, "tidy")
  /\ UNCHANGED <<diskVars, registered>> /\ JobFrame

(* removeFromTorBox: ask TorBox to delete the torrent, and once it says that   *)
(* it has, clear the reference.  The request may fail, its answer may be lost  *)
(* and the UPDATE may fail: a torrent that is gone can keep its reference.     *)
AsksTorBox(ref) == gone' = gone \/ (ref # Null /\ gone' = gone \cup {ref})
TorBoxSaysGone(ref) == ref # Null /\ gone' = gone \cup {ref}

DropsRef(w, clears, next) ==
  /\ \/ AsksTorBox(job[w].row.ref) /\ Goes(w, next)
     \/ TorBoxSaysGone(job[w].row.ref) /\ Goes(w, clears)
  /\ UNCHANGED <<rows, diskVars, registered, retryVars>> /\ JobFrame

Tidies(w) == job[w].at = "tidy" /\ DropsRef(w, "tidyClear", "exit")

ClearsRef(w) ==
  /\ \/ job[w].at = "tidyClear" /\ Goes(w, "exit")
     \/ job[w].at = "failClear" /\ Goes(w, "failMark")
  /\ rows' = ClearTorBoxRefs(rows, Id(w))
  /\ UNCHANGED <<diskVars, registered, retryVars>> /\ JobFrame

(* localFailed.  A failed attempt uses up the budget, and the next one waits   *)
(* or the torrent fails; when the disk is to blame the budget stays.           *)
Waits(w, failed) ==
  /\ attempts' = [attempts EXCEPT ![H(w)] = failed] /\ waiting' = waiting \cup {H(w)}
  /\ Goes(w, "exit")
  /\ UNCHANGED <<rows, diskVars, registered>> /\ JobFrame

DiskFailed(w) == job[w].at = "failed" /\ Waits(w, attempts[H(w)])

(* One attempt more than the budget. *)
LocalFailedLate(w) ==
  /\ job[w].at = "failed"
  /\ IF attempts[H(w)] + 1 <= MaxLocalAttempts
       THEN Waits(w, attempts[H(w)] + 1)
       ELSE /\ attempts' = [attempts EXCEPT ![H(w)] = 0] /\ waiting' = waiting \ {H(w)}
            /\ Goes(w, "fail")
            /\ UNCHANGED <<rows, diskVars, registered>> /\ JobFrame

LocalFailed(w) ==
  /\ job[w].at = "failed"
  /\ IF attempts[H(w)] + 1 < MaxLocalAttempts
       THEN Waits(w, attempts[H(w)] + 1)
       ELSE /\ attempts' = [attempts EXCEPT ![H(w)] = 0] /\ waiting' = waiting \ {H(w)}
            /\ Goes(w, "fail")
            /\ UNCHANGED <<rows, diskVars, registered>> /\ JobFrame

Fails(w) == job[w].at = "fail" /\ DropsRef(w, "failClear", "failMark")

FailMarks(w) ==
  /\ job[w].at = "failMark"
  /\ rows' = MarkError(rows, Id(w))
  /\ Goes(w, "exit")
  /\ UNCHANGED <<diskVars, registered, retryVars>> /\ JobFrame

(* The goroutine ends without leaving activeDownloads. *)
EndsRegistered(w) ==
  /\ job[w].at = "exit"
  /\ job' = [job EXCEPT ![w] = NoJob]
  /\ UNCHANGED <<rows, diskVars, registered, retryVars>> /\ JobFrame

Ends(w) ==
  /\ job[w].at = "exit"
  /\ job' = [job EXCEPT ![w] = NoJob]
  /\ registered' = registered \ {H(w)}
  /\ UNCHANGED <<rows, diskVars, retryVars>> /\ JobFrame

Retries(w) == DiskFailed(w) \/ LocalFailed(w)
Finalizes(w) == FinalizeReads(w) \/ FinalizeClears(w) \/ FinalizeMoves(w) \/ FinalizeFails(w)

Download(w) ==
  \/ Completes(w) /\ UNCHANGED gone
  \/ (Tidies(w) \/ Fails(w)) /\ UNCHANGED pathed
  \/ /\ \/ Begins(w) \/ Fetches(w) \/ Fetched(w) \/ FetchFails(w) \/ Finalizes(w)
        \/ Retries(w) \/ ClearsRef(w) \/ FailMarks(w) \/ Ends(w)
     /\ UNCHANGED <<gone, pathed>>

BackoffElapses(h) ==
  /\ h \in waiting
  /\ waiting' = waiting \ {h}
  /\ UNCHANGED <<rows, tableVars, gone, diskVars, passVars, job, registered, attempts, pathed, deleting, crashes>>

-----------------------------------------------------------------------------
(* DeleteTorrent.                                                              *)

DeleteFrame == UNCHANGED <<tableVars, passVars, registered, crashes>>
Deletes(h, from, to) == deleting[h].at = from /\ deleting' = [deleting EXCEPT ![h].at = to]

(* Cancel the download that is registered now, and do not wait for it.         *)
DeleteCancels(h) ==
  /\ h \in Deletable /\ Deletes(h, "none", "read")
  /\ job' = [w \in Workers |->
       IF H(w) = h /\ h \in registered THEN [job[w] EXCEPT !.stop = TRUE] ELSE job[w]]
  /\ attempts' = [attempts EXCEPT ![h] = 0] /\ waiting' = waiting \ {h}
  /\ UNCHANGED <<rows, gone, diskVars, pathed>> /\ DeleteFrame

(* Content with several top-level entries has the save path as its content     *)
(* path, and is not removed.                                                   *)
Removable(id) == id \in pathed /\ Cardinality(Tops[rows[id].hash]) = 1

DeleteReads(h) ==
  /\ deleting[h].at = "read"
  /\ IF RowsOf(rows, h) = {}
       THEN deleting' = [deleting EXCEPT ![h] = NoDelete]
       ELSE \E id \in RowsOf(rows, h) :
              deleting' = [deleting EXCEPT ![h] = [at |-> "torbox", id |-> id, ref |-> rows[id].ref,
                                                   content |-> Removable(id)]]
  /\ UNCHANGED <<rows, diskVars, job, retryVars>> /\ DeleteFrame

DeleteAtTorBox(h) ==
  /\ \/ AsksTorBox(deleting[h].ref) /\ Deletes(h, "torbox", "files")
     \/ TorBoxSaysGone(deleting[h].ref) /\ Deletes(h, "torbox", "unref")
  /\ UNCHANGED <<rows, diskVars, job, retryVars>> /\ DeleteFrame

DeleteClearsRef(h) ==
  /\ Deletes(h, "unref", "files")
  /\ rows' = ClearTorBoxRefs(rows, deleting[h].id)
  /\ UNCHANGED <<diskVars, job, retryVars>> /\ DeleteFrame

(* The request says whether the files go with the torrent. *)
DeleteKeepsFiles(h) ==
  /\ Deletes(h, "files", "drop")
  /\ UNCHANGED <<rows, diskVars, job, retryVars>> /\ DeleteFrame

DeleteStaging(h) ==
  /\ Deletes(h, "files", "content")
  /\ staged' = [staged EXCEPT ![h] = {}]
  /\ UNCHANGED <<rows, placed, job, retryVars>> /\ DeleteFrame

DeleteContent(h) ==
  /\ Deletes(h, "content", "drop")
  /\ placed' = IF deleting[h].content THEN [placed EXCEPT ![h] = {}] ELSE placed
  /\ UNCHANGED <<rows, staged, job, retryVars>> /\ DeleteFrame

DeleteDrops(h) ==
  /\ deleting[h].at = "drop"
  /\ deleting' = [deleting EXCEPT ![h] = NoDelete]
  /\ rows' = DeleteByHashes(rows, h)
  /\ UNCHANGED <<diskVars, job, retryVars>> /\ DeleteFrame

DeleteGoesOn(h) ==
  /\ \/ DeleteAtTorBox(h)
     \/ /\ \/ DeleteReads(h) \/ DeleteClearsRef(h) \/ DeleteKeepsFiles(h)
           \/ DeleteStaging(h) \/ DeleteContent(h) \/ DeleteDrops(h)
        /\ UNCHANGED gone
  /\ UNCHANGED pathed

DeleteTorrent(h) == DeleteCancels(h) \/ DeleteGoesOn(h)

-----------------------------------------------------------------------------
(* A crash keeps the table and the disk.  Startup then checks every LOCAL row  *)
(* once, and completes those whose content is all in place.                    *)

Crash ==
  /\ crashes < MaxCrashes
  /\ crashes' = crashes + 1
  /\ pass' = "idle" /\ todo' = {} /\ gate' = NoRead
  /\ boot' = InState(rows, {"LOCAL_DOWNLOAD", "LOCAL_QUEUED"})
  /\ job' = [w \in Workers |-> NoJob] /\ registered' = {}
  /\ attempts' = [h \in Hashes |-> 0] /\ waiting' = {}
  /\ deleting' = [h \in Hashes |-> NoDelete]
  /\ UNCHANGED <<rows, tableVars, gone, diskVars, pathed>>

(* One entry in place taken for all of them. *)
InPlaceAny(h) == placed[h] # {}
InPlace(h)    == Tops[h] \subseteq placed[h]

Recovers(id) ==
  /\ id \in boot
  /\ boot' = boot \ {id}
  /\ IF Exists(rows, id) /\ InPlace(rows[id].hash)
       THEN rows' = MarkComplete(rows, id) /\ pathed' = pathed \cup {id}
       ELSE UNCHANGED <<rows, pathed>>
  /\ UNCHANGED <<tableVars, gone, diskVars, pass, todo, gate, job, registered, retryVars,
                 deleting, crashes>>

-----------------------------------------------------------------------------
Next ==
  \/ DownloadPass \/ Crash
  \/ \E w \in Workers : Download(w)
  \/ \E h \in Hashes : Arrives(h) \/ BackoffElapses(h) \/ DeleteTorrent(h)
  \/ \E id \in Ids : Recovers(id)

Spec == Init /\ [][Next]_vars

(* The pass runs every two seconds, a goroutine runs on, a backoff elapses and *)
(* a delete in progress goes on.  Space is found and a failure is not the      *)
(* disk's again and again, and a transfer that does not fail moves on.         *)
Fairness ==
  /\ WF_vars(DownloadPass) /\ \A h \in Hashes : SF_vars(Starts(h))
  /\ \A w \in Workers :
       /\ WF_vars(Download(w)) /\ SF_vars(LocalFailed(w) /\ UNCHANGED <<gone, pathed>>)
       /\ \A h \in Hashes : WF_vars(BackoffElapses(h)) /\ WF_vars(DeleteGoesOn(h))
  /\ \A id \in Ids : WF_vars(Recovers(id))

FairSpec == Spec /\ Fairness

-----------------------------------------------------------------------------
Busy == {w \in Workers : job[w] # NoJob}

(* No torrent is downloaded by two goroutines at once, and no more than        *)
(* parallel_torrents are downloaded, although maybeStartDownload gives up the  *)
(* lock between its look at activeDownloads and its registration there.        *)
Exclusive ==
  /\ registered = {H(w) : w \in Busy}
  /\ Cardinality(Busy) = Cardinality(registered)
  /\ Cardinality(registered) <= ParallelTorrents

(* A row becomes COMPLETE, through downloadOne or the recovery at startup, only *)
(* when every entry of its torrent is in place: what Sonarr imports is whole.  *)
(* A torrent that is being deleted is left out: DeleteTorrent does not wait for *)
(* the downloads of its torrent, and may remove what one has just put there.   *)
CompletedInPlace ==
  [][\A id \in Ids :
       rows[id].state # "COMPLETE" /\ rows'[id].state = "COMPLETE"
         /\ deleting[rows[id].hash].at = "none"
         => Tops[rows[id].hash] \subseteq placed'[rows[id].hash]]_vars

(* Whatever a stale listing or a late goroutine writes, a COMPLETE row that is  *)
(* not being deleted stays COMPLETE: Sonarr never sees a finished torrent fail  *)
(* or go back to downloading.                                                  *)
CompleteIsFinal ==
  [][\A id \in Ids :
       rows[id].state = "COMPLETE" /\ deleting[rows[id].hash].at = "none"
         => rows'[id].state = "COMPLETE"]_vars

(* Every torrent whose content TorBox has ends up COMPLETE, in ERROR or        *)
(* deleted: none is left behind by a slot or a registration that is not freed. *)
DownloadsEnd ==
  \A id \in Ids : rows[id].state \in {"LOCAL_QUEUED", "LOCAL_DOWNLOAD"}
                   ~> rows[id].state \in {"COMPLETE", "ERROR", "NONE"}

(* Refuted.  A torrent reported as complete has its content in place, unless   *)
(* it is being deleted.                                                        *)
CompleteHasContent ==
  \A id \in Ids :
    rows[id].state = "COMPLETE" /\ deleting[rows[id].hash].at = "none"
      => Tops[rows[id].hash] \subseteq placed[rows[id].hash]
=============================================================================
