--------------------------------- MODULE Paths ---------------------------------
(* Where content is: the download root, the save path of each category and of  *)
(* each torrent, its content path, and what lies on the disk                   *)
(* (internal/qbit/add.go, internal/store/rebase.go and categories.go, and the  *)
(* parts of internal/engine that stage, place, recover and remove content).    *)
(* A path is a sequence of names. The submission and the fetch on TorBox are   *)
(* left out: QUEUED stands for TORBOX_ACTIVE as well.                          *)
EXTENDS Integers, SequencesExt

CONSTANTS Releases, Categories, Roots,
          Tops,         \* the top-level entries of each release
          Incomplete,   \* download.incomplete_subdir
          Uncategorised, Elsewhere, NoPath, NoRow, NoJob, NoListing, NoRequest, NoDelete,
          MaxEvents     \* bound: adds, changes of categories and restarts, together

ASSUME PathsAssumption ==
  /\ \A h \in Releases : Tops[h] # {}
  /\ Uncategorised \notin Categories
  /\ MaxEvents \in Nat

VARIABLES root,         \* download.root of the process that runs
          catPath,      \* the table of categories
          row,          \* the table of torrents, by infohash
          job,          \* the download goroutine of a torrent, with its save path
          listed,       \* the save path the reconciliation listed for a torrent
          pass,         \* the state and save path the download pass listed for one
          disk,         \* the entries on disk, each with the release it is of
          request,      \* a request that knows its save path
          deleting,     \* a delete that has read the row
          recovering,   \* rows the startup has still to look at
          events,
          doomed        \* for the properties: what a delete has been begun for

vars == <<root, catPath, row, job, listed, pass, disk, request, deleting, recovering,
          events, doomed>>

Saves    == {<<r>> : r \in Roots} \cup {<<r, c>> : r \in Roots, c \in Categories} \cup {<<Elsewhere>>}
Contents == Saves \cup {s \o <<n>> : s \in Saves, n \in UNION {Tops[h] : h \in Releases}}

Pending == {"QUEUED", "LOCAL_QUEUED"}
Local   == {"LOCAL_QUEUED", "LOCAL_DOWNLOAD"}
States  == Pending \cup Local \cup {"COMPLETE", "ERROR"}

Labels   == Categories \cup {Uncategorised}
Rows     == [state : States, category : Labels, save : Saves, content : Contents \cup {NoPath}]
Jobs     == [at : {"fetch", "placed"}, save : Saves, live : BOOLEAN]
Listings == [state : Local, save : Saves]
Requests == [kind : {"add", "set"}, h : Releases, category : Labels, save : Saves]
Deletes  == [h : Releases, save : Saves, content : Contents \cup {NoPath}, files : BOOLEAN]

ASSUME NothingAssumption ==
  /\ NoPath \notin Contents /\ NoRow \notin Rows /\ NoJob \notin Jobs /\ NoListing \notin Listings
  /\ NoRequest \notin Requests /\ NoDelete \notin Deletes

TypeOK ==
  /\ root \in Roots
  /\ catPath \in [Categories -> Saves \cup {NoPath}]
  /\ row \in [Releases -> Rows \cup {NoRow}]
  /\ job \in [Releases -> Jobs \cup {NoJob}]
  /\ listed \in [Releases -> Saves \cup {NoPath}]
  /\ pass \in [Releases -> Listings \cup {NoListing}]
  /\ request \in Requests \cup {NoRequest} /\ deleting \in Deletes \cup {NoDelete}
  /\ \A h \in Releases :
       /\ row[h] # NoRow /\ row[h].content = NoPath => row[h].state \in {"QUEUED", "ERROR"}
       /\ (job[h] # NoJob /\ job[h].live) \/ listed[h] # NoPath \/ pass[h] # NoListing
            => row[h] # NoRow
  /\ \A d \in disk : d.of \in Releases
  /\ recovering \subseteq Releases /\ doomed \subseteq Releases

Init ==
  /\ root \in Roots
  /\ catPath = [c \in Categories |-> NoPath]
  /\ row = [h \in Releases |-> NoRow]
  /\ job = [h \in Releases |-> NoJob]
  /\ listed = [h \in Releases |-> NoPath] /\ pass = [h \in Releases |-> NoListing]
  /\ disk = {}
  /\ request = NoRequest /\ deleting = NoDelete /\ recovering = {}
  /\ events = 0 /\ doomed = {}

Is(h, states) == row[h] # NoRow /\ row[h].state \in states

Staging(h, save) == save \o <<Incomplete, h>>
Staged(h, save)  == {[path |-> Staging(h, save) \o <<n>>, of |-> h] : n \in Tops[h]}
Placed(h, save)  == {[path |-> save \o <<n>>, of |-> h] : n \in Tops[h]}

(* os.RemoveAll. *)
Under(path) == {d \in disk : IsPrefix(path, d.path)}

(* The content path as a folder, also for a single entry. *)
ContentPathFolder(h, save) == save

ContentPath(h, save) ==
  IF \E n \in Tops[h] : Tops[h] = {n} THEN save \o <<CHOOSE n \in Tops[h] : TRUE>> ELSE save

-----------------------------------------------------------------------------
(* Requests (qbit/add.go): the save path first, the table of torrents then.    *)

Asked(kind, h, c) ==
  request' = [kind |-> kind, h |-> h, category |-> c,
              save |-> IF c = Uncategorised THEN <<root>> ELSE catPath'[c]]

RequestFrame == UNCHANGED <<root, job, listed, pass, deleting, recovering, doomed>>

May == events < MaxEvents /\ events' = events + 1

Resolves(kind, h, c) ==
  /\ request = NoRequest /\ May
  /\ catPath' = IF c # Uncategorised /\ catPath[c] = NoPath
                THEN [catPath EXCEPT ![c] = <<root, c>>] ELSE catPath
  /\ Asked(kind, h, c)
  /\ UNCHANGED <<row, disk>> /\ RequestFrame

NewRow == [state |-> "QUEUED", category |-> request.category, save |-> request.save, content |-> NoPath]

(* AddTorrent, and RequeueFailed for a row in ERROR. *)
Persists ==
  /\ request # NoRequest /\ request.kind = "add"
  /\ row' = IF row[request.h] = NoRow \/ Is(request.h, {"ERROR"})
            THEN [row EXCEPT ![request.h] = NewRow] ELSE row
  /\ request' = NoRequest
  /\ UNCHANGED <<catPath, disk, events>> /\ RequestFrame

SetsCategory ==
  /\ request # NoRequest /\ request.kind = "set"
  /\ row' = IF row[request.h] = NoRow THEN row
            ELSE [row EXCEPT ![request.h].category = request.category,
                             ![request.h].save = request.save]
  /\ request' = NoRequest
  /\ UNCHANGED <<catPath, disk, events>> /\ RequestFrame

CreatesCategory(c) ==
  /\ May
  /\ \E save \in {<<root, c>>, <<Elsewhere>>} : catPath' = [catPath EXCEPT ![c] = save]
  /\ UNCHANGED <<row, disk, request>> /\ RequestFrame

RemovesCategory(c) ==
  /\ catPath[c] # NoPath /\ May
  /\ catPath' = [catPath EXCEPT ![c] = NoPath]
  /\ UNCHANGED <<row, disk, request>> /\ RequestFrame

Request ==
  \/ Persists \/ SetsCategory
  \/ \E c \in Categories : CreatesCategory(c) \/ RemovesCategory(c)
  \/ \E h \in Releases, c \in Categories \cup {Uncategorised} :
       Resolves("add", h, c) \/ (row[h] # NoRow /\ Resolves("set", h, c))

-----------------------------------------------------------------------------
(* Deletes (Engine.DeleteTorrent), with deleteFiles or without.                *)

DeleteFrame == UNCHANGED <<root, catPath, request, recovering, events>>

(* The cancel of step 1 is not waited for: a download it reaches goes on as far  *)
(* as it gets (Fetches, Finalizes), or Stops, and one that starts after it is    *)
(* not reached.  Step 2 reads the row.                                           *)
DeleteReads(h) ==
  /\ deleting = NoDelete /\ row[h] # NoRow
  /\ \E files \in BOOLEAN :
       deleting' = [h |-> h, save |-> row[h].save, content |-> row[h].content, files |-> files]
  /\ doomed' = doomed \cup {h}
  /\ UNCHANGED <<row, job, listed, pass, disk>> /\ DeleteFrame

(* Step 4: the staging tree, and the content unless it is the save path. *)
Removed ==
  Under(Staging(deleting.h, deleting.save)) \cup
  IF deleting.content \in {NoPath, deleting.save} THEN {} ELSE Under(deleting.content)

DeleteRemoves ==
  /\ deleting # NoDelete /\ deleting.files
  /\ disk' = disk \ Removed
  /\ deleting' = [deleting EXCEPT !.files = FALSE]
  /\ UNCHANGED <<row, job, listed, pass, doomed>> /\ DeleteFrame

(* The id of a row that is gone names the row that comes after it. *)
ForgetsNothing(h) == UNCHANGED <<job, listed, pass>>

(* What other loops write by id finds no row from now on. *)
Forgets(h) ==
  /\ job' = IF job[h] = NoJob THEN job ELSE [job EXCEPT ![h].live = FALSE]
  /\ listed' = [listed EXCEPT ![h] = NoPath] /\ pass' = [pass EXCEPT ![h] = NoListing]

(* Step 5. *)
DeleteDrops ==
  /\ deleting # NoDelete /\ ~deleting.files
  /\ row' = [row EXCEPT ![deleting.h] = NoRow]
  /\ Forgets(deleting.h)
  /\ deleting' = NoDelete /\ doomed' = doomed \ {deleting.h}
  /\ UNCHANGED disk /\ DeleteFrame

Delete == DeleteRemoves \/ DeleteDrops \/ \E h \in Releases : DeleteReads(h)

-----------------------------------------------------------------------------
(* The engine's loops, once the startup is over.                               *)

LoopFrame == UNCHANGED <<root, catPath, request, deleting, recovering, events, doomed>>
Running   == recovering = {}

(* The reconciliation lists a torrent, and hands it over by that listing. *)
Lists(h) ==
  /\ Running /\ Is(h, {"QUEUED"}) /\ listed[h] = NoPath
  /\ listed' = [listed EXCEPT ![h] = row[h].save]
  /\ UNCHANGED <<row, job, pass, disk>> /\ LoopFrame

HandsOver(h) ==
  /\ listed[h] # NoPath
  /\ row' = IF Is(h, {"QUEUED"})
            THEN [row EXCEPT ![h].state = "LOCAL_QUEUED", ![h].content = ContentPath(h, listed[h])]
            ELSE row
  /\ listed' = [listed EXCEPT ![h] = NoPath]
  /\ UNCHANGED <<job, pass, disk>> /\ LoopFrame

Fails(h) ==
  /\ Running /\ Is(h, {"QUEUED"})
  /\ row' = [row EXCEPT ![h].state = "ERROR"]
  /\ UNCHANGED <<job, listed, pass, disk>> /\ LoopFrame

(* The download pass lists what is to be downloaded, each time anew, and starts *)
(* a download by that listing, whatever has become of the row.  For a row that *)
(* was re-queued since, and has no files yet, the start is a failure (Fails).  *)
ListsLocal(h) ==
  /\ Running /\ Is(h, Local)
  /\ pass' = [pass EXCEPT ![h] = [state |-> row[h].state, save |-> row[h].save]]
  /\ UNCHANGED <<row, job, listed, disk>> /\ LoopFrame

Starts(h) ==
  /\ pass[h] # NoListing /\ job[h] = NoJob /\ ~Is(h, {"QUEUED"})
  /\ job' = [job EXCEPT ![h] = [at |-> "fetch", save |-> pass[h].save, live |-> TRUE]]
  /\ row' = IF pass[h].state = "LOCAL_QUEUED" /\ Is(h, {"LOCAL_QUEUED"})
            THEN [row EXCEPT ![h].state = "LOCAL_DOWNLOAD"] ELSE row
  /\ pass' = [pass EXCEPT ![h] = NoListing]
  /\ UNCHANGED <<listed, disk>> /\ LoopFrame

Fetches(h) ==
  /\ job[h] # NoJob /\ job[h].at = "fetch"
  /\ \E d \in Staged(h, job[h].save) \ disk : disk' = disk \cup {d}
  /\ UNCHANGED <<row, job, listed, pass>> /\ LoopFrame

(* What has the name of an entry makes way for it. *)
Finalizes(h) ==
  /\ job[h] # NoJob /\ job[h].at = "fetch"
  /\ Staged(h, job[h].save) \subseteq disk
  /\ disk' = (disk \ (Staged(h, job[h].save)
                      \cup UNION {Under(job[h].save \o <<n>>) : n \in Tops[h]}))
             \cup Placed(h, job[h].save)
  /\ job' = [job EXCEPT ![h].at = "placed"]
  /\ UNCHANGED <<row, listed, pass>> /\ LoopFrame

(* With the save path the row has by now. *)
CompletedAtRow(h) == ContentPath(h, row[h].save)

CompletedAt(h) == ContentPath(h, job[h].save)

Completes(h) ==
  /\ job[h] # NoJob /\ job[h].at = "placed"
  /\ row' = IF job[h].live
            THEN [row EXCEPT ![h].state = "COMPLETE", ![h].content = CompletedAt(h)] ELSE row
  /\ job' = [job EXCEPT ![h] = NoJob]
  /\ UNCHANGED <<listed, pass, disk>> /\ LoopFrame

(* Cancelled; or failed, to be tried again or for good. *)
Stops(h) ==
  /\ job[h] # NoJob /\ job[h].at = "fetch"
  /\ row' = row \/ (job[h].live /\ row' = [row EXCEPT ![h].state = "ERROR"])
  /\ job' = [job EXCEPT ![h] = NoJob]
  /\ UNCHANGED <<listed, pass, disk>> /\ LoopFrame

Loops(h) ==
  \/ Lists(h) \/ HandsOver(h) \/ Fails(h)
  \/ ListsLocal(h) \/ Starts(h) \/ Fetches(h) \/ Finalizes(h) \/ Completes(h) \/ Stops(h)

-----------------------------------------------------------------------------
(* A crash, a start with another root, the rebase; then the recovery.          *)

(* What a rebase takes for torrents without anything on disk. *)
Rebased == Pending

UnderRoot(r, c) == IF c = Uncategorised THEN <<r>> ELSE <<r, c>>

(* The categories are left as they are. *)
RebaseTorrents(r) ==
  /\ row' = [h \in Releases |-> IF Is(h, Rebased)
                                THEN [row[h] EXCEPT !.save = UnderRoot(r, row[h].category)]
                                ELSE row[h]]
  /\ UNCHANGED catPath

RebaseToRoot(r) ==
  /\ row' = [h \in Releases |-> IF Is(h, Rebased)
                                THEN [row[h] EXCEPT !.save = UnderRoot(r, row[h].category)]
                                ELSE row[h]]
  /\ catPath' = [c \in Categories |-> IF catPath[c] = NoPath THEN NoPath ELSE UnderRoot(r, c)]

Restart ==
  /\ May
  /\ \E r \in Roots : root' = r /\ RebaseToRoot(r)
  /\ job' = [h \in Releases |-> NoJob]
  /\ listed' = [h \in Releases |-> NoPath] /\ pass' = [h \in Releases |-> NoListing]
  /\ request' = NoRequest /\ deleting' = NoDelete
  /\ recovering' = {h \in Releases : Is(h, Local)}
  /\ UNCHANGED <<disk, doomed>>

(* recoverIfComplete. *)
Recovers(h) ==
  /\ h \in recovering
  /\ row' = IF Is(h, Local) /\ Placed(h, row[h].save) \subseteq disk
            THEN [row EXCEPT ![h].state = "COMPLETE", ![h].content = ContentPath(h, row[h].save)]
            ELSE row
  /\ recovering' = recovering \ {h}
  /\ UNCHANGED <<root, catPath, job, listed, pass, disk, request, deleting, events, doomed>>

Next ==
  \/ Request \/ Delete \/ Restart
  \/ \E h \in Releases : Loops(h) \/ Recovers(h)

Spec == Init /\ [][Next]_vars

-----------------------------------------------------------------------------
(* A torrent that is COMPLETE has all its content where its content_path says, *)
(* whatever happened to its category, its save path and the root while it was  *)
(* downloaded (docs/ARCHITECTURE.md: "reported as pausedUP with a valid        *)
(* content_path"). Not once a delete has been begun for it.                     *)
CompleteIsThere ==
  \A h \in Releases :
    Is(h, {"COMPLETE"}) /\ h \notin doomed =>
      \E save \in Saves : row[h].content = ContentPath(h, save) /\ Placed(h, save) \subseteq disk

(* What a delete removes is of the torrent it deletes (engine.go,              *)
(* DeleteTorrent: "the content_path (folder or single file)").                 *)
DeletesOwn == [][DeleteRemoves => \A d \in disk \ disk' : d.of = deleting.h]_vars

(* What is still to be downloaded goes under the root the process was started  *)
(* with, or where a request has told a category to go (store/rebase.go:        *)
(* "makes the configured download root authoritative").                        *)
PendingUnderRoot ==
  \A h \in Releases : Is(h, Pending) => row[h].save[1] \in {root, Elsewhere}
=============================================================================
