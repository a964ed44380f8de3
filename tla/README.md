# A verification of tordownloader

tordownloader is a Go service that pretends to be qBittorrent for Sonarr and
Radarr, sends their torrents to TorBox, and downloads the finished content. This
directory holds TLA+ modules that model it, TLC configurations that check them on
small instances, and TLAPS proofs of most of their safety properties for every
instance.
Paths below are relative to `internal/` unless they name `cmd/` or `docs/`.

## The system

| part | state it keeps | operations |
|---|---|---|
| `store` | the SQLite table `torrents` (infohash, state, `torbox_id`, `arr_notified`, ...), the files of a torrent; one connection, so every statement is atomic | one method per statement or transaction; most UPDATEs ask for the id only, some for a state as well |
| `engine` submission loop (`engine.go`) | `createCooldownUntil` | every tick: count slots, list QUEUED rows, createtorrent for each while slots are left; 429, outage, duplicate, TorBox's own queue, refusals |
| `engine` reconciliation loop (`reconcile.go`) | `arrAttempts`, `lastReannounce` | every poll: push failures, prune old failures, list active and finished rows, read mylist, reap what is finished, then hand over, keep or fail each active torrent |
| `engine` download loop (`download.go`) | `activeDownloads`, `localRetries`, `outstanding`, `diskWaitNoted` | every 2 s: list LOCAL rows, start a goroutine for each that may run; the goroutine fetches, finalizes, completes, tidies, or fails and backs off |
| `engine` deletes (`engine.go`, `DeleteTorrent`) | none | from a request or from the pruner: cancel the download, delete on TorBox, remove files, drop the row |
| `engine` startup (`startup.go`) | none | a reconcile pass, then complete LOCAL rows whose content is in place |
| `downloader` | files on disk, one byte counter, one idle watchdog per GET | parallel GETs with resume, size checks, retries; `Finalize` moves the staging tree into place |
| `qbit` | the table `categories` of the store | HTTP handlers: add (`savePathFor`, `persist`), delete, create, set and remove categories, rendering |
| `torbox` | rate limiter | client calls; `do` sends a request again after a network error or a 5xx |
| `arr` | none | `NotifyFailed` over every configured instance |
| `main` | none | open the store, move save paths under the configured root (`RebaseToRoot`), run the engine, shut down |
| config, metrics, torrentmeta | none the control flow reads | parsing, counters, decoding |

They interact through the table and through the TorBox account. The three loops
are one goroutine each, every download has its own, and every request of Sonarr
runs on an HTTP goroutine; none of them holds a lock or a transaction from the
moment it reads a row to the moment it writes it. What is hard is therefore: work
from listings others have overtaken; calls to TorBox whose answer is late, lost
or negative although the call was acted on; updates that find another state than
the one they were decided in; crashes between two such steps; and resources
(TorBox slots, places among `parallel_torrents`, claims on the disk, retry
budgets) that must be given back on every path.

What makes each part correct:

- *store*: an id names one torrent forever; guarded updates move only rows in
  the state they ask for.
- *submission*: never more than `max_active_slots` active rows; a row names its
  own torrent; nothing fails a release but a refusal or a create that names no
  torrent; the queue drains.
- *reconciliation*: a slot is always released, a failure always reported, a
  leftover always reaped unless mylist hides it, and nothing that has moved on is
  overwritten; a fetch that delivers is never failed, one that does not is failed in
  time.
- *failure push*: a failure an instance has in its queue is settled whatever the
  other instances do, and none is given up while one may still have it.
- *download*: a torrent is downloaded by one goroutine at a time, becomes
  COMPLETE only with all its content in place, stays so, and every download ends;
  what runs fits on the disk, and what waits for space starts at last.
- *paths*: content is where its row says, whatever becomes of categories and the
  root, and a delete takes what belongs to its torrent.
- *downloader*: success means whole files; the counter follows the disk; a
  silent CDN cannot hold a slot.

The list of hazards, each at its line, is in `PROJECT.json`.

## Modules

| module | models | correspondence |
|---|---|---|
| `Store` | `store` | a table is a function from row ids to rows; each operator is one SQL statement, its WHERE clause included |
| `TorBox` | the account, an external service | ids to entries with a phase: queued, fetching (holds a slot), cached; `DeleteOutcomes` is a delete that works, works unheard, or fails |
| `Requests` | `qbit/add.go` `persist`, `DeleteTorrent`, TorBox on its own | one action per statement or call; extended by both loop modules below |
| `Lifecycle` | the abstract specification: states and moves of `docs/ARCHITECTURE.md` section 3, one row per infohash, at most `MaxSlots` active, ids never given twice | implemented by `Submitter` and `Reconciler` (`FollowsLifecycle`) |
| `Submitter` | `submitPass`, `submit`, `adoptExisting` | `pc` is the place in the pass, `cur` and `reply` the submission in progress; the other loops are whole passes over one row |
| `Reconciler` | `reconcilePass` with `arrPass`, `prunePass`, `reapPass`, `reconcileOne`, `fail` | `todo`, `active`, `seen` are the listings and mylist as read, `cur` the row as it was listed; the other loops are whole passes over one row |
| `LocalDownload` | `downloadPass`, `maybeStartDownload`, `downloadOne`, `localFailed`, `Finalize`, `DeleteTorrent`, `recoverIfComplete` | `job[w]` is a goroutine and where it is, `registered` is `activeDownloads`, `attempts`/`waiting` are `localRetries`; content is a set of top-level entries, staged or placed |
| `FileFetch` | `Download`, `fetch`, `downloadOnce`, `discard`, `idleWatchdog` | per file: `step` is the place of its goroutine, `disk` its size in blocks |
| `FetchClocks` | `reconcileOne` past the lookup, `stallTimeoutFor`, `checkSlow`, `maybeReannounce`, `pruneReannounce`, `recordCacheHit`, the clock statements of `store/writes.go` | one torrent, a pass per tick; `row` has the clock columns, `policy` is the configuration, `nudged` is `lastReannounce`; what TorBox has and when it moved are kept apart for the properties |
| `ArrPush` | `arrPass`, `pruneArrAttempts`, `NotifyFailed`, `notifyOne`, `fetchQueue`, `removeQueueItem` | one failed torrent; `attempt` is its entry of `arrAttempts` as ages, `pos` and `todo` the place in the loops over instances and records; instances list, refresh, fail, and delete from outside |
| `DiskGate` | `maybeStartDownload`, `diskSpaceFor`, the progress callback, `RemainingBytes`, `FreeSpace` | `remaining` and `free` are what the pass has read so far, `outstanding` the claims, `stale` the rows it listed before they left their local state; downloads write blocks meanwhile |
| `Paths` | `savePathFor`, the category handlers, `RebaseToRoot`, and the staging, placing, recovery and deletion of content | paths are sequences of names; `disk` is a set of top-level entries, each with the torrent it belongs to; `listed` and `pass` are what the reconciler and the download pass listed of a torrent |
| `StoreProofs`, `RequestsProofs` | | lemmas on the statements, and on what requests and TorBox do between two of them |
| `SubmitterProofs`, `ReconcilerProofs`, `LocalDownloadProofs`, `PathsProofs` | | the theorems on the module of that name |
| `BytesProofs` | | the theorems on `FileFetch` and `DiskGate`, and what both need of sums |
| `ClocksProofs` | | the theorems on `FetchClocks` and `ArrPush` |
| `MC*` | | instances for TLC; `MCReconcilerLive` adds a note of the rows that were queued again during the push of their failure |

The names `DGTypeOK`, `DGNext`, ... of `DiskGate` and `PushTypeOK`, `PushNext`,
... of `ArrPush` let one proof module extend two models.

Operators that no specification uses (`RequeueAny`, `NextWithoutSlot`,
`LeavesDuplicate`, ... each introduced by a comment) are variants of the operator
beside them with a plausible bug; the properties were seen to fail with them.

## What the runs check

| run | shows | bounds |
|---|---|---|
| `submit` | types; `SlotBound` and `Budget`: the count of slots read once per pass stays right while everything else moves; `RefIsOwnRelease`: a row names a torrent of its own release even when it was deleted and added again during the create; `OnlyVerdictsFail`; `FollowsLifecycle`; `QueueDrains`: no answer, pause, duplicate or failing update leaves a torrent in the queue forever | 2 releases, one of which TorBox may refuse or take without naming a torrent, 2 rows ever, 2 torrents on TorBox, 1 slot, 2 adds or re-queues, 1 crash, store failures |
| `reconcile_safety` | types (a deleted row is not brought back by a late update); `RefIsOwnRelease`; `FollowsLifecycle` | 2 interchangeable releases (symmetry), 2 rows, 2 torrents, 1 slot, 2 adds, 1 crash, *arr configured |
| `reconcile_live` | `LeftoversReaped`: a reference that is left is cleared at last, and none is forgotten while the torrent is there and mylist shows it; `FailuresPushed`, but for rows queued again while a failure of theirs was pushed; `SlotsReleased` | 1 release, 1 row, 2 torrents, 2 adds, *arr configured, mylist with gaps |
| `fetch_clocks` | types (a re-queued row does not keep its failure); `StallIsStall`, `FastIsKept`: no fetch is failed that moved, or that brings twice the floor; `StalledIsCaught`, `CrawlIsCaught`: a silent one is failed within its tier, a crawling one within two windows, and one pass later for each that was missed or found the content without its files; `NudgesSpaced` | 5 blocks, 0 to 2 per tick, 7 ticks, 1 pass missed, anchor lost or content without files, 1 fetch that starts over, 2 activations; three settings: the three stall tiers apart and the window on; the speed check and a tier off and a late cap on; short tiers and an early cap, so that a torrent that was given up is submitted again |
| `arr_push` | types (a row that is gone is not marked); `GivenUpIsUntracked`, `TrackedIsSettled`, `UntrackedIsGivenUp` | 2 instances, of which only the second is sure to answer, 2 records, interval 2, grace 3, refresh 2 ticks, 2 failures, 1 crash |
| `download_safety` | types (with the retry budget); `Exclusive`; `CompletedInPlace`; `CompleteIsFinal` | a release of two top-level entries, 2 rows, 2 adds, 2 goroutines, 2 attempts, deletes, 1 crash |
| `download_live` | `DownloadsEnd`, with one place for two releases | 2 releases, 1 goroutine, 2 attempts |
| `disk_gate` | types (no claim without a download); `RunningFits`; `GateOpens` | torrents of 1, 1 and 2 blocks, a disk of 4, 1 to stay free, 2 at a time, 1 fault (a failure, a discard, a block of other programs, a restart), stale listings, free space that may be unknown |
| `paths` | types (nothing goes on for a row that is gone); `CompleteIsThere`, `PendingUnderRoot`, `DeletesOwn` | 2 releases of one entry, 2 categories, 2 roots (symmetry), 3 events: adds, changes of categories and restarts together; deletes, passes and downloads without limit |
| `file_fetch` | `DoneIsWhole`, `CountsWhatIsThere`, `DownloadReturns` | 3 files, one of unknown size, 2 at a time, up to 2 blocks on disk, 1 retry |
| `download_again`, `path_delete` | the two disagreements below, each refuted by a short trace | 1 release, no crash; `paths` with releases of two entries |

The bounds are enough for what the properties are about: two rows and two adds let
a row be deleted and its infohash added again under a new id, and let a failed row
be re-queued while an older listing of it is in use; one slot for two releases
makes the slot a thing to wait for and to overrun; one crash is a crash between
any two steps; two entries make content that is partly in place; a file of one
block with room for two can be missing, whole, and too long. Seven ticks hold two
windows of two, each stall tier with a tick to spare, and a fetch that fails and
is activated again; three torrents that do not fit together make one wait for
another; an add, a change of its category and a restart, in any order, or two adds
and one of the others, change a save path in every state of a row. `MaxRows`,
`MaxTb`, `MaxAdds`, `MaxCrashes`, `Longest`, `Workers`, `MaxTime`, `MaxMissed`,
`MaxRestarts`, `MaxActivations`, `MaxFailures`, `MaxFaults` and `MaxEvents` are
bounds of the models only. `CHECK_DEADLOCK FALSE` is set throughout, since these
bounds stop the system (adds run out), and a download that has returned is over.

### What the code does and its comments do not say

Two disagreements are runs of their own:

- `download_again` (`CompleteHasContent`, `engine/download.go:66`): a download that
  completed after the pass listed it is started again, and `Finalize` clears the
  content that is in place.
- `path_delete` (`DeletesOwn`, `engine/engine.go:699`): a delete takes
  `content_path` for the torrent's own unless it equals `save_path`. A torrent of
  several top-level entries has its save path for content path; when setCategory
  or the rebase then moves the save path, the delete removes the old one whole.
  With one entry each, `paths` shows that a delete takes nothing else.

The models have the steps of the following ones too, and no property claims
otherwise:

- `qbit/add.go:134`: `persist` finds the infohash tracked and in ERROR, a delete
  drops the row, `RequeueFailed` updates nothing, and the add is answered with
  success (comment at 116-119).
- `engine/reconcile.go:443`: a row re-queued while its failure is pushed is marked
  as notified; its next failure is never pushed (`store/writes.go:55-58`).
  `FailuresPushed` leaves such rows out, by name (`Overtaken`).
- `engine/reconcile.go:87`: the reaper deletes, from an old listing, a torrent
  that a re-queued row has adopted again (80-81).
- `engine/engine.go:517`: a createtorrent that succeeds and names neither a torrent
  nor a queued entry fails the release as rejected, though TorBox refused nothing,
  and what it may have created stays on the account: the row has no id to delete.
  `OnlyVerdictsFail` names the case (`Nameless`).
- `engine/reconcile.go:150`: a torrent whose content is present without a list of
  files is left as it is before any clock is looked at. No detector fails it, not
  even the cap, and it keeps its slot for as long as TorBox shows it so.
- `engine/reconcile.go:100`: the reaper takes a torrent that mylist does not show
  for gone ("e.g. deleted out-of-band") and forgets its id. When mylist only
  missed it, it stays on TorBox. An active torrent is looked up by id first
  (`confirmPresent`).
- `engine/reconcile.go:140`: after adopting a new id, the same pass fails the
  torrent under the old one (138-139), and the torrent stays under its new id.
  `RefIsOwnRelease` covers the row only. The reaper, too, finds by infohash and
  deletes by the id it has.
- `engine/reconcile.go:167`: a fetch at 0%, or of unknown size, that reports a
  speed at the floor or above resets the stall clock in every pass, while
  `checkSlow` slides its window (298-307). It is never failed but by the cap,
  which is off by default. The comment at 284-287, `docs/ARCHITECTURE.md` section
  3 and `config.example.yaml` (48-49) say that a torrent that reports movement and
  delivers nothing is caught.
- `store/rebase.go:14`: a row that failed while it was staged and is re-queued is
  pending, with its staging on disk; a change of the root leaves the staging behind.
- `engine/reconcile.go:437`: the first attempt of a push outlives a re-queue that
  falls between two passes, so that the next failure gets less than the grace.
- `engine/engine.go:657`: `DeleteTorrent` cancels a download and does not wait for
  it. What the download has just moved into place may be removed before its row is
  marked COMPLETE; the row then has no content until the delete drops it. For this
  reason `CompletedInPlace` speaks of torrents that are not being deleted.
- `engine/engine.go:118` calls the cache check informational; the flag chooses the
  stall tier, and turns reannounces off.

Most need a race of milliseconds to seconds, or a restart at the wrong time. None
of them corrupts a row: `FollowsLifecycle` and `RefIsOwnRelease` hold with those
that touch the table in the models.

## Fairness

Liveness is checked under these assumptions, and no others:

- *The process.* Every loop is a ticker that runs again and again, and a pass
  that has begun goes on (weak fairness of the loop); a goroutine runs on, a
  backoff, a cooldown and the watchdog's timer elapse (weak).
- *TorBox, asked again and again* (strong fairness of the one answer): a create
  while a slot is free is answered; a duplicate is found in mylist; mylist and a
  lookup by id do not fail forever; a delete that is repeated works at last. Every
  pass asks again, so each of these is asked infinitely often.
- *TorBox on its own*: a fetch ends, its queue advances (weak), and content it has
  is shown with its files when it is asked for again and again (strong). It does
  not expire or renumber torrents forever (`<>[]`), without which no client could
  make progress.
- *Sonarr and Radarr* (strong): a failure that is pushed again and again is
  settled: handled, or not found for the whole grace.
- *The instances, call by call* (`ArrPush`): only those in `Reliable` answer again
  and again (strong, per record), an instance lists what it grabbed, and the UPDATE
  that marks a row works at last. `UntrackedIsGivenUp` says in its own premise
  that the instances answer after the grace.
- *The disk gate* (`DiskGate`): a pass looks at every row, so each torrent that is
  waiting is looked at again and again (strong); downloads write or end, finished
  and failed content is removed, blocks of other programs are freed (weak).
- *The disk* (strong, in `LocalDownload`, where the gate is an answer): space is
  found again and again, and not every failure is the disk's; the code keeps the
  retry budget for as long as it is.
- *The CDN*: that a body ends, which `Longest` bounds; otherwise nothing.
  `DownloadReturns` holds by the retry budget and the watchdog.

## What is proved

All but three safety properties of the passing runs -- types, invariants, action
properties and the refinement of `Lifecycle` -- are theorems: they hold for all
values of the constants that meet the assumptions, where a run shows them for one
instance. The three are given below. Few of the properties
are inductive, for a step decides on something it read earlier; each invariant says
what is still true of that.

| theorems | the inductive invariant, and why it is needed |
|---|---|
| `SubmitterProofs`: `TypeCorrect`, `SlotsBounded`, `BudgetHolds` | `Budget`: the slots the pass may still fill are free now, though it counted them before; `Named`: what is in progress has its row and its torrent id. Nothing outside the pass activates a row (`OutsideThePass`), and `Tracks` spends a free slot for the one it activates |
| `RefsAreOwn`, `VerdictsOnly`, `SubmitterFollowsLifecycle` | `Submission`: rows listed are QUEUED still, or deleted; a row being submitted has the release it had, or is gone; the answer at hand is about that release; a refusal is of a release TorBox may refuse, an answer without an id of one it may take so. It rests on row ids that are never given twice (`Sound`) and on entries of the account that never change their release (`OwnRefs`, `EntriesKept`) |
| `ReconcilerProofs`: `TypeCorrect`, `RefsAreOwn`, `ReconcilerFollowsLifecycle` | `Worklists`: a row listed as active is active still or deleted, and is listed once; `Shown`: an id in the mylist as read stands for the same release, or for nothing any more. So every update from an old listing is a move the documents know, or none |
| `LocalDownloadProofs`: `TypeCorrect`, `DownloadsExclusive` | `RegistryOK`: `activeDownloads` is the set of releases with a goroutine, one each; `PassOK`: while the pass looks at the disk without the lock, the torrent it is about is not registered and a place is left |
| `CompletedWhole` | `Whole`: what a goroutine has staged, still has to move, or has moved covers the torrent at each point of `Finalize`, while no delete of it is in progress |
| `CompletedStay` | `FInv`, below |
| `PathsProofs`: `TypeCorrect`, `PendingStaysUnderRoot` | `RootsOK`: categories, pending rows and requests in progress name the root of the process, or what a request chose |
| `BytesProofs`: `FilesAreWhole` | `AsAsked`: while an answer is awaited, the file is as long as the request said. This is what justifies taking a 416 for success without another look at the disk |
| `TypeCorrect`, `ProgressIsTrue` | `Counted`: the counter is a sum of what is counted of each file, all of it but for one that failed or is about to be written anew; so it is never negative either |
| `GateTypeCorrect`, `RunningAlwaysFits` | `Claimed`: what a running download has left is claimed, or discarded and not yet reported; `Reading`: what the pass has read covers the torrent, and the free space it has read is there but for what was written since |
| `ClocksProofs`: `TypeCorrect`, `StalledIsSilent`, `SilentIsCaught` | `ClocksOK`: the stall clock is not behind any gain or speed a pass has seen; `Followed`: nor ahead of one |
| `FastAreKept`, `CrawlersAreCaught` | `Gains`: a fast fetch has brought twice the floor since its window opened, but for passes missed; `Marked`: from any instant of a fetch, its window is of the time before, the first since, or one since has had its minimum |
| `NudgesAreSpaced` | `NudgesOK`: the entry of `lastReannounce` is the last that was asked for, and where it was pruned the torrent has moved or begun since |
| `PushTypeCorrect`, `GivenUpMeansUntracked` | `AskedSoFar`: in a pass after the grace, no instance before the place it has come to has a record, or one could not be asked; `FailedBefore`: attempts are no older than the failure, but for a row added again |

`FInv` is the longest. The pass starts downloads from listings that a row may have
left behind, even a row that is COMPLETE by then, and such a download may fail;
that it never fails the row for good rests on three things together. The pass
comes to a release twice at most, once to resume it and once as a queued one
(`Listed`, `OnceMore`), so one late download follows a completion, not more
(`Settled`). What it lists names a torrent on TorBox, or else no goroutine of the
row does (`Cleared`, `Requeued`, `Pairs`), so the late one does not fail at its
start. And a completion clears the count of attempts, so one failure uses up no
budget of two or more. That budget is needed: with `MaxLocalAttempts = 1`, which
the assumption excludes (the code has 8), a late download that fails would turn a
COMPLETE row into an ERROR.

The theorems assume what the constants are assumed to be, which TLC evaluates in
the runs: `StoreAssumption`, `TorBoxAssumption`, `RequestsAssumption`,
`SubmitterAssumption`, `ReconcilerAssumption`, `LocalDownloadAssumption`,
`FileFetchAssumption`, `DiskGateAssumption` (not `EachFits`), `PathsAssumption`,
`NothingAssumption`, `FetchClocksAssumption` and `ArrPushAssumption`. No theorem
has a hypothesis of its own.

Sums over sets (`SumUnfolds`, `SumSplits`, `SumUpdate`, ... in `BytesProofs`) are
folds of the community modules. Their lemmas are proved without an induction
theorem: a claim that fails for some subset of a finite set fails for a smallest
one (`SmallestSet`), which is neither empty nor, with an element taken out, one
for which the claim fails.

Three proofs did not go through as first stated, and TLC found the reason on larger
instances than those of the runs. `CompletedInPlace` was false for a torrent that is
being deleted (two adds and a crash). `StalledIsCaught` was false of a torrent that
is submitted again while TorBox has content of it, which counts as a gain when the
first pass sees it; `rose` now does so too, and the third setting of `fetch_clocks`
reaches the case. `RunningFits` was false after a start that could not be measured,
on larger disks. What was wrong were the statements and the history they look at; no
step of the code's was changed.

Only model-checked is what needs fairness and with it ENABLED, which the prover
does not handle: `QueueDrains`, `LeftoversReaped`, `FailuresPushed`,
`SlotsReleased`, `DownloadsEnd`, `GateOpens`, `TrackedIsSettled`,
`UntrackedIsGivenUp` and `DownloadReturns`; the part of `LeftoversReaped` that is
about single steps goes with it. `CompleteIsThere` and `DeletesOwn` are
model-checked, too: they hold of releases with one top-level entry and a name of
its own, as in `paths`, and the code ensures neither. With two entries the second
is false, as `path_delete` shows; with a name in common `Finalize` replaces the
content of another torrent (`downloader.go:402`). The two disagreements above are
traces TLC finds. No module has a RECURSIVE operator; what is recursive is a
function or a fold, and no claim is made about a function by an induction over its
argument.

## Abstractions

- `added_on` is a stamp that grows with every add and re-queue. `torbox_queued_id`
  is NULL in every row this version writes and is left out.
- `Nameless` are the releases TorBox may take without naming a torrent, as
  `Refusable` those it may refuse. The whole passes of `Reconciler` over a queued
  row count both as a refusal, without what may have been created.
- A row without a source cannot be added, so `submit` on one is not modelled.
- `AddTorrent`'s INSERT and its SELECT are one step. Of the store's failures, the
  UPDATE after a create is modelled (`StoreMayFail`), the others are not.
- One delete per infohash is in progress at a time in `Requests` and in
  `LocalDownload`. The pruner's delete is apart from it.
- TorBox never gives an id twice; the models use one again once nothing names it,
  to keep the id space small. A delete of an id that is gone may be answered
  either way.
- In each module the loops it is not about are whole passes over one row. What
  they do in between is in their own module.
- In `Reconciler` ages and clocks are nondeterministic: any settled failure may be
  old enough to be pruned, and any active torrent may be condemned as stalled or
  slow. When one really is condemned is the matter of `FetchClocks`.
- `FetchClocks`: time goes in ticks of one poll interval, content in blocks, a speed
  is none, below the floor, or not below it. The torrent stays in mylist under its
  id. `stalled` clocks are compared with what TorBox had at the last pass, since a
  pass can know no more. A pass that finds the content without its files counts
  against `MaxMissed`, which the code has no counterpart of.
- `ArrPush`: one torrent and its own records; the page of 1000 is the whole queue.
  Times are ages up to the grace. Records come from at most one grab per failure.
  With two failures a mark made for the first counts as settling the second, as it
  does in the code.
- `DiskGate`: a closed set of torrents, without an endless stream of small ones
  that could overtake a large one; one filesystem (the code adds up claims over
  all of them), files of known size (others count for nothing), the check switched
  on. `slip` is what a start may overlook: the comment at `download.go:78-80` says
  that changes during the check only free capacity, but what is written between
  the reading of the free space and the sum over the claims has left both. A start
  while the space cannot be measured is not held to fit: `slip` is `Unchecked`
  from then until the next start that is measured, whose check counts the claims
  of all that run. `EachFits` is for the liveness property alone. The last report
  of a deleted download, which only lowers its claim, is left out.
- `Paths`: a delete does not wait for the download it cancels, which goes on as
  far as it gets or stops; the download pass lists each torrent on its own. A
  start from a stale listing of a row that is QUEUED again fails in the code, for
  its list of files is gone, and is left to `Fails`. `savePathFor` and `Finalize`
  are one step each, QUEUED stands for TORBOX_ACTIVE, one request and one delete
  are in progress at a time, and files are whole top-level entries. The releases
  of `paths` have different names: entries of one name replace each other
  (`downloader.go:402`).
- `LocalDownload`: an add, its submission and its fetch are one step (`Arrives`);
  of TorBox it keeps only which torrents were deleted, for these give no links. A
  delete may work with its answer lost, and the reference may stay uncleared.
  Files are whole top-level entries; their bytes are in `FileFetch`.
- `FileFetch`: an absent file and an empty one are the same; `discard` removes and
  subtracts in one step; the code does not look at Content-Range, and neither
  does the model.
- A stop of the process is a crash between two steps, with every request in
  progress lost.

## Not modelled

Rendering and the web UI, config, metrics, torrentmeta, the account check and
`VerifyConnections` (they change nothing the engine reads); the columns that only
show (speed, seeds, local progress, notes on a waiting row); the files table, which
is written with the hand-over and read as a whole; the backoff and the rate
limiter of the TorBox client (they take time, and its retries are in
`AnsweredOrLost`) and the pages of mylist (a gap is in `Reconciler`); the walk to an
ancestor that exists before free space is measured; the timeout of the shutdown
(a stop is a crash, which loses more); parsing of forms, magnets and .torrent
files; several filesystems under one root.

## Plan

Done: `Store`, `TorBox`, `Requests`, `Lifecycle`, `Submitter`, `Reconciler`,
`LocalDownload`, `FileFetch`, `FetchClocks`, `DiskGate`, `ArrPush` and `Paths`, with
their safety properties proved but for those named above.

Left, in order:

1. Theorems that say more: what remains true in `Paths` without a restriction on
   the names of entries; that `Lifecycle` itself keeps one row per infohash and
   the bound on active torrents, so that they follow for both loops from the
   refinement.
2. `TorBoxClient`: the retries of `do` against calls that were acted on, with the
   token bucket, as a refinement of `AnsweredOrLost`.
3. `Engine`: the loops composed over one table with coarser steps, refining
   `Lifecycle`.

One run answers several questions where one instance can, so that their number
stays small.

## Running

    tlc -workers 2 -config MCSubmitter.cfg MCSubmitter
    tlapm SubmitterProofs.tla
    tlapm LocalDownloadProofs.tla

`PROJECT.json` lists every run with its configuration, the lines of the source
each definition models, and for each property a change of the model that breaks it.
