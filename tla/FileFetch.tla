------------------------------- MODULE FileFetch -------------------------------
(* One call of internal/downloader.Download: a goroutine per file, Parallel of *)
(* them at a time, each asking for a link and fetching its file with GETs that *)
(* resume from what is on disk.  A file is its size on disk, in blocks; an     *)
(* absent file and an empty one are the same.  The CDN may refuse, send too     *)
(* little or too much, ignore the range, break off or fall silent.             *)
EXTENDS Integers, FiniteSets, FiniteSetsExt

CONSTANTS Files,
          Size,            \* file -> its size according to TorBox, 0 if unknown
          Longest,         \* bound: blocks a response or a leftover file may bring
          Parallel,        \* download.parallel_files
          MaxLinkRetries,  \* maxLinkRetries (5 in the code)
          IdleWatchdog     \* whether download.idle_timeout is not negative

ASSUME FileFetchAssumption ==
  /\ Longest \in Nat /\ Size \in [Files -> 0 .. Longest] /\ IsFiniteSet(Files)
  /\ Parallel \in Nat \ {0} /\ MaxLinkRetries \in Nat /\ IdleWatchdog \in BOOLEAN

VARIABLES disk,        \* file -> what is on disk of it
          downloaded,  \* the counter of all bytes on disk
          step,        \* file -> where its goroutine is
          start,       \* file -> its size when the current GET was sent
          attempt,     \* file -> GETs and links that failed
          cancelled    \* the caller's context is done

vars == <<disk, downloaded, step, start, attempt, cancelled>>

Waiting == {"waiting"}
Ended   == {"done", "failed"}
Running == {"link", "backoff", "get", "answer", "getSilent", "truncate", "append",
            "body", "bodySilent", "verify"}
Busy    == {f \in Files : step[f] \in Running}
OnDisk  == MapThenSumSet(LAMBDA f : disk[f], Files)

TypeOK ==
  /\ disk \in [Files -> 0 .. Longest]
  /\ downloaded \in 0 .. Cardinality(Files) * Longest
  /\ step \in [Files -> Waiting \cup Running \cup Ended]
  /\ start \in [Files -> 0 .. Longest]
  /\ attempt \in [Files -> 0 .. MaxLinkRetries]
  /\ cancelled \in BOOLEAN

Oversize(f, n) == Size[f] > 0 /\ n > Size[f]

(* Download removes what is too long, and counts the rest. *)
Init ==
  /\ disk \in {left \in [Files -> 0 .. Longest] : \A f \in Files : ~Oversize(f, left[f])}
  /\ downloaded = OnDisk
  /\ step = [f \in Files |-> "waiting"]
  /\ start = [f \in Files |-> 0] /\ attempt = [f \in Files |-> 0]
  /\ cancelled = FALSE

Cancel == ~cancelled /\ cancelled' = TRUE /\ UNCHANGED <<disk, downloaded, step, start, attempt>>

-----------------------------------------------------------------------------
(* The helpers are about the goroutine of f.                                   *)

At(f, s)   == step[f] = s
Goes(f, s) == step' = [step EXCEPT ![f] = s]
DiskStays  == UNCHANGED <<disk, downloaded>>

(* Remove the file and the n blocks of it that were counted. *)
DiscardUncounted(f, n) == disk' = [disk EXCEPT ![f] = 0] /\ downloaded' = downloaded
Discard(f, n)          == disk' = [disk EXCEPT ![f] = 0] /\ downloaded' = downloaded - n

(* fetch, after an attempt that failed: try again at once or after a backoff,  *)
(* while the budget lasts.                                                      *)
TryAgain(f, next) ==
  IF attempt[f] < MaxLinkRetries
    THEN Goes(f, next) /\ attempt' = [attempt EXCEPT ![f] = @ + 1]
    ELSE Goes(f, "failed") /\ UNCHANGED attempt

Transient(f) == IF cancelled THEN Goes(f, "failed") /\ UNCHANGED attempt
                             ELSE TryAgain(f, "backoff")

Stays  == UNCHANGED <<attempt, cancelled>>

(* A free place, unless the context is done: then either case of the select.   *)
(* MkdirAll may fail, which fails the file.                                    *)
Acquires(f) ==
  /\ At(f, "waiting") /\ Cardinality(Busy) < Parallel
  /\ IF Size[f] > 0 /\ disk[f] = Size[f] THEN Goes(f, "done")
                                        ELSE Goes(f, "link") \/ Goes(f, "failed")
  /\ DiskStays /\ UNCHANGED start /\ Stays

GivesUpWaiting(f) ==
  /\ At(f, "waiting") /\ cancelled
  /\ Goes(f, "failed")
  /\ DiskStays /\ UNCHANGED start /\ Stays

Links(f) ==
  /\ At(f, "link")
  /\ \/ ~cancelled /\ Goes(f, "get") /\ UNCHANGED attempt
     \/ Transient(f)
  /\ DiskStays /\ UNCHANGED <<start, cancelled>>

BacksOff(f) ==
  /\ At(f, "backoff")
  /\ Goes(f, IF cancelled THEN "failed" ELSE "link")
  /\ DiskStays /\ UNCHANGED start /\ Stays

(* downloadOnce asks for the rest of what is on disk, or for all of it when    *)
(* there is too much.                                                          *)
Gets(f) ==
  /\ At(f, "get")
  /\ Goes(f, "answer")
  /\ IF Oversize(f, disk[f])
       THEN Discard(f, disk[f]) /\ start' = [start EXCEPT ![f] = 0]
       ELSE DiskStays /\ start' = [start EXCEPT ![f] = disk[f]]
  /\ Stays

(* 200: the whole file, so what is on disk of it no longer counts. *)
AnswersAllCounted(f) ==
  /\ At(f, "answer")
  /\ start' = [start EXCEPT ![f] = 0]
  /\ Goes(f, "truncate")
  /\ DiskStays /\ Stays

AnswersAll(f) ==
  /\ At(f, "answer")
  /\ downloaded' = downloaded - start[f] /\ start' = [start EXCEPT ![f] = 0]
  /\ Goes(f, "truncate")
  /\ UNCHANGED disk /\ Stays

(* 206: the rest, or what the server takes for it without having been asked.   *)
AnswersRest(f) ==
  /\ At(f, "answer")
  /\ Goes(f, IF start[f] > 0 THEN "append" ELSE "truncate")
  /\ DiskStays /\ UNCHANGED start /\ Stays

(* 416: there is no rest. *)
AnswersNoRest(f) ==
  /\ At(f, "answer")
  /\ IF Size[f] > 0 /\ start[f] >= Size[f]
       THEN Goes(f, "done") /\ DiskStays /\ UNCHANGED attempt
       ELSE Discard(f, start[f]) /\ TryAgain(f, "link")
  /\ UNCHANGED <<start, cancelled>>

(* The link has expired, a failure that passes, one that does not. *)
AnswersNothing(f) ==
  /\ At(f, "answer")
  /\ \/ TryAgain(f, "link")
     \/ TryAgain(f, "backoff")
     \/ Goes(f, "failed") /\ UNCHANGED attempt
  /\ DiskStays /\ UNCHANGED <<start, cancelled>>

(* OpenFile may fail, which fails the file. *)
Opens(f) ==
  /\ At(f, "truncate") \/ At(f, "append")
  /\ \/ /\ Goes(f, "body")
        /\ disk' = IF At(f, "truncate") THEN [disk EXCEPT ![f] = 0] ELSE disk
     \/ Goes(f, "failed") /\ UNCHANGED disk
  /\ UNCHANGED <<downloaded, start>> /\ Stays

Receives(f) ==
  /\ At(f, "body") \/ At(f, "bodySilent")
  /\ disk[f] < Longest
  /\ disk' = [disk EXCEPT ![f] = @ + 1] /\ downloaded' = downloaded + 1
  /\ Goes(f, "body")
  /\ UNCHANGED start /\ Stays

(* The body ends without an error, however much there was of it.  Closing the  *)
(* file may still fail.                                                        *)
BodyEnds(f) ==
  /\ At(f, "body")
  /\ Goes(f, "verify") \/ Goes(f, "failed")
  /\ DiskStays /\ UNCHANGED start /\ Stays

(* A broken connection, a write that fails, a context that is done.  What was  *)
(* received stays.                                                             *)
BreaksOff(f) ==
  /\ step[f] \in {"answer", "body"} \/ (cancelled /\ step[f] \in {"getSilent", "bodySilent"})
  /\ Transient(f)
  /\ DiskStays /\ UNCHANGED <<start, cancelled>>

FallsSilent(f) ==
  /\ \/ At(f, "answer") /\ Goes(f, "getSilent")
     \/ At(f, "body") /\ Goes(f, "bodySilent")
  /\ DiskStays /\ UNCHANGED start /\ Stays

(* The watchdog armed on reads of the body only. *)
WatchdogReadsOnly(f) ==
  /\ IdleWatchdog /\ At(f, "bodySilent")
  /\ Transient(f)
  /\ DiskStays /\ UNCHANGED <<start, cancelled>>

(* The idle watchdog covers the whole request. *)
Watchdog(f) ==
  /\ IdleWatchdog /\ (At(f, "getSilent") \/ At(f, "bodySilent"))
  /\ Transient(f)
  /\ DiskStays /\ UNCHANGED <<start, cancelled>>

(* A clean end taken for success. *)
VerifiesNothing(f) ==
  /\ At(f, "verify")
  /\ Goes(f, "done")
  /\ DiskStays /\ UNCHANGED start /\ Stays

(* Stat may fail, and the file with it. *)
Verifies(f) ==
  /\ At(f, "verify")
  /\ \/ /\ Size[f] = 0 \/ disk[f] = Size[f]
        /\ Goes(f, "done") /\ DiskStays /\ UNCHANGED attempt
     \/ /\ Size[f] > 0 /\ disk[f] # Size[f]
        /\ Discard(f, disk[f]) /\ TryAgain(f, "link")
     \/ /\ Size[f] > 0
        /\ Goes(f, "failed") /\ DiskStays /\ UNCHANGED attempt
  /\ UNCHANGED <<start, cancelled>>

(* What the goroutine does when it is its turn, whatever the CDN sends. *)
Proceeds(f) ==
  \/ Acquires(f) \/ GivesUpWaiting(f) \/ Links(f) \/ BacksOff(f) \/ Gets(f)
  \/ AnswersAll(f) \/ AnswersRest(f) \/ AnswersNoRest(f) \/ AnswersNothing(f)
  \/ Opens(f) \/ BodyEnds(f) \/ BreaksOff(f) \/ Watchdog(f) \/ Verifies(f)
  \/ FallsSilent(f) \/ (At(f, "body") /\ Receives(f))

Next == Cancel \/ \E f \in Files : Proceeds(f) \/ Receives(f)

Spec == Init /\ [][Next]_vars

(* Every goroutine runs, and the watchdog's timer fires.  The CDN need not     *)
(* answer nor go on, but no body is longer than the model's bound.             *)
FairSpec == Spec /\ \A f \in Files : WF_vars(Proceeds(f))

-----------------------------------------------------------------------------
(* A nil error means that every file is there with its size, whatever way the  *)
(* attempts before took (downloader.go, Download).                             *)
DoneIsWhole == \A f \in Files : At(f, "done") /\ Size[f] > 0 => disk[f] = Size[f]

(* The counter never shows more than is on disk, through resumes, rewrites and *)
(* discarded files, and exactly that once every file is done, so the progress  *)
(* shown ends at 100% (downloader.go, discard).                                *)
CountsWhatIsThere ==
  /\ downloaded <= OnDisk
  /\ (\A f \in Files : At(f, "done")) => downloaded = OnDisk

(* Download returns, even when the CDN sends nothing any more: it does not     *)
(* hold its slot forever (downloader.go, idleWatchdog).                        *)
DownloadReturns == <>(\A f \in Files : step[f] \in Ended)
=============================================================================
