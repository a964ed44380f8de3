------------------------------- MODULE DiskGate -------------------------------
(* The disk gate of the download loop (internal/engine, download.go): what is  *)
(* left to write, the free space, and the sum over the running downloads are   *)
(* read one after the other while downloads write, report, discard and end.    *)
(* One filesystem, in blocks; known file sizes; the gate switched on.          *)
EXTENDS Integers, FiniteSets, FiniteSetsExt

CONSTANTS Torrents,
          NoTorrent,
          SizeOf,            \* blocks of each torrent
          Capacity,          \* blocks of the disk
          MinFreeSpace,      \* download.min_free_space
          ParallelTorrents,  \* download.parallel_torrents
          MayNotMeasure,     \* whether the free space may be unknown
          MaxFaults          \* bound: failed downloads, files thrown away, blocks
                             \* other programs write, and restarts, together

ASSUME DiskGateAssumption ==
  /\ IsFiniteSet(Torrents) /\ NoTorrent \notin Torrents
  /\ SizeOf \in [Torrents -> Nat \ {0}]
  /\ {Capacity, MinFreeSpace, ParallelTorrents, MaxFaults} \subseteq Nat
  /\ MayNotMeasure \in BOOLEAN

(* For the liveness property: what fits on no disk waits forever. *)
ASSUME EachFits == \A t \in Torrents : SizeOf[t] + MinFreeSpace <= Capacity

VARIABLES phase,        \* "local": to be downloaded; "placed": COMPLETE; "failed"; "gone"
          staged,       \* blocks of it in its staging directory
          placed,       \* blocks of it in place
          running,      \* activeDownloads
          outstanding,  \* what the gate counts for a running download
          stale,        \* rows it listed, and looks at when they are local no more
          at,           \* where the download pass is
          cur,          \* the one it looks at
          remaining, free,
          foreign,      \* blocks of other programs
          faults

(* For the properties. *)
VARIABLES since,        \* blocks written since the free space was read
          unseen,       \* blocks discarded and not yet reported, per download
          slip          \* what the last start may have overlooked, and what
                        \* other programs wrote since; Unchecked after a
                        \* start that could not measure

gateVars == <<at, cur, remaining, free>>
diskVars == <<staged, placed>>
dgVars == <<phase, stale, diskVars, running, outstanding, gateVars, foreign, faults, since, unseen, slip>>

SumOf(f, S) == MapThenSumSet(LAMBDA t : f[t], S)
FreeBlocks == Capacity - SumOf(staged, Torrents) - SumOf(placed, Torrents) - foreign
Unchecked  == -1
(* RemainingBytes: the sizes of the files less what is staged of them; a row   *)
(* that is gone has no files.                                                  *)
Left(t)    == IF phase[t] = "gone" THEN 0 ELSE SizeOf[t] - staged[t]
LeftOf(S)  == SumOf([t \in Torrents |-> Left(t)], S)

DGTypeOK ==
  /\ phase \in [Torrents -> {"local", "placed", "failed", "gone"}]
  /\ staged \in [Torrents -> Nat] /\ \A t \in Torrents : staged[t] <= SizeOf[t]
  /\ placed \in [Torrents -> Nat]
  /\ running \subseteq Torrents /\ stale \subseteq Torrents
  /\ outstanding \in [Torrents -> Nat]
  /\ \A t \in Torrents : outstanding[t] > 0 => t \in running
  /\ at \in {"idle", "sized", "measured", "unmeasured"}
  /\ cur \in Torrents \cup {NoTorrent}
  /\ {remaining, free, foreign, since} \subseteq Nat /\ slip \in Nat \cup {Unchecked}
  /\ unseen \in [Torrents -> Nat]
  /\ FreeBlocks >= 0

None == [t \in Torrents |-> 0]

DGInit ==
  /\ phase = [t \in Torrents |-> "local"] /\ staged = None /\ placed = None
  /\ running = {} /\ outstanding = None /\ stale = {}
  /\ at = "idle" /\ cur = NoTorrent /\ remaining = 0 /\ free = 0
  /\ foreign = 0
  /\ faults = 0
  /\ since = 0 /\ unseen = None /\ slip = 0

-----------------------------------------------------------------------------
(* downloadPass, maybeStartDownload and diskSpaceFor.                          *)

Frame == UNCHANGED <<phase, diskVars, foreign, faults, unseen>>

(* On to another row, with the reading forgotten. *)
NextRow == at' = "idle" /\ cur' = NoTorrent /\ remaining' = 0 /\ free' = 0 /\ since' = 0

(* A pass looks at the rows that are local when it lists them, in an order left *)
(* open; a row that ends or is deleted meanwhile is looked at as it was listed. *)
(* The next pass lists anew.                                                   *)
Lists ==
  /\ at = "idle" /\ stale # {}
  /\ stale' = {}
  /\ UNCHANGED <<running, outstanding, gateVars, since, slip>> /\ Frame

ReadsRemaining(t) ==
  /\ at = "idle" /\ (phase[t] = "local" \/ t \in stale)
  /\ t \notin running /\ Cardinality(running) < ParallelTorrents
  /\ stale' = stale \ {t} /\ cur' = t
  /\ remaining' = Left(t)
  /\ at' = "sized"
  /\ UNCHANGED <<running, outstanding, free, since, slip>> /\ Frame

(* diskFree, asked only when something is left to write. *)
ReadsFree ==
  /\ at = "sized" /\ remaining > 0
  /\ \/ at' = "measured" /\ free' = FreeBlocks
     \/ MayNotMeasure /\ at' = "unmeasured" /\ UNCHANGED free
  /\ since' = 0
  /\ UNCHANGED <<running, outstanding, stale, cur, remaining, slip>> /\ Frame

Starts ==
  /\ running' = running \cup {cur}
  /\ outstanding' = [outstanding EXCEPT ![cur] = remaining]
  /\ NextRow
  /\ UNCHANGED stale /\ Frame

(* The claims of the others are forgotten. *)
NeedsAlone == remaining + MinFreeSpace

(* Those that wait have claims, too. *)
NeedsOfWaiting ==
  remaining + LeftOf({t \in Torrents \ {cur} : phase[t] = "local"}) + MinFreeSpace

Needs == remaining + SumOf(outstanding, Torrents \ {cur}) + MinFreeSpace

StartsMeasured ==
  /\ at = "measured" /\ free >= Needs
  /\ Starts
  /\ slip' = since + SumOf(unseen, running \ {cur})

(* Nothing left to write: it fits, whatever is free. *)
StartsWritten == at = "sized" /\ remaining = 0 /\ Starts /\ UNCHANGED slip

StartsUnmeasured == at = "unmeasured" /\ Starts /\ slip' = Unchecked

Waits ==
  /\ at = "measured" /\ free < Needs
  /\ NextRow
  /\ UNCHANGED <<running, outstanding, stale, slip>> /\ Frame

Gate ==
  \/ Lists \/ ReadsFree \/ StartsMeasured \/ StartsWritten \/ StartsUnmeasured \/ Waits
  \/ \E t \in Torrents : ReadsRemaining(t)

-----------------------------------------------------------------------------
(* downloadOne: a running download.                                            *)

WorldFrame == UNCHANGED gateVars

(* The pass may have listed it before it left its local state. *)
LeavesLocal(t) ==
  stale' = IF phase[t] = "local" /\ phase'[t] # "local" THEN stale \cup {t} ELSE stale

Faulty == faults < MaxFaults /\ faults' = faults + 1

Measuring == at = "measured"

Writes(t) ==
  /\ t \in running /\ Left(t) > 0 /\ FreeBlocks > 0
  /\ staged' = [staged EXCEPT ![t] = @ + 1]
  /\ since' = IF Measuring THEN since + 1 ELSE since
  /\ UNCHANGED <<phase, stale, placed, running, outstanding, foreign, faults, unseen, slip>>
  /\ WorldFrame

(* A file that is wrong is thrown away: its blocks are to be written again. *)
Discards(t) ==
  /\ t \in running /\ Left(t) > 0 /\ Faulty
  /\ \E n \in 1 .. staged[t] :
       /\ staged' = [staged EXCEPT ![t] = @ - n]
       /\ unseen' = [unseen EXCEPT ![t] = @ + n]
  /\ UNCHANGED <<phase, stale, placed, running, outstanding, foreign, since, slip>>
  /\ WorldFrame

(* The progress callback; a deleted one's last report only lowers its claim,   *)
(* and is left out.                                                            *)
Reports(t) ==
  /\ t \in running /\ phase[t] # "gone"
  /\ outstanding' = [outstanding EXCEPT ![t] = Left(t)]
  /\ unseen' = [unseen EXCEPT ![t] = 0]
  /\ UNCHANGED <<phase, stale, diskVars, running, foreign, faults, since, slip>>
  /\ WorldFrame

(* How it ends: with the content in place, in the place of what a download     *)
(* before it may have brought there; with a failure, on a full disk any number *)
(* of them, that is retried or is the last; or the row was COMPLETE, failed or *)
(* deleted and stays so.                                                       *)
Outcome(t) ==
  \/ /\ phase[t] # "gone" /\ Left(t) = 0
     /\ phase' = [phase EXCEPT ![t] = "placed"]
     /\ placed' = [placed EXCEPT ![t] = staged[t]] /\ staged' = [staged EXCEPT ![t] = 0]
     /\ UNCHANGED faults
  \/ /\ phase[t] = "local"
     /\ (FreeBlocks = 0 /\ Left(t) > 0 /\ UNCHANGED faults) \/ Faulty
     /\ phase' \in {phase, [phase EXCEPT ![t] = "failed"]}
     /\ UNCHANGED diskVars
  \/ phase[t] # "local" /\ UNCHANGED <<phase, diskVars, faults>>

(* The claim of a download that has ended stays. *)
DeregistersOnly(t) == running' = running \ {t} /\ UNCHANGED <<outstanding, unseen>>

Deregisters(t) ==
  /\ running' = running \ {t}
  /\ outstanding' = [outstanding EXCEPT ![t] = 0]
  /\ unseen' = [unseen EXCEPT ![t] = 0]

Ends(t) ==
  /\ t \in running
  /\ Outcome(t) /\ Deregisters(t) /\ LeavesLocal(t)
  /\ UNCHANGED <<foreign, since, slip>>
  /\ WorldFrame

-----------------------------------------------------------------------------
(* Around it.                                                                  *)

(* An import takes finished content away, a delete any; the goroutine of a     *)
(* deleted download is cancelled, and ends some time later.                    *)
Deletes(t) ==
  /\ phase[t] # "gone"
  /\ phase' = [phase EXCEPT ![t] = "gone"] /\ LeavesLocal(t)
  /\ staged' = [staged EXCEPT ![t] = 0] /\ placed' = [placed EXCEPT ![t] = 0]
  /\ UNCHANGED <<running, outstanding, foreign, faults, since, unseen, slip>>
  /\ WorldFrame

OtherWrites ==
  /\ Faulty /\ FreeBlocks > 0
  /\ foreign' = foreign + 1
  /\ slip' = IF slip = Unchecked THEN slip ELSE slip + 1
  /\ since' = IF Measuring THEN since + 1 ELSE since
  /\ UNCHANGED <<phase, stale, diskVars, running, outstanding, unseen>>
  /\ WorldFrame

OtherFrees ==
  /\ foreign > 0 /\ foreign' = foreign - 1
  /\ UNCHANGED <<phase, stale, diskVars, running, outstanding, faults, since, unseen, slip>>
  /\ WorldFrame

Crash ==
  /\ Faulty
  /\ running' = {} /\ outstanding' = None /\ unseen' = None
  /\ stale' = {} /\ NextRow
  /\ UNCHANGED <<phase, diskVars, foreign, slip>>

Download(t) == Writes(t) \/ Ends(t)

DGNext ==
  \/ Gate \/ OtherWrites \/ OtherFrees \/ Crash
  \/ \E t \in Torrents : Download(t) \/ Discards(t) \/ Reports(t) \/ Deletes(t)

(* An import, or the removal of a failed row. *)
Cleared(t) == phase[t] \in {"placed", "failed"} /\ Deletes(t)

DGSpec == DGInit /\ [][DGNext]_dgVars

(* Passes go on, each of them looking at every row; downloads write or end;    *)
(* finished content is imported, failed content removed; and what other        *)
(* programs wrote is taken away.                                               *)
DGFairSpec ==
  /\ DGSpec
  /\ WF_dgVars(Gate) /\ WF_dgVars(OtherFrees)
  /\ \A t \in Torrents :
       SF_dgVars(ReadsRemaining(t)) /\ WF_dgVars(Download(t)) /\ WF_dgVars(Cleared(t))

-----------------------------------------------------------------------------
(* The running downloads can finish and leave min_free_space free, but for     *)
(* what was written between the reading of the free space and the sum over the *)
(* running downloads, what they discarded without having reported it, and what *)
(* other programs write (download.go, diskSpaceFor: "without running the       *)
(* filesystem out of space").                                                  *)
RunningFits ==
  slip # Unchecked /\ LeftOf(running) > 0
    => LeftOf(running) + MinFreeSpace <= FreeBlocks + slip

(* A download that waits for space starts at last, or is deleted: nothing that *)
(* ends keeps its claim on the disk, and what waits has none, or two would     *)
(* wait for each other (download.go, maybeStartDownload and diskSpaceFor).     *)
GateOpens ==
  \A t \in Torrents : phase[t] = "local" ~> t \in running \/ phase[t] # "local"
=============================================================================
