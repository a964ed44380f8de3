------------------------------ MODULE FetchClocks ------------------------------
(* The clocks of a torrent that TorBox is fetching (internal/engine,          *)
(* reconcile.go): the stall clock with its three timeouts, the average-speed   *)
(* window, the cap on the whole fetch, and the reannounces.  One torrent, time *)
(* in ticks of one poll interval, content in blocks.  Every tick may have one  *)
(* pass of the reconciler; some passes fail or come late.                      *)
EXTENDS Naturals

CONSTANTS Size,            \* blocks of the torrent
          Rates,           \* blocks TorBox may fetch in a tick
          Policies,        \* settings to consider, 0 turning a check off
          MaxTime,         \* bound: ticks
          MaxMissed,       \* bound: passes that do not happen, lose the anchor, or find
                           \* the content there without its files
          MaxRestarts,     \* bound: times TorBox starts a fetch from nothing
          MaxActivations   \* bound: submissions of the torrent

Policy == [stall : Nat, progressStall : Nat, cachedStall : Nat, minSpeed : Nat,
           slowWindow : Nat, failAfter : Nat, reannounce : Nat]

ASSUME FetchClocksAssumption ==
  /\ {MaxMissed, MaxRestarts, MaxActivations} \subseteq Nat
  /\ Size \in Nat \ {0} /\ MaxTime \in Nat \ {0}
  /\ Rates \subseteq Nat
  /\ Policies \subseteq Policy

VARIABLES policy,       \* the settings
          now,
          polled,       \* whether this tick has had its pass
          row,          \* the torrent's row
          nudged,       \* lastReannounce: when, or Never
          hit,          \* submit has a cache hit that is not in the row yet
          fetched,      \* blocks TorBox has
          missed, restarts, activations

engineVars == <<policy, row, nudged, hit>>
worldVars  == <<now, polled, fetched, missed, restarts, activations>>

(* What happened, for the properties; no action looks at it. *)
VARIABLES rose,         \* when TorBox last came to have more than at the last pass, or
                        \* the first pass could see it of a torrent submitted again
          moved,        \* when TorBox last reported a speed worth waiting for
          asked,        \* when this process last asked for a reannounce
          known,        \* what TorBox had at the last pass
          dipped,       \* whether a tick since the first block brought too little
          mark          \* some instant since, and what TorBox had then

historyVars == <<rose, moved, asked, known, dipped, mark>>
vars        == <<engineVars, worldVars, historyVars>>

Time  == 0 .. MaxTime
Never == MaxTime + 1

(* torbox_progress, progress_at, speed_at, speed_bytes, active_since; an unset *)
(* clock is 0, and time begins at 1.  sized: the size column is known.         *)
Row == [state : {"QUEUED", "TORBOX_ACTIVE", "LOCAL_QUEUED", "ERROR"},
        error : {"", "stall", "slow", "timeout", "invalid"}, cached : BOOLEAN, sized : BOOLEAN,
        progress : 0 .. Size, progressAt : Time,
        speedAt : Time, speedBytes : 0 .. Size, activeSince : Time]

NoMark == [at |-> Never, blocks |-> 0]

TypeOK ==
  /\ policy \in Policies
  /\ now \in Time /\ polled \in BOOLEAN
  /\ row \in Row
  /\ row.state = "ERROR" <=> row.error # ""
  /\ nudged \in Time \cup {Never}
  /\ hit \in BOOLEAN
  /\ fetched \in 0 .. Size
  /\ missed \in 0 .. MaxMissed /\ restarts \in 0 .. MaxRestarts
  /\ activations \in 0 .. MaxActivations
  /\ {rose, moved} \subseteq Time
  /\ asked \in Time \cup {Never}
  /\ known \in 0 .. Size
  /\ dipped \in BOOLEAN
  /\ mark \in [at : Time \cup {Never}, blocks : 0 .. Size]

Fresh == [state |-> "QUEUED", error |-> "", cached |-> FALSE, sized |-> FALSE,
          progress |-> 0, progressAt |-> 0, speedAt |-> 0, speedBytes |-> 0, activeSince |-> 0]

Init ==
  /\ policy \in Policies
  /\ now = 1 /\ polled = FALSE
  /\ row = Fresh
  /\ nudged = Never /\ hit = FALSE
  /\ fetched = 0 /\ missed = 0 /\ restarts = 0 /\ activations = 0
  /\ rose = 0 /\ moved = 0 /\ asked = Never /\ known = 0 /\ dipped = FALSE /\ mark = NoMark

Active == row.state = "TORBOX_ACTIVE"

-----------------------------------------------------------------------------
(* Statements of the store on the row.                                         *)

MarkActive(r) ==
  [r EXCEPT !.state = "TORBOX_ACTIVE", !.activeSince = now, !.progressAt = now,
            !.speedAt = now, !.speedBytes = 0]

(* The reason of the last failure stays. *)
RequeueFailedNoted(r) == [Fresh EXCEPT !.sized = r.sized, !.error = r.error]

RequeueFailed(r) == [Fresh EXCEPT !.sized = r.sized]

(* Progress that never goes down. *)
UpdateTorBoxStatusUp(r, tb, advancing) ==
  [r EXCEPT !.progress = IF tb.progress > @ THEN tb.progress ELSE @, !.sized = @ \/ tb.sized,
            !.progressAt = IF advancing THEN now ELSE @]

UpdateTorBoxStatus(r, tb, advancing) ==
  [r EXCEPT !.progress = tb.progress, !.sized = @ \/ tb.sized,
            !.progressAt = IF advancing THEN now ELSE @]

ReanchorSpeed(r, blocks) == [r EXCEPT !.speedAt = now, !.speedBytes = blocks]

MarkError(r, why) == [r EXCEPT !.state = "ERROR", !.error = why]

-----------------------------------------------------------------------------
(* reconcileOne on a mylist entry tb and the row as listed.  Speeds are what   *)
(* TorBox reports: none, below the floor, at or above it; the content is being *)
(* fetched, or it is there, without its files, with a file at an unsafe path,  *)
(* or as it should be.                                                         *)

Listing == [progress : {fetched}, sized : BOOLEAN, speed : {"none", "trickle", "moving"},
            content : {c \in {"fetching", "unnamed", "unsafe", "ready"} :
                         c # "fetching" => fetched = Size}]

(* advanceFloor: with the speed check off, any movement counts. *)
Moving(tb) == tb.speed = "moving" \/ (tb.speed = "trickle" /\ policy.minSpeed = 0)

Advancing(tb) == tb.progress > row.progress \/ Moving(tb)

(* A cached release counts as one whatever it does. *)
StallTimeoutByLabel(hasProgress) ==
  IF row.cached THEN policy.cachedStall
  ELSE IF hasProgress THEN policy.progressStall ELSE policy.stall

StallTimeoutFor(hasProgress) ==
  IF hasProgress THEN policy.progressStall
  ELSE IF row.cached THEN policy.cachedStall ELSE policy.stall

StalledFor == now - (IF row.progressAt = 0 THEN row.activeSince ELSE row.progressAt)

Stalled(tb) ==
  LET after == StallTimeoutFor(row.progress > 0 \/ tb.progress > 0)
  IN  ~Advancing(tb) /\ after > 0 /\ StalledFor > after

(* Every silence is worth a nudge. *)
NudgesAtOnce ==
  /\ policy.reannounce > 0 /\ ~row.cached
  /\ nudged = Never \/ now - nudged >= policy.reannounce

Nudges ==
  /\ policy.reannounce > 0 /\ ~row.cached
  /\ StalledFor >= policy.reannounce
  /\ nudged = Never \/ now - nudged >= policy.reannounce

(* Blocks as checkSlow counts them: none while the size is unknown. *)
FetchedBytes(tb) == IF row.sized \/ tb.sized THEN tb.progress ELSE 0

ChecksSpeed == policy.minSpeed > 0 /\ policy.slowWindow > 0

WindowOver == row.speedAt # 0 /\ now - row.speedAt >= policy.slowWindow

TooSlow(tb) ==
  LET gained == IF FetchedBytes(tb) > row.speedBytes THEN FetchedBytes(tb) - row.speedBytes ELSE 0
  IN  /\ ChecksSpeed /\ FetchedBytes(tb) > 0 /\ WindowOver
      /\ gained < policy.minSpeed * (now - row.speedAt)

(* A fetch that moves gets a new window. *)
ReanchorsMoving(tb) == ChecksSpeed /\ (Advancing(tb) \/ row.speedAt = 0 \/ WindowOver)

(* The window of a fetch that has nothing moves only when it is over. *)
ReanchorsLate(tb) == ChecksSpeed /\ (row.speedAt = 0 \/ WindowOver)

(* A window is opened while there is nothing to count, and when one is over.   *)
Reanchors(tb) == ChecksSpeed /\ (FetchedBytes(tb) = 0 \/ row.speedAt = 0 \/ WindowOver)

TooOld == policy.failAfter > 0 /\ now - row.activeSince > policy.failAfter

-----------------------------------------------------------------------------
(* What a pass does with the torrent.                                          *)

HandsOver(tb) ==
  /\ tb.content = "ready"
  /\ row' = [row EXCEPT !.state = "LOCAL_QUEUED"]
  /\ UNCHANGED missed

FailsUnsafe(tb) ==
  /\ tb.content = "unsafe"
  /\ row' = MarkError(row, "invalid")
  /\ UNCHANGED missed

(* Present without files: the pass leaves everything as it is, the row and its *)
(* clocks, and no check is made.                                               *)
WaitsForFiles(tb) ==
  /\ tb.content = "unnamed" /\ missed < MaxMissed
  /\ missed' = missed + 1
  /\ UNCHANGED row

FailsStalled(tb) ==
  /\ tb.content = "fetching" /\ Stalled(tb)
  /\ row' = MarkError(UpdateTorBoxStatus(row, tb, FALSE), "stall")
  /\ UNCHANGED <<nudged, missed>>

(* The entry of lastReannounce after the stall check. *)
NudgeAfter(tb) ==
  IF Advancing(tb) THEN Never ELSE IF Nudges THEN now ELSE nudged

FailsSlow(tb) ==
  /\ tb.content = "fetching" /\ ~Stalled(tb) /\ TooSlow(tb)
  /\ row' = MarkError(UpdateTorBoxStatus(row, tb, Advancing(tb)), "slow")
  /\ nudged' = NudgeAfter(tb)
  /\ UNCHANGED missed

(* The UPDATE that opens a window may fail, which leaves the old one open. *)
Keeps(tb) ==
  /\ tb.content = "fetching" /\ ~Stalled(tb) /\ ~TooSlow(tb)
  /\ LET listed == UpdateTorBoxStatus(row, tb, Advancing(tb))
         after(r) == IF TooOld THEN MarkError(r, "timeout") ELSE r
     IN  \/ /\ row' = after(IF Reanchors(tb) THEN ReanchorSpeed(listed, FetchedBytes(tb)) ELSE listed)
            /\ UNCHANGED missed
         \/ /\ Reanchors(tb) /\ missed < MaxMissed
            /\ row' = after(listed)
            /\ missed' = missed + 1
  /\ nudged' = NudgeAfter(tb)

(* The content is there: reconcileOne returns before it looks at any clock.   *)
FindsContent(tb) ==
  /\ HandsOver(tb) \/ FailsUnsafe(tb) \/ WaitsForFiles(tb)
  /\ UNCHANGED <<nudged, known, moved, asked>>

FindsFetch(tb) ==
  /\ FailsStalled(tb) \/ FailsSlow(tb) \/ Keeps(tb)
  /\ known' = fetched
  /\ moved' = IF Moving(tb) THEN now ELSE moved
  /\ asked' = IF nudged' # nudged /\ nudged' = now THEN now ELSE asked

Pass(tb) ==
  /\ Active /\ ~polled
  /\ FindsContent(tb) \/ FindsFetch(tb)
  /\ polled' = TRUE
  /\ UNCHANGED <<policy, hit, now, fetched, restarts, activations, rose, dipped, mark>>

(* pruneReannounce: a pass that finds the torrent not active forgets the nudge. *)
PassWithout ==
  /\ ~Active /\ ~polled
  /\ nudged' = Never
  /\ polled' = TRUE
  /\ UNCHANGED <<policy, row, hit, now, fetched, missed, restarts, activations, historyVars>>

-----------------------------------------------------------------------------
(* submit: a new torrent, or the one TorBox still has. *)
Activates ==
  /\ row.state = "QUEUED" /\ ~hit /\ activations < MaxActivations
  /\ activations' = activations + 1
  /\ row' = MarkActive(row)
  /\ hit' \in BOOLEAN
  /\ fetched' \in {0, fetched}
  /\ known' = 0 /\ rose' = now /\ moved' = 0 /\ dipped' = FALSE /\ mark' = NoMark
  /\ UNCHANGED <<policy, nudged, now, polled, missed, restarts, asked>>

(* SetTorBoxCached, a statement of its own, for the id only. *)
RecordsCacheHit ==
  /\ hit /\ hit' = FALSE
  /\ row' = [row EXCEPT !.cached = TRUE]
  /\ UNCHANGED <<policy, nudged, worldVars, historyVars>>

Requeues ==
  /\ row.state = "ERROR" /\ activations < MaxActivations
  /\ row' = RequeueFailed(row)
  /\ UNCHANGED <<policy, nudged, hit, worldVars, historyVars>>

(* The process starts again: lastReannounce is gone, and what submit had to    *)
(* record.                                                                     *)
Restart ==
  /\ nudged # Never \/ hit
  /\ nudged' = Never /\ asked' = Never /\ hit' = FALSE
  /\ UNCHANGED <<policy, row, worldVars, rose, moved, known, dipped, mark>>

-----------------------------------------------------------------------------
(* TorBox and time.                                                            *)

(* A tick brings some blocks.  All passes happen but MaxMissed. *)
Tick ==
  /\ now < MaxTime
  /\ now' = now + 1 /\ polled' = FALSE
  /\ missed' = IF polled THEN missed ELSE missed + 1
  /\ polled \/ missed < MaxMissed
  /\ \E rate \in Rates :
       /\ Active \/ rate = 0
       /\ fetched' = IF fetched + rate > Size THEN Size ELSE fetched + rate
  /\ rose' = IF fetched' > known /\ (fetched' > fetched \/ polled) THEN now' ELSE rose
  /\ dipped' = (dipped \/ (fetched' > 0 /\ fetched' - fetched < 2 * policy.minSpeed))
  /\ UNCHANGED <<engineVars, restarts, activations, moved, asked, known, mark>>

(* TorBox begins the fetch again. *)
StartsOver ==
  /\ Active /\ fetched > 0 /\ restarts < MaxRestarts
  /\ fetched' = 0
  /\ restarts' = restarts + 1
  /\ rose' = IF fetched > known THEN row.activeSince ELSE rose
  /\ dipped' = TRUE /\ mark' = NoMark
  /\ UNCHANGED <<engineVars, now, polled, missed, activations, moved, asked, known>>

(* The instant the properties look back to. *)
Marks ==
  /\ Active /\ mark = NoMark /\ fetched > 0 /\ row.sized
  /\ mark' = [at |-> now, blocks |-> fetched]
  /\ UNCHANGED <<engineVars, worldVars, rose, moved, asked, known, dipped>>

Next ==
  \/ \E tb \in Listing : Pass(tb)
  \/ PassWithout \/ Activates \/ RecordsCacheHit \/ Requeues \/ Restart
  \/ Tick \/ StartsOver \/ Marks

Spec == Init /\ [][Next]_vars

-----------------------------------------------------------------------------
Fails(why) == Active /\ row'.error = why

KeptByPass == Active /\ ~polled /\ polled' /\ Active'

(* A torrent is failed as stalled only when TorBox has fetched nothing the     *)
(* last pass did not know, and reported no speed, for longer than the timeout  *)
(* of its tier; whatever it did in an earlier attempt, and although a fetch    *)
(* may start over and climb again below where it was (reconcile.go,            *)
(* reconcileOne; writes.go, UpdateTorBoxStatus).                               *)
StallIsStall ==
  [][Fails("stall") =>
       LET tier == IF fetched > 0 \/ known > 0 THEN policy.progressStall
                   ELSE IF row.cached THEN policy.cachedStall ELSE policy.stall
       IN  rose + tier < now /\ moved + tier < now]_vars

(* A silent torrent does not keep its slot: no later than one pass after the   *)
(* timeout of its tier it is failed, and a tier is a matter of what it does,   *)
(* not of the label it got when submitted (reconcile.go, stallTimeoutFor).     *)
(* A pass that did not happen, or to which TorBox showed the content without   *)
(* its files, puts that off by one pass; nothing in the code bounds those.     *)
StalledIsCaught ==
  [][LET tier == IF fetched > 0 THEN policy.progressStall
                 ELSE IF row.cached THEN policy.cachedStall ELSE policy.stall
     IN  KeptByPass /\ tier > 0 /\ restarts = 0
           => rose + missed' + tier >= now \/ moved' + missed' + tier >= now]_vars

(* A fetch that from its first block on brings twice the floor is never failed *)
(* as slow, however long it waited for that block, unless passes were missed   *)
(* for half a window (reconcile.go, checkSlow).                                *)
FastIsKept ==
  [][Fails("slow") /\ policy.slowWindow >= 2 * MaxMissed => dipped]_vars

(* A fetch that has begun and crawls below the floor is failed after two       *)
(* windows at the latest, whatever speed TorBox reports, and one pass later    *)
(* for each that was missed or found the content without its files             *)
(* (reconcile.go, checkSlow and reconcileOne).                                 *)
CrawlIsCaught ==
  Active /\ polled /\ ChecksSpeed /\ mark # NoMark
    /\ now >= mark.at + 2 * policy.slowWindow + missed
    => fetched - mark.blocks >= policy.minSpeed * policy.slowWindow

(* A process asks TorBox for a reannounce at most once per interval, although  *)
(* it forgets when it last did as soon as the torrent moves or leaves          *)
(* TORBOX_ACTIVE (reconcile.go, maybeReannounce and pruneReannounce).          *)
NudgesSpaced ==
  [][asked' # asked /\ asked' # Never /\ asked # Never
       => now - asked >= policy.reannounce]_vars
=============================================================================
