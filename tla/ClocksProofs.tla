------------------------------ MODULE ClocksProofs ------------------------------
(* The clocks of the reconciliation loop, for any settings and bounds: those   *)
(* of a fetch, by which a torrent is failed as stalled or as slow only when it *)
(* is, and is when it is; and those of a push, by which a failure is given up  *)
(* only when no instance has it.                                               *)
EXTENDS FetchClocks, ArrPush, TLAPS

USE FetchClocksAssumption

LEMMA Bounds ==
  Size \in Nat \ {0} /\ MaxTime \in Nat \ {0} /\ MaxMissed \in Nat /\ MaxRestarts \in Nat /\ MaxActivations \in Nat
OBVIOUS

-----------------------------------------------------------------------------
(* Arithmetic of speeds. *)

LEMMA Faster ==
  ASSUME NEW m \in Nat, NEW a \in Nat, NEW b \in Nat, a <= b
  PROVE  m * a <= m * b /\ m * b = m * a + m * (b - a)
OBVIOUS

LEMMA AtLeast ==
  ASSUME NEW a \in Nat, NEW b \in Nat, ~(a - 0 < b)
  PROVE  a >= b
OBVIOUS

LEMMA PolicyType ==
  ASSUME TypeOK
  PROVE  /\ policy.stall \in Nat /\ policy.progressStall \in Nat /\ policy.cachedStall \in Nat
         /\ policy.minSpeed \in Nat /\ policy.slowWindow \in Nat
         /\ policy.failAfter \in Nat /\ policy.reannounce \in Nat
BY DEF TypeOK, Policy

-----------------------------------------------------------------------------
(* What a pass makes of the row. *)

LEMMA ListingType ==
  ASSUME TypeOK, NEW tb \in Listing
  PROVE  /\ tb.progress = fetched /\ tb.sized \in BOOLEAN
         /\ FetchedBytes(tb) = (IF row.sized \/ tb.sized THEN fetched ELSE 0)
         /\ FetchedBytes(tb) \in 0 .. Size
<1>1. tb.progress = fetched /\ tb.sized \in BOOLEAN
  BY DEF Listing
<1>2. fetched \in 0 .. Size
  BY DEF TypeOK
<1>3. 0 \in 0 .. Size
  BY Bounds
<1>. QED  BY <1>1, <1>2, <1>3 DEF FetchedBytes

(* The row after a pass that keeps the torrent, or fails it at its age. *)
Noted(tb) ==
  /\ row' \in Row
  /\ row'.state \in {"TORBOX_ACTIVE", "ERROR"} /\ row'.error \in {"", "timeout"}
  /\ row'.state = "ERROR" <=> row'.error # ""
  /\ row'.progress = fetched /\ row'.activeSince = row.activeSince
  /\ row'.cached = row.cached
  /\ row'.progressAt = IF Advancing(tb) THEN now ELSE row.progressAt
  /\ row'.sized = (row.sized \/ tb.sized)

LEMMA FailedRow ==
  ASSUME NEW r \in Row, NEW failed, failed = MarkError(r, "timeout")
  PROVE  /\ failed \in Row /\ failed.state = "ERROR" /\ failed.error = "timeout"
         /\ failed.progress = r.progress /\ failed.activeSince = r.activeSince
         /\ failed.cached = r.cached /\ failed.progressAt = r.progressAt /\ failed.sized = r.sized
         /\ failed.speedAt = r.speedAt /\ failed.speedBytes = r.speedBytes
BY DEF MarkError, Row

(* The window of a pass: opened, left open for want of an UPDATE, or running. *)
Opened(tb)  == /\ Reanchors(tb) /\ missed' = missed
               /\ row'.speedAt = now /\ row'.speedBytes = FetchedBytes(tb)
LeftOpen(tb) == /\ Reanchors(tb) /\ missed' = missed + 1 /\ missed < MaxMissed
                /\ row'.speedAt = row.speedAt /\ row'.speedBytes = row.speedBytes
Runs(tb)    == /\ ~Reanchors(tb) /\ missed' = missed
               /\ row'.speedAt = row.speedAt /\ row'.speedBytes = row.speedBytes

LEMMA KeepsRow ==
  ASSUME TypeOK, Active, NEW tb \in Listing, Keeps(tb)
  PROVE  Noted(tb) /\ (Opened(tb) \/ LeftOpen(tb) \/ Runs(tb))
<1>1. /\ tb.progress = fetched /\ tb.sized \in BOOLEAN /\ FetchedBytes(tb) \in 0 .. Size
      /\ row \in Row /\ now \in Time /\ fetched \in 0 .. Size
      /\ row.state = "TORBOX_ACTIVE" /\ row.error = ""
  BY ListingType DEF TypeOK, Active
<1> DEFINE noted == UpdateTorBoxStatus(row, tb, Advancing(tb))
<1>2. /\ noted \in Row /\ noted.state = "TORBOX_ACTIVE" /\ noted.error = ""
      /\ noted.progress = fetched /\ noted.activeSince = row.activeSince
      /\ noted.cached = row.cached
      /\ noted.progressAt = IF Advancing(tb) THEN now ELSE row.progressAt
      /\ noted.sized = (row.sized \/ tb.sized)
      /\ noted.speedAt = row.speedAt /\ noted.speedBytes = row.speedBytes
  BY <1>1 DEF UpdateTorBoxStatus, Row
<1> DEFINE window == ReanchorSpeed(noted, FetchedBytes(tb))
<1>3. \/ Reanchors(tb) /\ missed' = missed /\ row' \in {window, MarkError(window, "timeout")}
      \/ Reanchors(tb) /\ missed' = missed + 1 /\ missed < MaxMissed
         /\ row' \in {noted, MarkError(noted, "timeout")}
      \/ ~Reanchors(tb) /\ missed' = missed /\ row' \in {noted, MarkError(noted, "timeout")}
  BY DEF Keeps
<1> HIDE DEF noted
<1>4. /\ window \in Row /\ window.state = "TORBOX_ACTIVE" /\ window.error = ""
      /\ window.progress = fetched /\ window.activeSince = row.activeSince
      /\ window.cached = row.cached
      /\ window.progressAt = IF Advancing(tb) THEN now ELSE row.progressAt
      /\ window.sized = (row.sized \/ tb.sized)
      /\ window.speedAt = now /\ window.speedBytes = FetchedBytes(tb)
  BY <1>1, <1>2 DEF ReanchorSpeed, Row
<1> HIDE DEF window
<1>5. ASSUME NEW r \in {noted, window}, row' = r \/ row' = MarkError(r, "timeout")
      PROVE  /\ Noted(tb)
             /\ row'.speedAt = r.speedAt /\ row'.speedBytes = r.speedBytes
  <2>1. /\ r \in Row /\ r.state = "TORBOX_ACTIVE" /\ r.error = ""
        /\ r.progress = fetched /\ r.activeSince = row.activeSince /\ r.cached = row.cached
        /\ r.progressAt = IF Advancing(tb) THEN now ELSE row.progressAt
        /\ r.sized = (row.sized \/ tb.sized)
    BY <1>2, <1>4
  <2>2. CASE row' = r
    BY <2>1, <2>2 DEF Noted
  <2>3. CASE row' = MarkError(r, "timeout")
    <3>1. /\ row' \in Row /\ row'.state = "ERROR" /\ row'.error = "timeout"
          /\ row'.progress = r.progress /\ row'.activeSince = r.activeSince
          /\ row'.cached = r.cached /\ row'.progressAt = r.progressAt /\ row'.sized = r.sized
          /\ row'.speedAt = r.speedAt /\ row'.speedBytes = r.speedBytes
      BY <2>1, <2>3, FailedRow
    <3>. QED  BY <2>1, <3>1 DEF Noted
  <2>. QED  BY <1>5, <2>2, <2>3
<1>6. CASE Reanchors(tb) /\ missed' = missed /\ row' \in {window, MarkError(window, "timeout")}
  BY <1>4, <1>5, <1>6 DEF Opened
<1>7. CASE Reanchors(tb) /\ missed' = missed + 1 /\ missed < MaxMissed
           /\ row' \in {noted, MarkError(noted, "timeout")}
  BY <1>2, <1>5, <1>7 DEF LeftOpen
<1>8. CASE ~Reanchors(tb) /\ missed' = missed /\ row' \in {noted, MarkError(noted, "timeout")}
  BY <1>2, <1>5, <1>8 DEF Runs
<1>. QED  BY <1>3, <1>6, <1>7, <1>8

(* The row after a pass that does away with the torrent. *)
LEMMA LeavesRow ==
  ASSUME TypeOK, Active, NEW tb \in Listing,
         HandsOver(tb) \/ FailsUnsafe(tb) \/ FailsStalled(tb) \/ FailsSlow(tb)
  PROVE  /\ row' \in Row /\ row'.state \in {"LOCAL_QUEUED", "ERROR"} /\ missed' = missed
         /\ row'.state = "ERROR" <=> row'.error # ""
         /\ row'.error = "stall" => FailsStalled(tb)
         /\ row'.error = "slow" => FailsSlow(tb)
<1>1. /\ tb.progress = fetched /\ tb.sized \in BOOLEAN
      /\ row \in Row /\ now \in Time /\ fetched \in 0 .. Size
      /\ row.state = "TORBOX_ACTIVE" /\ row.error = ""
  BY ListingType DEF TypeOK, Active
<1>2. CASE HandsOver(tb)
  BY <1>1, <1>2 DEF HandsOver, Row
<1>3. CASE FailsStalled(tb)
  BY <1>1, <1>3 DEF FailsStalled, MarkError, UpdateTorBoxStatus, Row
<1>4. CASE FailsSlow(tb)
  BY <1>1, <1>4 DEF FailsSlow, MarkError, UpdateTorBoxStatus, Row
<1>5. CASE FailsUnsafe(tb)
  BY <1>1, <1>5 DEF FailsUnsafe, MarkError, Row
<1>. QED  BY <1>2, <1>3, <1>4, <1>5

(* A pass that keeps the torrent for want of its files changes nothing of it.  *)
Waits(tb) ==
  /\ fetched = Size /\ missed < MaxMissed /\ missed' = missed + 1
  /\ UNCHANGED <<row, nudged, known, moved, asked>>

LEMMA PassBy ==
  ASSUME TypeOK, NEW tb \in Listing, Pass(tb)
  PROVE  /\ \/ HandsOver(tb) \/ FailsUnsafe(tb) \/ FailsStalled(tb) \/ FailsSlow(tb)
            \/ Keeps(tb) /\ FindsFetch(tb)
            \/ Waits(tb)
         /\ FindsFetch(tb) \/ UNCHANGED <<nudged, known, moved, asked>>
<1>1. CASE FindsFetch(tb)
  BY <1>1 DEF FindsFetch
<1>2. CASE FindsContent(tb)
  <2>1. WaitsForFiles(tb) => Waits(tb)
    BY <1>2 DEF WaitsForFiles, Waits, FindsContent, Listing
  <2>. QED  BY <1>2, <2>1 DEF FindsContent
<1>. QED  BY <1>1, <1>2 DEF Pass

-----------------------------------------------------------------------------
(* Types. *)

LEMMA InitType == Init => TypeOK
<1> SUFFICES ASSUME Init  PROVE  TypeOK
  OBVIOUS
<1>1. Fresh \in Row /\ Fresh.state = "QUEUED" /\ Fresh.error = ""
  BY Bounds DEF Fresh, Row, Time
<1>2. 1 \in Time /\ 0 \in Time
  BY Bounds DEF Time
<1>3. /\ 0 \in 0 .. MaxMissed /\ 0 \in 0 .. MaxRestarts /\ 0 \in 0 .. MaxActivations /\ 0 \in 0 .. Size
  BY Bounds
<1>4. NoMark \in [at : Time \cup {Never}, blocks : 0 .. Size]
  BY <1>3 DEF NoMark
<1>. QED  BY <1>1, <1>2, <1>3, <1>4 DEF Init, TypeOK

LEMMA PassType ==
  ASSUME TypeOK, NEW tb \in Listing, Pass(tb)
  PROVE  TypeOK'
<1>0. /\ Active /\ now \in Time /\ fetched \in 0 .. Size /\ missed \in 0 .. MaxMissed
      /\ nudged \in Time \cup {Never} /\ asked \in Time \cup {Never} /\ moved \in Time
      /\ UNCHANGED <<policy, hit, now, fetched, restarts, activations, rose, dipped, mark>>
      /\ polled' = TRUE
      /\ FindsFetch(tb) \/ UNCHANGED <<nudged, known, moved, asked>>
  BY PassBy DEF TypeOK, Pass
<1>1. row' \in Row /\ (row.state = "ERROR" <=> row.error # "")' /\ missed' \in 0 .. MaxMissed
  <2>1. CASE Keeps(tb)
    <3>1. Noted(tb) /\ (Opened(tb) \/ LeftOpen(tb) \/ Runs(tb))
      BY <1>0, <2>1, KeepsRow
    <3>2. missed' = missed \/ (missed' = missed + 1 /\ missed < MaxMissed)
      BY <3>1 DEF Opened, LeftOpen, Runs
    <3>3. missed' \in 0 .. MaxMissed
      BY <1>0, <3>2, Bounds
    <3>. QED  BY <3>1, <3>3 DEF Noted
  <2>2. CASE Waits(tb)
    <3>1. row' = row /\ row \in Row /\ (row.state = "ERROR" <=> row.error # "")
      BY <2>2 DEF Waits, TypeOK
    <3>2. missed' \in 0 .. MaxMissed
      BY <1>0, <2>2, Bounds DEF Waits
    <3>. QED  BY <3>1, <3>2
  <2>3. CASE HandsOver(tb) \/ FailsUnsafe(tb) \/ FailsStalled(tb) \/ FailsSlow(tb)
    BY <1>0, <2>3, LeavesRow
  <2>. QED  BY <2>1, <2>2, <2>3, PassBy
<1>2. nudged' \in Time \cup {Never}
  BY <1>0 DEF FindsFetch, FailsStalled, FailsSlow, Keeps, NudgeAfter
<1>3. asked' \in Time \cup {Never} /\ moved' \in Time /\ known' \in 0 .. Size
  <2>1. known \in 0 .. Size
    BY DEF TypeOK
  <2>. QED  BY <1>0, <2>1 DEF FindsFetch
<1>. QED  BY <1>0, <1>1, <1>2, <1>3 DEF TypeOK

LEMMA ActivatesType ==
  ASSUME TypeOK, Activates
  PROVE  /\ TypeOK'
         /\ row'.state = "TORBOX_ACTIVE" /\ row'.activeSince = now /\ row'.progressAt = now
         /\ row'.speedAt = now /\ row'.speedBytes = 0 /\ row'.progress = row.progress
<1>1. /\ row \in Row /\ row.state = "QUEUED" /\ row.error = "" /\ now \in Time /\ fetched \in 0 .. Size
      /\ row' = MarkActive(row)
  BY DEF TypeOK, Activates
<1>2. 0 \in 0 .. Size /\ 0 \in Time
  BY Bounds DEF Time
<1>3. /\ row' \in Row /\ row'.state = "TORBOX_ACTIVE" /\ row'.error = ""
      /\ row'.activeSince = now /\ row'.progressAt = now
      /\ row'.speedAt = now /\ row'.speedBytes = 0 /\ row'.progress = row.progress
  BY <1>1, <1>2 DEF MarkActive, Row
<1>4. activations' \in 0 .. MaxActivations
  <2>1. activations \in 0 .. MaxActivations
    BY DEF TypeOK
  <2>2. activations' = activations + 1 /\ activations < MaxActivations
    BY DEF Activates
  <2>. QED  BY <2>1, <2>2, Bounds
<1>5. NoMark \in [at : Time \cup {Never}, blocks : 0 .. Size]
  BY <1>2 DEF NoMark
<1>6. /\ UNCHANGED <<policy, nudged, now, polled, missed, restarts, asked>>
      /\ hit' \in BOOLEAN /\ fetched' \in {0, fetched}
      /\ known' = 0 /\ rose' = now /\ moved' = 0 /\ dipped' = FALSE /\ mark' = NoMark
  BY DEF Activates
<1>. QED  BY <1>1, <1>2, <1>3, <1>4, <1>5, <1>6 DEF TypeOK

LEMMA TickType ==
  ASSUME TypeOK, Tick
  PROVE  /\ TypeOK'
         /\ missed' = (IF polled THEN missed ELSE missed + 1)
         /\ fetched <= fetched' /\ (Active \/ fetched' = fetched)
<1>0. /\ now \in Time /\ fetched \in 0 .. Size /\ missed \in 0 .. MaxMissed /\ row \in Row
      /\ rose \in Time
  BY DEF TypeOK
<1>1. now' = now + 1 /\ now' \in Time
  BY <1>0, Bounds DEF Tick, Time
<1>2. missed' = (IF polled THEN missed ELSE missed + 1) /\ missed' \in 0 .. MaxMissed
  BY <1>0, Bounds DEF Tick
<1>3. PICK rate \in Rates : /\ Active \/ rate = 0
                            /\ fetched' = IF fetched + rate > Size THEN Size ELSE fetched + rate
  BY DEF Tick
<1>4. /\ fetched' \in 0 .. Size /\ fetched <= fetched' /\ (Active \/ fetched' = fetched)
  <2>1. rate \in Nat
    OBVIOUS
  <2>. QED  BY <1>0, <1>3, <2>1, Bounds
<1>5. rose' \in Time /\ dipped' \in BOOLEAN /\ polled' = FALSE
  BY <1>0, <1>1 DEF Tick
<1>6. UNCHANGED <<policy, row, nudged, hit, restarts, activations, moved, asked, known, mark>>
  BY DEF Tick, engineVars
<1>. QED  BY <1>1, <1>2, <1>4, <1>5, <1>6 DEF TypeOK

LEMMA RequeuesType ==
  ASSUME TypeOK, Requeues
  PROVE  TypeOK' /\ row'.state = "QUEUED" /\ row'.progress = 0
<1>1. row \in Row /\ row' = RequeueFailed(row) /\ UNCHANGED <<policy, nudged, hit, worldVars, historyVars>>
  BY DEF TypeOK, Requeues
<1>2. Fresh \in Row /\ Fresh.state = "QUEUED" /\ Fresh.error = "" /\ Fresh.progress = 0
  BY Bounds DEF Fresh, Row, Time
<1>3. row' \in Row /\ row'.state = "QUEUED" /\ row'.error = "" /\ row'.progress = 0
  BY <1>1, <1>2 DEF RequeueFailed, Row
<1>. QED  BY <1>1, <1>3 DEF TypeOK, worldVars, historyVars

(* The steps that leave the row, but for its label. *)
Aside ==
  \/ PassWithout \/ RecordsCacheHit \/ Restart \/ StartsOver \/ Marks \/ UNCHANGED vars

LEMMA AsideType ==
  ASSUME TypeOK, Aside
  PROVE  /\ TypeOK' /\ UNCHANGED <<policy, now, missed, known, moved>>
         /\ row'.state = row.state /\ row'.error = row.error /\ row'.progress = row.progress
         /\ row'.progressAt = row.progressAt /\ row'.activeSince = row.activeSince
         /\ row'.speedAt = row.speedAt /\ row'.speedBytes = row.speedBytes /\ row'.sized = row.sized
<1>0. row \in Row /\ 0 \in 0 .. Size /\ now \in Time /\ restarts \in 0 .. MaxRestarts
      /\ fetched \in 0 .. Size
  <2>1. 0 \in 0 .. Size
    BY Bounds
  <2>. QED  BY <2>1 DEF TypeOK
<1>1. CASE PassWithout
  BY <1>1 DEF PassWithout, TypeOK, historyVars
<1>2. CASE RecordsCacheHit
  <2>1. row' = [row EXCEPT !.cached = TRUE]
    BY <1>2 DEF RecordsCacheHit
  <2>2. /\ row' \in Row /\ row'.state = row.state /\ row'.error = row.error
        /\ row'.progress = row.progress
        /\ row'.progressAt = row.progressAt /\ row'.activeSince = row.activeSince
        /\ row'.speedAt = row.speedAt /\ row'.speedBytes = row.speedBytes /\ row'.sized = row.sized
    BY <1>0, <2>1 DEF Row
  <2>. QED  BY <1>2, <2>2 DEF RecordsCacheHit, TypeOK, worldVars, historyVars
<1>3. CASE Restart
  BY <1>3 DEF Restart, TypeOK, worldVars
<1>4. CASE StartsOver
  <2>1. NoMark \in [at : Time \cup {Never}, blocks : 0 .. Size]
    BY <1>0 DEF NoMark
  <2>2. restarts' \in 0 .. MaxRestarts
    BY <1>0, <1>4, Bounds DEF StartsOver
  <2>3. rose' \in Time
    BY <1>0, <1>4 DEF StartsOver, TypeOK, Row
  <2>. QED  BY <1>0, <1>4, <2>1, <2>2, <2>3 DEF StartsOver, TypeOK, engineVars
<1>5. CASE Marks
  BY <1>0, <1>5 DEF Marks, TypeOK, engineVars, worldVars
<1>6. CASE UNCHANGED vars
  BY <1>6 DEF vars, TypeOK, engineVars, worldVars, historyVars
<1>. QED  BY <1>1, <1>2, <1>3, <1>4, <1>5, <1>6 DEF Aside

LEMMA Steps ==
  ASSUME [Next]_vars
  PROVE  (\E tb \in Listing : Pass(tb)) \/ Activates \/ Requeues \/ Tick \/ Aside
BY DEF Next, Aside

LEMMA NextType ==
  ASSUME TypeOK, [Next]_vars
  PROVE  TypeOK'
BY Steps, PassType, ActivatesType, TickType, RequeuesType, AsideType

(* Every variable has its type; a row has a reason exactly when it has failed. *)
THEOREM TypeCorrect == Spec => []TypeOK
BY InitType, NextType, PTL DEF Spec

-----------------------------------------------------------------------------
(* The stall clock. *)

(* A torrent in TORBOX_ACTIVE: the row has what the last pass saw; the stall   *)
(* clock is not behind any rise the row has seen, nor any speed.               *)
ClocksOK ==
  /\ 1 <= now /\ rose <= now
  /\ row.state = "QUEUED" => row.progress = 0
  /\ Active =>
       /\ row.progress = known
       /\ 1 <= row.activeSince /\ row.activeSince <= row.progressAt /\ row.progressAt <= now
       /\ moved <= row.progressAt
       /\ fetched <= known => rose <= row.progressAt
       /\ 1 <= row.speedAt /\ row.speedAt <= now

LEMMA Numbers ==
  ASSUME TypeOK
  PROVE  /\ now \in Nat /\ rose \in Nat /\ moved \in Nat /\ known \in Nat /\ fetched \in Nat
         /\ missed \in Nat /\ restarts \in Nat
         /\ row.progress \in Nat /\ row.progressAt \in Nat /\ row.activeSince \in Nat
         /\ row.speedAt \in Nat /\ row.speedBytes \in Nat
         /\ nudged \in Nat /\ asked \in Nat /\ Never \in Nat /\ now < Never /\ now <= MaxTime
         /\ mark.at \in Nat /\ mark.blocks \in Nat
<1>1. /\ now \in Time /\ rose \in Time /\ moved \in Time /\ known \in 0 .. Size /\ fetched \in 0 .. Size
      /\ missed \in 0 .. MaxMissed /\ restarts \in 0 .. MaxRestarts /\ row \in Row
      /\ nudged \in Time \cup {Never} /\ asked \in Time \cup {Never}
      /\ mark \in [at : Time \cup {Never}, blocks : 0 .. Size]
  BY DEF TypeOK
<1>2. /\ Never \in Nat /\ \A t \in Time : t \in Nat /\ t < Never /\ t <= MaxTime
      /\ \A n \in 0 .. Size : n \in Nat
      /\ \A n \in 0 .. MaxMissed : n \in Nat
      /\ \A n \in 0 .. MaxRestarts : n \in Nat
  BY Bounds DEF Time, Never
<1>3. /\ row.progress \in 0 .. Size /\ row.speedBytes \in 0 .. Size
      /\ row.progressAt \in Time /\ row.activeSince \in Time /\ row.speedAt \in Time
      /\ mark.at \in Time \cup {Never} /\ mark.blocks \in 0 .. Size
  BY <1>1 DEF Row
<1>. QED  BY <1>1, <1>2, <1>3

(* A torrent that is in TORBOX_ACTIVE after a pass was kept by it, or waits for *)
(* its files.                                                                  *)
Kept(tb) ==
  /\ Keeps(tb) /\ FindsFetch(tb)
  /\ Noted(tb) /\ (Opened(tb) \/ LeftOpen(tb) \/ Runs(tb))

LEMMA PassKeeps ==
  ASSUME TypeOK, NEW tb \in Listing, Pass(tb), Active'
  PROVE  Kept(tb) \/ Waits(tb)
<1>1. Active
  BY DEF Pass
<1>2. ~(HandsOver(tb) \/ FailsUnsafe(tb) \/ FailsStalled(tb) \/ FailsSlow(tb))
  BY <1>1, LeavesRow DEF Active
<1>3. (Keeps(tb) /\ FindsFetch(tb)) \/ Waits(tb)
  BY <1>2, PassBy
<1>4. Keeps(tb) /\ FindsFetch(tb) => Kept(tb)
  BY <1>1, KeepsRow DEF Kept
<1>. QED  BY <1>3, <1>4

LEMMA InitClocks == Init => ClocksOK
<1>1. Fresh.state = "QUEUED" /\ Fresh.progress = 0
  BY DEF Fresh
<1>. QED  BY <1>1 DEF Init, ClocksOK, Active

LEMMA NextClocks ==
  ASSUME TypeOK, ClocksOK, [Next]_vars
  PROVE  ClocksOK'
<1>0. TypeOK'
  BY NextType
<1>1. ASSUME NEW tb \in Listing, Pass(tb)  PROVE  ClocksOK'
  <2>1. Active /\ UNCHANGED <<now, fetched, rose>>
    BY <1>1 DEF Pass
  <2>2. CASE Active' /\ Kept(tb)
    <3>0. known' = fetched /\ moved' = (IF Moving(tb) THEN now ELSE moved)
      BY <2>2 DEF Kept, FindsFetch
    <3>1. Noted(tb) /\ (Opened(tb) \/ LeftOpen(tb) \/ Runs(tb))
      BY <2>2 DEF Kept
    <3>2. row'.progress = fetched /\ row'.activeSince = row.activeSince
          /\ row'.progressAt = IF Advancing(tb) THEN now ELSE row.progressAt
      BY <3>1 DEF Noted
    <3>3. row'.speedAt = now \/ row'.speedAt = row.speedAt
      BY <3>1 DEF Opened, LeftOpen, Runs
    <3>4. Moving(tb) => Advancing(tb)
      BY DEF Advancing
    <3>5. ~Advancing(tb) => fetched <= row.progress
      BY Numbers, ListingType DEF Advancing
    <3>. QED  BY <2>1, <2>2, <3>0, <3>2, <3>3, <3>4, <3>5, Numbers DEF ClocksOK, Active
  <2>3. CASE Waits(tb)
    BY <2>1, <2>3 DEF Waits, ClocksOK, Active
  <2>4. CASE ~Active'
    <3>1. row'.state \notin {"QUEUED"}
      <4>1. CASE Keeps(tb)
        BY <2>1, <4>1, KeepsRow DEF Noted
      <4>2. CASE Waits(tb)
        BY <2>1, <2>4, <4>2 DEF Waits, Active
      <4>3. CASE HandsOver(tb) \/ FailsUnsafe(tb) \/ FailsStalled(tb) \/ FailsSlow(tb)
        BY <2>1, <4>3, LeavesRow
      <4>. QED  BY <1>1, <4>1, <4>2, <4>3, PassBy
    <3>. QED  BY <2>1, <2>4, <3>1 DEF ClocksOK
  <2>. QED  BY <1>1, <2>2, <2>3, <2>4, PassKeeps
<1>2. CASE Activates
  <2>1. /\ row'.state = "TORBOX_ACTIVE" /\ row'.activeSince = now /\ row'.progressAt = now
        /\ row'.speedAt = now /\ row'.progress = row.progress
    BY <1>2, ActivatesType
  <2>2. now' = now /\ known' = 0 /\ rose' = now /\ moved' = 0 /\ row.state = "QUEUED"
    BY <1>2 DEF Activates
  <2>. QED  BY <2>1, <2>2, Numbers DEF ClocksOK
<1>3. CASE Requeues
  <2>1. row'.state = "QUEUED" /\ row'.progress = 0 /\ UNCHANGED <<now, rose>>
    BY <1>3, RequeuesType DEF Requeues, worldVars, historyVars
  <2>. QED  BY <2>1 DEF ClocksOK, Active
<1>4. CASE Tick
  <2>1. /\ now' = now + 1 /\ UNCHANGED <<row, known, moved>>
        /\ \/ rose' = now' /\ fetched' > known
           \/ rose' = rose /\ (fetched' > known => fetched' = fetched)
    <3>1. fetched <= fetched' /\ fetched \in 0 .. Size /\ fetched' \in 0 .. Size
      BY <1>0, <1>4, TickType DEF TypeOK
    <3>2. fetched' > fetched \/ fetched' = fetched
      BY <3>1, Bounds
    <3>. QED  BY <1>4, <3>2 DEF Tick, engineVars
  <2>2. fetched <= fetched' /\ fetched' \in Nat
    <3>1. fetched <= fetched' /\ fetched' \in 0 .. Size
      BY <1>0, <1>4, TickType DEF TypeOK
    <3>. QED  BY <3>1, Bounds
  <2>. QED  BY <2>1, <2>2, Numbers DEF ClocksOK, Active
<1>5. CASE Aside
  <2>1. /\ UNCHANGED <<now, known, moved>>
        /\ row'.state = row.state /\ row'.progress = row.progress
        /\ row'.progressAt = row.progressAt /\ row'.activeSince = row.activeSince
        /\ row'.speedAt = row.speedAt
    BY <1>5, AsideType
  <2>2. CASE StartsOver
    <3>1. Active /\ rose' = IF fetched > known THEN row.activeSince ELSE rose
      BY <2>2 DEF StartsOver
    <3>. QED  BY <2>1, <3>1, Numbers DEF ClocksOK, Active
  <2>3. CASE UNCHANGED <<fetched, rose>>
    BY <2>1, <2>3 DEF ClocksOK, Active
  <2>4. StartsOver \/ UNCHANGED <<fetched, rose>>
    BY <1>5 DEF Aside, PassWithout, RecordsCacheHit, Restart, Marks, vars, worldVars, historyVars
  <2>. QED  BY <2>2, <2>3, <2>4
<1>. QED  BY <1>1, <1>2, <1>3, <1>4, <1>5, Steps

(* Only the stall check fails a torrent as stalled, only the speed check as    *)
(* slow.                                                                       *)
LEMMA FailsBy ==
  ASSUME TypeOK, [Next]_vars, NEW why \in {"stall", "slow"}, Fails(why)
  PROVE  /\ \E tb \in Listing : /\ Pass(tb)
                                /\ why = "stall" => FailsStalled(tb)
                                /\ why = "slow" => FailsSlow(tb)
         /\ UNCHANGED <<now, policy>>
<1>1. Active /\ row.state = "TORBOX_ACTIVE" /\ row.error = "" /\ row'.error = why
  BY DEF Fails, Active, TypeOK
<1>2. ASSUME NEW tb \in Listing, Pass(tb)
      PROVE  /\ why = "stall" => FailsStalled(tb)
             /\ why = "slow" => FailsSlow(tb)
  <2>1. CASE Keeps(tb)
    BY <1>1, <2>1, KeepsRow DEF Noted
  <2>2. CASE Waits(tb)
    BY <1>1, <2>2 DEF Waits
  <2>3. CASE HandsOver(tb) \/ FailsUnsafe(tb) \/ FailsStalled(tb) \/ FailsSlow(tb)
    BY <1>1, <2>3, LeavesRow
  <2>. QED  BY <1>2, <2>1, <2>2, <2>3, PassBy
<1>3. ~Activates /\ ~Requeues
  BY <1>1 DEF Activates, Requeues
<1>4. ~Aside /\ ~Tick
  BY <1>1, AsideType DEF Tick, engineVars
<1>. QED  BY <1>2, <1>3, <1>4, Steps DEF Pass

(* A torrent is failed as stalled only when TorBox has fetched nothing the     *)
(* last pass did not know, and reported no speed, for longer than the timeout  *)
(* of its tier.                                                                *)
THEOREM StalledIsSilent == Spec => StallIsStall
<1> DEFINE tier == IF fetched > 0 \/ known > 0 THEN policy.progressStall
                   ELSE IF row.cached THEN policy.cachedStall ELSE policy.stall
<1>1. ASSUME TypeOK, ClocksOK, [Next]_vars, Fails("stall")
      PROVE  rose + tier < now /\ moved + tier < now
  <2>1. PICK tb \in Listing : Pass(tb) /\ FailsStalled(tb)
    BY <1>1, FailsBy
  <2>2. /\ row.progress = known /\ row.progressAt <= now /\ moved <= row.progressAt
        /\ fetched <= known => rose <= row.progressAt
        /\ 1 <= row.activeSince /\ row.activeSince <= row.progressAt
    BY <1>1 DEF ClocksOK, Fails
  <2>3. tb.progress = fetched
    BY <1>1, ListingType
  <2>4. ~Advancing(tb) /\ StalledFor > StallTimeoutFor(row.progress > 0 \/ tb.progress > 0)
    BY <2>1 DEF FailsStalled, Stalled
  <2>5. StallTimeoutFor(row.progress > 0 \/ tb.progress > 0) = tier
    BY <2>2, <2>3 DEF StallTimeoutFor
  <2>6. StalledFor = now - row.progressAt
    BY <1>1, <2>2, Numbers DEF StalledFor
  <2>7. fetched <= known
    BY <1>1, <2>2, <2>3, <2>4, Numbers DEF Advancing
  <2>8. tier \in Nat
    BY <1>1, PolicyType
  <2> HIDE DEF tier
  <2>. QED  BY <1>1, <2>2, <2>4, <2>5, <2>6, <2>7, <2>8, Numbers
<1>2. TypeOK /\ ClocksOK /\ [Next]_vars =>
        [Fails("stall") =>
           LET t == IF fetched > 0 \/ known > 0 THEN policy.progressStall
                    ELSE IF row.cached THEN policy.cachedStall ELSE policy.stall
           IN  rose + t < now /\ moved + t < now]_vars
  BY <1>1
<1>. QED  BY <1>2, InitType, NextType, InitClocks, NextClocks, PTL DEF Spec, StallIsStall

-----------------------------------------------------------------------------
(* The reannounces. *)

(* The entry of lastReannounce, where there is one, is the last that was asked *)
(* for; and where there is none, the torrent has moved or begun since.         *)
NudgesOK ==
  /\ nudged # Never => asked = nudged
  /\ asked # Never => asked <= now
  /\ Active /\ nudged = Never /\ asked # Never => asked <= row.progressAt

LEMMA NextNudges ==
  ASSUME TypeOK, ClocksOK, NudgesOK, [Next]_vars
  PROVE  NudgesOK'
<1>1. ASSUME NEW tb \in Listing, Pass(tb)  PROVE  NudgesOK'
  <2>0. CASE UNCHANGED <<nudged, asked>> /\ (Active' => Waits(tb))
    <3>1. Active /\ now' = now
      BY <1>1 DEF Pass
    <3>. QED  BY <2>0, <3>1 DEF NudgesOK, Waits
  <2> SUFFICES ASSUME FindsFetch(tb)  PROVE  NudgesOK'
    <3>1. ~FindsFetch(tb) => UNCHANGED <<nudged, asked>> /\ (Active' => Waits(tb))
      BY <1>1, PassBy, PassKeeps DEF Kept
    <3>. QED  BY <2>0, <3>1
  <2>1. /\ Active /\ now' = now
        /\ asked' = IF nudged' # nudged /\ nudged' = now THEN now ELSE asked
    BY <1>1 DEF Pass, FindsFetch
  <2>2. nudged' \in {nudged, Never, now} /\ (Active' => nudged' = NudgeAfter(tb))
    <3>1. nudged' = nudged \/ nudged' = NudgeAfter(tb)
      BY DEF FindsFetch, FailsStalled, FailsSlow, Keeps
    <3>2. Active' => Keeps(tb)
      BY <2>1, LeavesRow DEF FindsFetch, Active
    <3>. QED  BY <3>1, <3>2 DEF Keeps, NudgeAfter
  <2>3. (nudged # Never => asked = nudged)' /\ (asked # Never => asked <= now)'
    BY <2>1, <2>2, Numbers DEF NudgesOK
  <2>4. ASSUME Active', nudged' = Never, asked' # Never
        PROVE  asked' <= row'.progressAt
    <3>1. asked' = asked
      BY <2>1, <2>4, Numbers
    <3>2. row'.progressAt = IF Advancing(tb) THEN now ELSE row.progressAt
      <4>1. Keeps(tb)
        BY <2>1, <2>4, LeavesRow DEF FindsFetch, Active
      <4>. QED  BY <2>1, <4>1, KeepsRow DEF Noted
    <3>3. CASE Advancing(tb)
      BY <2>4, <3>1, <3>2, <3>3, Numbers DEF NudgesOK
    <3>4. CASE ~Advancing(tb)
      <4>1. nudged = Never
        BY <2>2, <2>4, <3>4, Numbers DEF NudgeAfter
      <4>. QED  BY <2>1, <2>4, <3>1, <3>2, <3>4, <4>1 DEF NudgesOK
    <3>. QED  BY <3>3, <3>4
  <2>. QED  BY <2>3, <2>4 DEF NudgesOK
<1>2. CASE Activates
  <2>1. row'.progressAt = now /\ UNCHANGED <<now, nudged, asked>>
    BY <1>2, ActivatesType DEF Activates
  <2>. QED  BY <2>1 DEF NudgesOK
<1>3. CASE Requeues
  <2>1. row'.state = "QUEUED" /\ UNCHANGED <<now, nudged, asked>>
    BY <1>3, RequeuesType DEF Requeues, worldVars, historyVars
  <2>. QED  BY <2>1 DEF NudgesOK, Active
<1>4. CASE Tick
  <2>1. now' = now + 1 /\ UNCHANGED <<row, nudged, asked>>
    BY <1>4 DEF Tick, engineVars
  <2>. QED  BY <2>1, Numbers DEF NudgesOK, Active
<1>5. CASE Aside
  <2>1. now' = now /\ row'.state = row.state /\ row'.progressAt = row.progressAt
    BY <1>5, AsideType
  <2>2. \/ nudged' = Never /\ asked' = Never
        \/ nudged' = Never /\ asked' = asked /\ ~Active
        \/ UNCHANGED <<nudged, asked>>
    BY <1>5 DEF Aside, PassWithout, RecordsCacheHit, Restart, StartsOver, Marks, vars,
                engineVars, worldVars, historyVars
  <2>. QED  BY <2>1, <2>2 DEF NudgesOK, Active
<1>. QED  BY <1>1, <1>2, <1>3, <1>4, <1>5, Steps

(* A process asks TorBox for a reannounce at most once per interval, although  *)
(* it forgets when it last did.                                                *)
THEOREM NudgesAreSpaced == Spec => NudgesSpaced
<1>1. Init => NudgesOK
  BY DEF Init, NudgesOK
<1>2. ASSUME TypeOK, ClocksOK, NudgesOK, [Next]_vars,
             asked' # asked, asked' # Never, asked # Never
      PROVE  now - asked >= policy.reannounce
  <2>1. PICK tb \in Listing : Pass(tb)
    <3>1. ~Aside
      BY <1>2 DEF Aside, PassWithout, RecordsCacheHit, Restart, StartsOver, Marks, vars,
                  worldVars, historyVars
    <3>2. ~Activates /\ ~Requeues /\ ~Tick
      BY <1>2 DEF Activates, Requeues, Tick, historyVars
    <3>. QED  BY <1>2, <3>1, <3>2, Steps
  <2>2. Active /\ nudged' = now /\ nudged' # nudged
    <3>1. Active /\ FindsFetch(tb)
      BY <1>2, <2>1, PassBy DEF Pass
    <3>. QED  BY <1>2, <3>1 DEF FindsFetch
  <2>3. nudged' = NudgeAfter(tb)
    <3>1. FindsFetch(tb)
      BY <1>2, <2>1, PassBy
    <3>. QED  BY <2>2, <3>1 DEF FindsFetch, FailsStalled, FailsSlow, Keeps
  <2>4. Nudges
    BY <1>2, <2>2, <2>3, Numbers DEF NudgeAfter
  <2>5. StalledFor >= policy.reannounce /\ (nudged = Never \/ now - nudged >= policy.reannounce)
    BY <2>4 DEF Nudges
  <2>6. StalledFor = now - row.progressAt /\ row.progressAt <= now
    BY <1>2, <2>2, Numbers DEF ClocksOK, StalledFor
  <2>7. policy.reannounce \in Nat
    BY <1>2, PolicyType
  <2>. QED  BY <1>2, <2>2, <2>5, <2>6, <2>7, Numbers DEF NudgesOK
<1>3. TypeOK /\ ClocksOK /\ NudgesOK /\ [Next]_vars =>
        [asked' # asked /\ asked' # Never /\ asked # Never
           => now - asked >= policy.reannounce]_vars
  BY <1>2
<1>. QED  BY <1>1, <1>3, InitType, NextType, InitClocks, NextClocks, NextNudges,
             PTL DEF Spec, NudgesSpaced

-----------------------------------------------------------------------------
(* A silent torrent is caught. *)

(* While no fetch has started over: the last pass knew no more than there is;  *)
(* what it did not know has come since; and only what has come, or a speed,    *)
(* sets the stall clock.                                                       *)
Tracked ==
  /\ known <= fetched
  /\ fetched > known => now <= rose + missed
  /\ row.progressAt <= rose + missed \/ row.progressAt <= moved

Followed == Active /\ restarts = 0 => Tracked

LEMMA NextFollowed ==
  ASSUME TypeOK, ClocksOK, Followed, [Next]_vars
  PROVE  Followed'
<1>0. TypeOK'
  BY NextType
<1> SUFFICES ASSUME Active', restarts' = 0
             PROVE  Tracked'
  BY DEF Followed
<1>1. ASSUME NEW tb \in Listing, Pass(tb)  PROVE  Tracked'
  <2>0. CASE Waits(tb)
    <3>1. /\ UNCHANGED <<now, fetched, rose, restarts, row, known, moved>> /\ missed' = missed + 1
          /\ Active
      BY <1>1, <2>0 DEF Pass, Waits
    <3>. QED  BY <3>1, Numbers DEF Followed, Tracked
  <2> SUFFICES ASSUME Kept(tb)  PROVE  Tracked'
    BY <1>1, <2>0, PassKeeps
  <2>1. /\ Active /\ UNCHANGED <<now, fetched, rose, restarts>> /\ known' = fetched
        /\ moved' = (IF Moving(tb) THEN now ELSE moved)
    BY <1>1 DEF Pass, Kept, FindsFetch
  <2>2. Noted(tb) /\ (Opened(tb) \/ LeftOpen(tb) \/ Runs(tb))
    BY DEF Kept
  <2>3. row'.progressAt = (IF Advancing(tb) THEN now ELSE row.progressAt) /\ tb.progress = fetched
    BY <2>2, ListingType DEF Noted
  <2>4. missed' = missed \/ missed' = missed + 1
    BY <2>2 DEF Opened, LeftOpen, Runs
  <2>5. row.progress = known /\ row.progressAt <= now
    BY <2>1 DEF ClocksOK
  <2>6. /\ fetched > known => now <= rose + missed
        /\ row.progressAt <= rose + missed \/ row.progressAt <= moved
    BY <2>1 DEF Followed, Tracked
  <2>7. Advancing(tb) => fetched > known \/ Moving(tb)
    BY <2>3, <2>5 DEF Advancing
  <2>8. Moving(tb) => Advancing(tb)
    BY DEF Advancing
  <2>. QED  BY <2>1, <2>3, <2>4, <2>6, <2>7, <2>8, Numbers DEF Tracked
<1>2. CASE Activates
  <2>1. row'.progressAt = now /\ now' = now /\ rose' = now /\ missed' = missed /\ known' = 0
        /\ fetched' \in {0, fetched}
    BY <1>2, ActivatesType DEF Activates
  <2>. QED  BY <2>1, Numbers DEF Tracked
<1>3. CASE Requeues
  BY <1>3, RequeuesType DEF Active
<1>4. CASE Tick
  <2>1. /\ now' = now + 1 /\ UNCHANGED <<row, known, moved, restarts>>
        /\ rose' = IF fetched' > known /\ (fetched' > fetched \/ polled) THEN now' ELSE rose
    BY <1>4 DEF Tick, engineVars
  <2>2. fetched <= fetched' /\ missed' = (IF polled THEN missed ELSE missed + 1) /\ fetched' \in Nat
    <3>1. fetched <= fetched' /\ fetched' \in 0 .. Size
      BY <1>0, <1>4, TickType DEF TypeOK
    <3>. QED  BY <1>4, <3>1, Bounds, TickType
  <2>3. /\ known <= fetched
        /\ fetched > known => now <= rose + missed
        /\ row.progressAt <= rose + missed \/ row.progressAt <= moved
    BY <2>1 DEF Followed, Tracked, Active
  <2>4. rose <= now
    BY DEF ClocksOK
  <2>5. fetched' > known => now' <= rose' + missed'
    <3>1. CASE fetched' > known /\ (fetched' > fetched \/ polled)
      BY <2>1, <2>2, <3>1, Numbers
    <3>2. CASE fetched' > known /\ ~(fetched' > fetched \/ polled)
      BY <2>1, <2>2, <2>3, <3>2, Numbers
    <3>. QED  BY <3>1, <3>2
  <2>6. rose + missed <= rose' + missed'
    BY <2>1, <2>2, <2>4, Numbers
  <2>7. known' <= fetched'
    BY <2>1, <2>2, <2>3, Numbers
  <2>8. rose' \in Nat /\ missed' \in Nat
    BY <2>1, <2>2, Numbers
  <2>. QED  BY <2>1, <2>3, <2>5, <2>6, <2>7, <2>8, Numbers DEF Tracked
<1>5. CASE Aside
  <2>1. UNCHANGED <<now, missed, known, moved>> /\ row'.state = row.state
        /\ row'.progressAt = row.progressAt
    BY <1>5, AsideType
  <2>2. UNCHANGED <<fetched, rose, restarts>>
    <3>1. ~StartsOver
      <4>1. restarts \in Nat
        BY Numbers
      <4>. QED  BY <4>1 DEF StartsOver
    <3>. QED  BY <1>5, <3>1 DEF Aside, PassWithout, RecordsCacheHit, Restart, Marks, vars,
                                 worldVars, historyVars
  <2>. QED  BY <2>1, <2>2 DEF Followed, Tracked, Active
<1>. QED  BY <1>1, <1>2, <1>3, <1>4, <1>5, Steps

(* A torrent the pass keeps was looked at by a pass that keeps, or waits. *)
LEMMA KeptBy ==
  ASSUME TypeOK, [Next]_vars, KeptByPass
  PROVE  \E tb \in Listing : Pass(tb) /\ (Kept(tb) \/ Waits(tb))
<1>1. Active /\ ~polled /\ polled' /\ Active'
  BY DEF KeptByPass
<1>2. ~Activates /\ ~Requeues /\ ~Tick /\ ~Aside
  BY <1>1 DEF Activates, Requeues, Tick, Aside, PassWithout, RecordsCacheHit, Restart, StartsOver,
              Marks, vars, Active, worldVars, engineVars
<1>. QED  BY <1>1, <1>2, Steps, PassKeeps

Tier == IF fetched > 0 THEN policy.progressStall
        ELSE IF row.cached THEN policy.cachedStall ELSE policy.stall

(* A pass that looks at the stall clock and keeps the torrent: the torrent has *)
(* risen or moved within its tier.                                             *)
LEMMA KeptIsLoud ==
  ASSUME TypeOK, ClocksOK, Followed, NEW tb \in Listing, Pass(tb), Kept(tb),
         Tier > 0, restarts = 0
  PROVE  now <= rose + missed' + Tier \/ now <= moved' + Tier
<1>1. Active /\ Keeps(tb) /\ moved' = (IF Moving(tb) THEN now ELSE moved)
  BY DEF Pass, Kept, FindsFetch
<1>2. missed' = missed \/ missed' = missed + 1
  BY <1>1 DEF Keeps
<1>3. /\ known <= fetched /\ row.progress = known /\ row.progressAt <= now
      /\ fetched > known => now <= rose + missed
      /\ row.progressAt <= rose + missed \/ row.progressAt <= moved
      /\ 1 <= row.activeSince /\ row.activeSince <= row.progressAt
  BY <1>1 DEF ClocksOK, Followed, Tracked
<1>4. tb.progress = fetched
  BY ListingType
<1>5. StallTimeoutFor(row.progress > 0 \/ tb.progress > 0) = Tier
  BY <1>3, <1>4, Numbers DEF StallTimeoutFor, Tier
<1>6. StalledFor = now - row.progressAt
  BY <1>3, Numbers DEF StalledFor
<1>7. Tier \in Nat
  BY PolicyType DEF Tier
<1>8. Advancing(tb) \/ ~(StalledFor > Tier)
  BY <1>1, <1>5 DEF Keeps, Stalled
<1>9. CASE Advancing(tb)
  BY <1>1, <1>2, <1>3, <1>4, <1>7, <1>9, Numbers DEF Advancing
<1>10. CASE ~Advancing(tb)
  <2>1. ~Moving(tb)
    BY <1>10 DEF Advancing
  <2>. QED  BY <1>1, <1>2, <1>3, <1>6, <1>7, <1>8, <1>10, <2>1, Numbers
<1>. QED  BY <1>9, <1>10

Turn == IF polled THEN 0 ELSE 1

(* The same between passes, of a fetch that has begun: the clock is not over   *)
(* for longer than the passes that did not look at it.                         *)
Loud == \/ now <= rose + missed + policy.progressStall + Turn
        \/ now <= moved + missed + policy.progressStall + Turn

StallOpen == Active /\ restarts = 0 /\ fetched > 0 /\ policy.progressStall > 0 => Loud

LEMMA NextStall ==
  ASSUME TypeOK, ClocksOK, Followed, StallOpen, [Next]_vars
  PROVE  StallOpen'
<1>0. policy' = policy /\ policy.progressStall \in Nat
  <2>1. policy' = policy
    BY Steps, AsideType DEF Pass, Activates, Requeues, Tick, engineVars
  <2>. QED  BY <2>1, PolicyType
<1> SUFFICES ASSUME Active', restarts' = 0, fetched' > 0, policy.progressStall > 0
             PROVE  Loud'
  BY <1>0 DEF StallOpen
<1>1. ASSUME NEW tb \in Listing, Pass(tb)  PROVE  Loud'
  <2>1. /\ Active /\ UNCHANGED <<now, fetched, rose, restarts>> /\ ~polled /\ polled'
        /\ Turn = 1 /\ Turn' = 0
    BY <1>1 DEF Pass, Turn
  <2>2. CASE Waits(tb)
    <3>1. missed' = missed + 1 /\ moved' = moved /\ Loud
      BY <2>1, <2>2 DEF Waits, StallOpen
    <3>. QED  BY <1>0, <2>1, <3>1, Numbers DEF Loud
  <2>3. CASE Kept(tb)
    <3>1. Tier = policy.progressStall
      BY <2>1 DEF Tier
    <3>2. now <= rose + missed' + policy.progressStall \/ now <= moved' + policy.progressStall
      BY <1>1, <2>1, <2>3, <3>1, KeptIsLoud
    <3>3. missed' \in Nat /\ moved' \in Nat
      <4>1. TypeOK'
        BY NextType
      <4>2. missed' \in 0 .. MaxMissed /\ moved' \in 0 .. MaxTime
        BY <4>1 DEF TypeOK, Time
      <4>. QED  BY <4>2, Bounds
    <3>. QED  BY <1>0, <2>1, <3>2, <3>3, Numbers DEF Loud
  <2>. QED  BY <1>1, <2>2, <2>3, PassKeeps
<1>2. CASE Activates
  <2>1. rose' = now /\ now' = now /\ missed' = missed /\ polled' = polled
    BY <1>2 DEF Activates
  <2>. QED  BY <1>0, <2>1, Numbers DEF Loud, Turn
<1>3. CASE Requeues
  BY <1>3, RequeuesType DEF Active
<1>4. CASE Tick
  <2>1. /\ now' = now + 1 /\ polled' = FALSE /\ UNCHANGED <<row, known, moved, restarts>>
        /\ rose' = IF fetched' > known /\ (fetched' > fetched \/ polled) THEN now' ELSE rose
    BY <1>4 DEF Tick, engineVars
  <2>2. missed' = (IF polled THEN missed ELSE missed + 1) /\ fetched <= fetched'
    BY <1>4, TickType
  <2>3. known <= fetched /\ rose <= now
    BY <2>1 DEF Followed, Tracked, Active, ClocksOK
  <2>4. CASE fetched > 0
    <3>1. Loud
      BY <2>1, <2>4 DEF StallOpen, Active
    <3>2. rose <= rose'
      BY <2>1, <2>3, Numbers
    <3>3. rose' \in Nat
      BY <2>1, Numbers
    <3>. QED  BY <1>0, <2>1, <2>2, <3>1, <3>2, <3>3, Numbers DEF Loud, Turn
  <2>5. CASE fetched = 0
    <3>1. rose' = now' /\ missed' \in Nat
      BY <2>1, <2>2, <2>3, <2>5, Numbers
    <3>. QED  BY <1>0, <2>1, <3>1, Numbers DEF Loud, Turn
  <2>. QED  BY <2>4, <2>5, Numbers
<1>5. CASE Aside
  <2>1. UNCHANGED <<now, missed, moved>> /\ row'.state = row.state
    BY <1>5, AsideType
  <2>2. UNCHANGED <<fetched, rose, restarts, polled>>
    <3>1. ~StartsOver
      <4>1. restarts \in Nat
        BY Numbers
      <4>. QED  BY <4>1 DEF StartsOver
    <3>. QED  BY <1>5, <2>1, <3>1 DEF Aside, PassWithout, RecordsCacheHit, Restart, Marks, vars,
                                      worldVars, historyVars, Active
  <2>. QED  BY <1>0, <2>1, <2>2 DEF StallOpen, Loud, Active, Turn
<1>. QED  BY <1>1, <1>2, <1>3, <1>4, <1>5, Steps

(* A silent torrent is failed no later than one pass after the timeout of its  *)
(* tier, and one pass later for each that was missed or found the content      *)
(* without its files; and the tier is a matter of what it does.                *)
THEOREM SilentIsCaught == Spec => StalledIsCaught
<1>1. Init => Followed /\ StallOpen
  <2>1. Fresh.state = "QUEUED"
    BY DEF Fresh
  <2>. QED  BY <2>1 DEF Init, Followed, StallOpen, Active
<1>2. ASSUME TypeOK, ClocksOK, Followed, StallOpen, [Next]_vars, KeptByPass, Tier > 0, restarts = 0
      PROVE  rose + missed' + Tier >= now \/ moved' + missed' + Tier >= now
  <2>1. PICK tb \in Listing : Pass(tb) /\ (Kept(tb) \/ Waits(tb))
    BY <1>2, KeptBy
  <2>2. Tier \in Nat /\ missed' \in Nat /\ moved' \in Nat
    <3>1. TypeOK'
      BY <1>2, NextType
    <3>2. missed' \in 0 .. MaxMissed /\ moved' \in 0 .. MaxTime
      BY <3>1 DEF TypeOK, Time
    <3>. QED  BY <1>2, <3>2, Bounds, PolicyType DEF Tier
  <2>3. CASE Kept(tb)
    <3>1. now <= rose + missed' + Tier \/ now <= moved' + Tier
      BY <1>2, <2>1, <2>3, KeptIsLoud
    <3> HIDE DEF Tier
    <3>. QED  BY <1>2, <2>2, <3>1, Numbers
  <2>4. CASE Waits(tb)
    <3>1. fetched > 0 /\ missed' = missed + 1 /\ moved' = moved /\ Active /\ Turn = 1
      BY <1>2, <2>1, <2>4, Bounds DEF Waits, Pass, Turn
    <3>2. Tier = policy.progressStall /\ Loud
      BY <1>2, <3>1 DEF Tier, StallOpen
    <3>. QED  BY <1>2, <2>2, <3>1, <3>2, Numbers DEF Loud
  <2>. QED  BY <2>1, <2>3, <2>4
<1>3. TypeOK /\ ClocksOK /\ Followed /\ StallOpen /\ [Next]_vars =>
        [LET t == IF fetched > 0 THEN policy.progressStall
                  ELSE IF row.cached THEN policy.cachedStall ELSE policy.stall
         IN  KeptByPass /\ t > 0 /\ restarts = 0
               => rose + missed' + t >= now \/ moved' + missed' + t >= now]_vars
  BY <1>2 DEF Tier
<1>. QED  BY <1>1, <1>3, InitType, NextType, InitClocks, NextClocks, NextFollowed, NextStall,
             PTL DEF Spec, StalledIsCaught

-----------------------------------------------------------------------------
(* The speed window. *)

(* Passes that look at every window: it is not open for longer than it lasts,  *)
(* but for the passes missed.                                                  *)
WindowOpen ==
  Active /\ ChecksSpeed => now < row.speedAt + policy.slowWindow + missed + Turn

(* A window that is over is opened again, and had its minimum. *)
LEMMA WindowTurns ==
  ASSUME TypeOK, ClocksOK, NEW tb \in Listing, Pass(tb), Kept(tb), ChecksSpeed
  PROVE  /\ Opened(tb) \/ LeftOpen(tb) \/ (Runs(tb) /\ now < row.speedAt + policy.slowWindow)
         /\ ~TooSlow(tb) /\ missed' \in {missed, missed + 1}
         /\ Active /\ row.speedAt # 0
<1>1. Keeps(tb) /\ (Opened(tb) \/ LeftOpen(tb) \/ Runs(tb))
  BY DEF Kept
<1>2. row.speedAt # 0 /\ Active
  BY Numbers DEF ClocksOK, Pass
<1>3. Runs(tb) => ~WindowOver
  BY DEF Runs, Reanchors
<1>4. ~WindowOver => now < row.speedAt + policy.slowWindow
  BY <1>2, Numbers, PolicyType DEF WindowOver
<1>. QED  BY <1>1, <1>2, <1>3, <1>4 DEF Keeps, Opened, LeftOpen, Runs

LEMMA NextWindow ==
  ASSUME TypeOK, ClocksOK, WindowOpen, [Next]_vars
  PROVE  WindowOpen'
<1> SUFFICES ASSUME Active', ChecksSpeed'
             PROVE  now' < row'.speedAt + policy'.slowWindow + missed' + Turn'
  BY DEF WindowOpen
<1>0. policy' = policy /\ ChecksSpeed /\ policy.slowWindow \in Nat /\ policy.slowWindow > 0
  <2>1. policy' = policy
    BY Steps, AsideType DEF Pass, Activates, Requeues, Tick, engineVars
  <2>. QED  BY <2>1, PolicyType DEF ChecksSpeed
<1>1. ASSUME NEW tb \in Listing, Pass(tb)
      PROVE  now' < row'.speedAt + policy'.slowWindow + missed' + Turn'
  <2>1. now' = now /\ ~polled /\ polled' /\ Active
    BY <1>1 DEF Pass
  <2>0. CASE Waits(tb)
    BY <1>0, <2>0, <2>1, Numbers DEF Waits, WindowOpen, Turn
  <2> SUFFICES ASSUME Kept(tb)
               PROVE  now' < row'.speedAt + policy'.slowWindow + missed' + Turn'
    BY <1>1, <2>0, PassKeeps
  <2>2. Opened(tb) \/ LeftOpen(tb) \/ (Runs(tb) /\ now < row.speedAt + policy.slowWindow)
    BY <1>0, <1>1, WindowTurns
  <2>3. now < row.speedAt + policy.slowWindow + missed + 1
    BY <1>0, <1>1, <2>1 DEF WindowOpen, Turn, Pass
  <2>4. Turn' = 0
    BY <2>1 DEF Turn
  <2>5. CASE Opened(tb)
    BY <1>0, <2>1, <2>4, <2>5, Numbers DEF Opened
  <2>6. CASE LeftOpen(tb)
    BY <1>0, <2>1, <2>3, <2>4, <2>6, Numbers DEF LeftOpen
  <2>7. CASE Runs(tb) /\ now < row.speedAt + policy.slowWindow
    BY <1>0, <2>1, <2>4, <2>7, Numbers DEF Runs
  <2>. QED  BY <2>2, <2>5, <2>6, <2>7
<1>2. CASE Activates
  <2>1. row'.speedAt = now /\ now' = now /\ missed' = missed
    BY <1>2, ActivatesType DEF Activates
  <2>. QED  BY <1>0, <2>1, Numbers DEF Turn
<1>3. CASE Requeues
  BY <1>3, RequeuesType DEF Active
<1>4. CASE Tick
  <2>1. row' = row /\ now' = now + 1 /\ polled' = FALSE
    BY <1>4 DEF Tick, engineVars
  <2>2. missed' = (IF polled THEN missed ELSE missed + 1)
    BY <1>4, TickType
  <2>3. now < row.speedAt + policy.slowWindow + missed + Turn
    BY <1>0, <2>1 DEF WindowOpen, Active
  <2>. QED  BY <1>0, <2>1, <2>2, <2>3, Numbers DEF Turn
<1>5. CASE Aside
  <2>1. UNCHANGED <<now, missed>> /\ row'.state = row.state /\ row'.speedAt = row.speedAt
    BY <1>5, AsideType
  <2>2. polled' = polled
    BY <1>5, <2>1 DEF Aside, PassWithout, RecordsCacheHit, Restart, StartsOver, Marks, vars,
                      worldVars, Active
  <2>. QED  BY <1>0, <2>1, <2>2 DEF WindowOpen, Active, Turn
<1>. QED  BY <1>1, <1>2, <1>3, <1>4, <1>5, Steps

(* The fetch of a torrent that never brought less than twice the floor: since  *)
(* its window was opened it has brought that in every tick but the missed.     *)
Twice == 2 * policy.minSpeed

Brought ==
  IF fetched = 0
    THEN row.speedBytes = 0 /\ now <= row.speedAt + missed + Turn
    ELSE row.speedBytes + Twice * (now - row.speedAt) <= fetched + Twice * missed

Gains == Active /\ ChecksSpeed /\ ~dipped => Brought

LEMMA Another ==
  ASSUME NEW p \in Nat, NEW a \in Nat
  PROVE  p * (a + 1) = p * a + p /\ p * a \in Nat /\ p * 0 = 0
OBVIOUS

LEMMA NextGains ==
  ASSUME TypeOK, ClocksOK, Gains, [Next]_vars
  PROVE  Gains'
<1> SUFFICES ASSUME Active', ChecksSpeed', ~dipped'
             PROVE  Brought'
  BY DEF Gains
<1>0. policy' = policy /\ ChecksSpeed /\ Twice \in Nat /\ Twice' = Twice
  <2>1. policy' = policy
    BY Steps, AsideType DEF Pass, Activates, Requeues, Tick, engineVars
  <2>2. Twice \in Nat
    BY PolicyType DEF Twice
  <2>. QED  BY <2>1, <2>2 DEF ChecksSpeed, Twice
<1>1. ASSUME NEW tb \in Listing, Pass(tb)
      PROVE  Brought'
  <2>1. now' = now /\ ~polled /\ polled' /\ fetched' = fetched /\ dipped' = dipped /\ Active
    BY <1>1 DEF Pass
  <2>0. CASE Waits(tb)
    <3>1. row' = row /\ missed' = missed + 1 /\ fetched > 0 /\ Brought
      BY <1>0, <2>0, <2>1, Bounds DEF Waits, Gains
    <3>2. Twice * (missed + 1) = Twice * missed + Twice /\ Twice * missed \in Nat
      BY <1>0, Another, Numbers
    <3>3. now - row.speedAt \in Nat
      BY <2>1, Numbers DEF ClocksOK
    <3>4. Twice * (now - row.speedAt) \in Nat
      BY <1>0, <3>3, Another
    <3>. QED  BY <1>0, <2>1, <3>1, <3>2, <3>4, Numbers DEF Brought
  <2> SUFFICES ASSUME Kept(tb)  PROVE  Brought'
    BY <1>1, <2>0, PassKeeps
  <2>2. /\ Opened(tb) \/ LeftOpen(tb) \/ Runs(tb)
        /\ row.speedAt <= now /\ Turn' = 0 /\ Brought
    BY <1>0, <1>1, <2>1, WindowTurns DEF ClocksOK, Turn, Gains
  <2>3. FetchedBytes(tb) \in {0, fetched}
    BY ListingType
  <2>4. CASE fetched = 0
    <3>1. ~Runs(tb)
      BY <1>0, <2>3, <2>4 DEF Runs, Reanchors
    <3>2. CASE Opened(tb)
      BY <2>1, <2>2, <2>3, <2>4, <3>2, Numbers DEF Brought, Opened
    <3>3. CASE LeftOpen(tb)
      <4>1. row.speedBytes = 0 /\ now <= row.speedAt + missed + 1
        BY <2>1, <2>2, <2>4 DEF Brought, Turn
      <4>. QED  BY <2>1, <2>2, <2>4, <3>3, <4>1, Numbers DEF Brought, LeftOpen
    <3>. QED  BY <2>2, <3>1, <3>2, <3>3
  <2>5. CASE fetched # 0
    <3> DEFINE span == now - row.speedAt
    <3>1. span \in Nat
      BY <2>2, Numbers
    <3>2. row.speedBytes + Twice * span <= fetched + Twice * missed
      BY <2>2, <2>5 DEF Brought
    <3>3. /\ Twice * (missed + 1) = Twice * missed + Twice
          /\ Twice * missed \in Nat /\ Twice * 0 = 0 /\ Twice * span \in Nat
      BY <1>0, <3>1, Another, Numbers
    <3>4. CASE Opened(tb)
      <4>1. now' - row'.speedAt = 0 /\ row'.speedBytes <= fetched /\ missed' = missed
        BY <2>1, <2>3, <3>4, Numbers DEF Opened
      <4>2. row'.speedBytes \in Nat
        BY <2>3, <3>4, Numbers DEF Opened
      <4>. QED  BY <1>0, <2>1, <2>5, <3>3, <4>1, <4>2, Numbers DEF Brought
    <3>5. CASE LeftOpen(tb)
      <4>1. /\ now' - row'.speedAt = span /\ row'.speedBytes = row.speedBytes
            /\ missed' = missed + 1
        BY <2>1, <3>5 DEF LeftOpen
      <4>. QED  BY <1>0, <2>1, <2>5, <3>2, <3>3, <4>1, Numbers DEF Brought
    <3>6. CASE Runs(tb)
      <4>1. /\ now' - row'.speedAt = span /\ row'.speedBytes = row.speedBytes
            /\ missed' = missed
        BY <2>1, <3>6 DEF Runs
      <4>. QED  BY <1>0, <2>1, <2>5, <3>2, <4>1 DEF Brought
    <3>. QED  BY <2>2, <3>4, <3>5, <3>6
  <2>. QED  BY <2>4, <2>5
<1>2. CASE Activates
  <2>1. row'.speedAt = now /\ row'.speedBytes = 0 /\ now' = now /\ missed' = missed
        /\ fetched' \in {0, fetched}
    BY <1>2, ActivatesType DEF Activates
  <2>2. now' - row'.speedAt = 0 /\ now' <= row'.speedAt + missed' + Turn'
    BY <2>1, Numbers DEF Turn
  <2>3. Twice * missed \in Nat /\ Twice * 0 = 0
    BY <1>0, Another, Numbers
  <2>. QED  BY <1>0, <2>1, <2>2, <2>3, Numbers DEF Brought
<1>3. CASE Requeues
  BY <1>3, RequeuesType DEF Active
<1>4. CASE Tick
  <2>1. /\ row' = row /\ now' = now + 1 /\ polled' = FALSE /\ ~dipped
        /\ ~(fetched' > 0 /\ fetched' - fetched < Twice)
    BY <1>4 DEF Tick, engineVars, Twice
  <2>2. /\ missed' = (IF polled THEN missed ELSE missed + 1) /\ missed' \in Nat
        /\ fetched <= fetched' /\ fetched' \in Nat
    <3>1. fetched' \in 0 .. Size /\ missed' = (IF polled THEN missed ELSE missed + 1) /\ fetched <= fetched'
      BY <1>4, TickType DEF TypeOK
    <3>. QED  BY <3>1, Numbers, Bounds
  <2>3. Brought /\ row.speedAt <= now /\ Turn' = 1
    BY <1>0, <2>1 DEF Gains, Active, ClocksOK, Turn
  <2> DEFINE span == now - row.speedAt
  <2>4. /\ span \in Nat /\ now' - row'.speedAt = span + 1
        /\ Twice * (span + 1) = Twice * span + Twice /\ Twice * span \in Nat
        /\ Twice * missed \in Nat /\ Twice * (missed' + 1) = Twice * missed' + Twice
        /\ Twice * missed <= Twice * missed'
    <3>1. span \in Nat /\ now' - row'.speedAt = span + 1
      BY <2>1, <2>3, Numbers
    <3>2. missed <= missed'
      BY <2>2, Numbers
    <3>. QED  BY <1>0, <2>2, <3>1, <3>2, Another, Faster, Numbers
  <2>5. CASE fetched' = 0
    <3>1. fetched = 0
      BY <2>2, <2>5, Numbers
    <3>2. row.speedBytes = 0 /\ now <= row.speedAt + missed + Turn
      BY <2>3, <3>1 DEF Brought
    <3>. QED  BY <2>1, <2>2, <2>3, <2>5, <3>2, Numbers DEF Brought, Turn
  <2>6. CASE fetched' # 0 /\ fetched = 0
    <3>0. fetched' >= fetched + Twice /\ fetched + Twice = Twice
      <4>1. fetched' > 0 /\ ~(fetched' - fetched < Twice)
        BY <2>1, <2>2, <2>6
      <4>2. Twice \in Nat /\ fetched' \in Nat /\ fetched = 0
        BY <1>0, <2>2, <2>6
      <4>3. fetched + Twice = Twice
        BY <4>2
      <4>. QED  BY <4>1, <4>2, <4>3, AtLeast
    <3>1. row.speedBytes = 0 /\ now <= row.speedAt + missed + Turn
      BY <2>3, <2>6 DEF Brought
    <3>2. span + 1 <= missed' + 1
      BY <2>2, <3>1, Numbers DEF Turn
    <3>3. Twice * (span + 1) <= Twice * (missed' + 1)
      BY <1>0, <2>2, <2>4, <3>2, Faster
    <3>4. Twice * missed' \in Nat
      BY <1>0, <2>2, Another
    <3>. QED  BY <1>0, <2>1, <2>2, <2>4, <2>6, <3>0, <3>1, <3>3, <3>4, Numbers DEF Brought
  <2>7. CASE fetched' # 0 /\ fetched # 0
    <3>1. row.speedBytes + Twice * span <= fetched + Twice * missed
      BY <2>3, <2>7 DEF Brought
    <3>2. fetched' >= fetched + Twice
      BY <1>0, <2>1, <2>2, <2>7, Numbers
    <3>3. Twice * missed' \in Nat
      BY <1>0, <2>2, Another
    <3>. QED  BY <1>0, <2>1, <2>2, <2>4, <2>7, <3>1, <3>2, <3>3, Numbers DEF Brought
  <2>. QED  BY <2>5, <2>6, <2>7
<1>5. CASE Aside
  <2>1. UNCHANGED <<now, missed>> /\ row'.state = row.state
        /\ row'.speedAt = row.speedAt /\ row'.speedBytes = row.speedBytes
    BY <1>5, AsideType
  <2>2. UNCHANGED <<polled, fetched, dipped>>
    BY <1>5, <2>1 DEF Aside, PassWithout, RecordsCacheHit, Restart, StartsOver, Marks, vars,
                      worldVars, historyVars, Active
  <2>. QED  BY <1>0, <2>1, <2>2 DEF Gains, Brought, Active, Turn
<1>. QED  BY <1>1, <1>2, <1>3, <1>4, <1>5, Steps

(* A fetch that from its first block on brings twice the floor is never failed *)
(* as slow, however long it waited for that block, unless passes were missed   *)
(* for half a window.                                                          *)
THEOREM FastAreKept == Spec => FastIsKept
<1>1. Init => Gains
  <2>1. Fresh.state = "QUEUED"
    BY DEF Fresh
  <2>. QED  BY <2>1 DEF Init, Gains, Active
<1>2. ASSUME TypeOK, ClocksOK, Gains, [Next]_vars, Fails("slow"), policy.slowWindow >= 2 * MaxMissed
      PROVE  dipped
  <2>1. PICK tb \in Listing : Pass(tb) /\ FailsSlow(tb)
    BY <1>2, FailsBy
  <2>2. /\ Active /\ ChecksSpeed /\ FetchedBytes(tb) > 0 /\ WindowOver
        /\ TooSlow(tb) /\ row.speedAt <= now
    BY <1>2, <2>1 DEF Pass, FailsSlow, TooSlow, ClocksOK
  <2>3. FetchedBytes(tb) = fetched /\ fetched > 0
    BY <1>2, <2>2, ListingType
  <2> DEFINE span == now - row.speedAt
             floor == policy.minSpeed
  <2>4. /\ floor \in Nat /\ span \in Nat /\ policy.slowWindow \in Nat /\ span >= policy.slowWindow
        /\ missed <= MaxMissed
    <3>1. missed \in 0 .. MaxMissed
      BY <1>2 DEF TypeOK
    <3>2. missed <= MaxMissed
      BY <3>1, Bounds
    <3>. QED  BY <1>2, <2>2, <3>2, Numbers, PolicyType DEF WindowOver
  <2>5. 2 * missed <= span
    BY <1>2, <2>4, Numbers, Bounds
  <2>6. /\ floor * (2 * missed) <= floor * span /\ floor * (2 * missed) = 2 * floor * missed
        /\ 2 * floor * span = floor * span + floor * span /\ floor * span \in Nat
    <3>1. missed \in Nat /\ 2 * missed \in Nat
      BY <1>2, Numbers
    <3> HIDE DEF span, floor
    <3>2. floor * (2 * missed) <= floor * span
      BY <2>4, <2>5, <3>1, Faster
    <3>3. floor * (2 * missed) = 2 * floor * missed
      BY <2>4, <3>1
    <3>4. 2 * floor * span = floor * span + floor * span /\ floor * span \in Nat
      BY <2>4
    <3>. QED  BY <3>2, <3>3, <3>4
  <2>7. (IF fetched > row.speedBytes THEN fetched - row.speedBytes ELSE 0) < floor * span
    BY <2>2, <2>3 DEF TooSlow
  <2>8. ~dipped => row.speedBytes + 2 * floor * span <= fetched + 2 * floor * missed
    BY <1>2, <2>2, <2>3, Numbers DEF Gains, Brought, Twice
  <2>9. fetched \in Nat /\ row.speedBytes \in Nat /\ 2 * floor * missed \in Nat
    BY <1>2, <2>4, Numbers
  <2> HIDE DEF span, floor
  <2>. QED  BY <2>6, <2>7, <2>8, <2>9
<1>3. TypeOK /\ ClocksOK /\ Gains /\ [Next]_vars =>
        [Fails("slow") /\ policy.slowWindow >= 2 * MaxMissed => dipped]_vars
  BY <1>2
<1>. QED  BY <1>1, <1>3, InitType, NextType, InitClocks, NextClocks, NextGains,
             PTL DEF Spec, FastIsKept

(* Since an instant of a fetch that had begun by then: its window is still of  *)
(* the time before; or it is the first since; or one since has had its minimum.*)
Before == row.speedAt <= mark.at

First ==
  /\ mark.at <= row.speedAt /\ row.speedAt <= mark.at + policy.slowWindow + missed
  /\ mark.blocks <= row.speedBytes /\ row.speedBytes <= fetched
  /\ now < mark.at + 2 * policy.slowWindow + missed + Turn

Earned == fetched >= mark.blocks + policy.minSpeed * policy.slowWindow

Since ==
  /\ row.sized /\ 1 <= mark.blocks /\ mark.blocks <= fetched /\ mark.at <= now
  /\ Before \/ First \/ Earned

Marked == Active /\ ChecksSpeed /\ mark # NoMark => Since

(* A window that is over and not too slow has had its minimum. *)
LEMMA WindowEarns ==
  ASSUME TypeOK, ClocksOK, NEW tb \in Listing, Pass(tb), Kept(tb), ChecksSpeed,
         WindowOver, FetchedBytes(tb) = fetched, fetched > 0, row.speedBytes <= fetched
  PROVE  fetched >= row.speedBytes + policy.minSpeed * policy.slowWindow
<1> DEFINE span == now - row.speedAt
           floor == policy.minSpeed
           window == policy.slowWindow
<1>1. floor \in Nat /\ window \in Nat /\ span >= window
  BY PolicyType DEF WindowOver
<1>2. row.speedAt <= now
  BY DEF ClocksOK, Pass
<1>3. span \in Nat
  BY <1>2, Numbers
<1>4. ~((IF fetched > row.speedBytes THEN fetched - row.speedBytes ELSE 0) < floor * span)
  BY WindowTurns DEF TooSlow
<1>5. fetched \in Nat /\ row.speedBytes \in Nat
  BY Numbers
<1> HIDE DEF span, floor, window
<1>6. floor * window <= floor * span /\ floor * window \in Nat /\ floor * span \in Nat
  BY <1>1, <1>3, Faster
<1>7. fetched >= row.speedBytes + floor * window
  BY <1>4, <1>5, <1>6
<1>. QED  BY <1>7 DEF floor, window

LEMMA NextMarked ==
  ASSUME TypeOK, ClocksOK, WindowOpen, Marked, [Next]_vars
  PROVE  Marked'
<1> SUFFICES ASSUME Active', ChecksSpeed', mark' # NoMark
             PROVE  Since'
  BY DEF Marked
<1>0. /\ policy' = policy /\ ChecksSpeed /\ policy.slowWindow \in Nat /\ policy.slowWindow > 0
      /\ policy.minSpeed \in Nat /\ policy.minSpeed * policy.slowWindow \in Nat
  <2>1. policy' = policy
    BY Steps, AsideType DEF Pass, Activates, Requeues, Tick, engineVars
  <2>2. policy.minSpeed \in Nat /\ policy.slowWindow \in Nat
    BY PolicyType
  <2>. QED  BY <2>1, <2>2 DEF ChecksSpeed
<1>1. ASSUME NEW tb \in Listing, Pass(tb)
      PROVE  Since'
  <2>1. /\ UNCHANGED <<now, fetched, mark>> /\ ~polled /\ polled' /\ Active
        /\ Turn' = 0 /\ Turn = 1
    BY <1>1 DEF Pass, Turn
  <2>0. CASE Waits(tb)
    <3>1. row' = row /\ missed' = missed + 1 /\ Since
      BY <1>0, <2>0, <2>1 DEF Waits, Marked
    <3>2. (Before => Before') /\ (Earned => Earned')
      BY <1>0, <2>1, <3>1 DEF Before, Earned
    <3>3. First => First'
      BY <1>0, <2>1, <3>1, Numbers DEF First
    <3>. QED  BY <2>1, <3>1, <3>2, <3>3 DEF Since
  <2> SUFFICES ASSUME Kept(tb)  PROVE  Since'
    BY <1>1, <2>0, PassKeeps
  <2>2. /\ Opened(tb) \/ LeftOpen(tb) \/ (Runs(tb) /\ now < row.speedAt + policy.slowWindow)
        /\ row.speedAt # 0 /\ Noted(tb)
    BY <1>0, <1>1, WindowTurns DEF Kept
  <2>3. /\ row.sized /\ 1 <= mark.blocks /\ mark.blocks <= fetched /\ mark.at <= now
        /\ Before \/ First \/ Earned
    BY <1>0, <2>1 DEF Marked, Since
  <2>4. FetchedBytes(tb) = fetched /\ fetched > 0
    BY <2>3, ListingType, Numbers
  <2>5. row'.sized
    BY <2>2, <2>3 DEF Noted
  <2>6. CASE Earned
    BY <1>0, <2>1, <2>3, <2>5, <2>6 DEF Since, Earned
  <2>7. Reanchors(tb) => WindowOver
    BY <2>2, <2>4 DEF Reanchors
  <2>8. CASE First /\ Reanchors(tb)
    <3>1. mark.blocks <= row.speedBytes /\ row.speedBytes <= fetched
      BY <2>8 DEF First
    <3>2. fetched >= row.speedBytes + policy.minSpeed * policy.slowWindow
      BY <1>0, <1>1, <2>4, <2>7, <2>8, <3>1, WindowEarns
    <3>3. Earned
      BY <1>0, <3>1, <3>2, Numbers DEF Earned
    <3>. QED  BY <2>6, <3>3
  <2>9. CASE First /\ Runs(tb) /\ now < row.speedAt + policy.slowWindow
    <3>1. /\ mark.at <= row.speedAt /\ row.speedAt <= mark.at + policy.slowWindow + missed
          /\ mark.blocks <= row.speedBytes /\ row.speedBytes <= fetched
          /\ now < row.speedAt + policy.slowWindow
          /\ row'.speedAt = row.speedAt /\ row'.speedBytes = row.speedBytes /\ missed' = missed
      BY <2>9 DEF First, Runs
    <3>2. now < mark.at + 2 * policy.slowWindow + missed
      BY <1>0, <3>1, Numbers
    <3>3. First'
      BY <1>0, <2>1, <3>1, <3>2, Numbers DEF First
    <3>. QED  BY <2>1, <2>3, <2>5, <3>3 DEF Since
  <2>10. CASE Before /\ Opened(tb)
    <3>1. now < row.speedAt + policy.slowWindow + missed + 1 /\ row.speedAt <= mark.at
      BY <1>0, <2>1, <2>10 DEF WindowOpen, Before
    <3>2. row'.speedAt = now /\ row'.speedBytes = fetched /\ missed' = missed
      BY <2>4, <2>10 DEF Opened
    <3>3. now <= mark.at + policy.slowWindow + missed
      BY <1>0, <3>1, Numbers
    <3>4. First'
      BY <1>0, <2>1, <2>3, <3>2, <3>3, Numbers DEF First
    <3>. QED  BY <2>1, <2>3, <2>5, <3>4 DEF Since
  <2>11. CASE Before /\ ~Opened(tb)
    <3>1. row'.speedAt = row.speedAt
      BY <2>2, <2>11 DEF LeftOpen, Runs
    <3>2. Before'
      BY <2>1, <2>11, <3>1 DEF Before
    <3>. QED  BY <2>1, <2>3, <2>5, <3>2 DEF Since
  <2>12. Reanchors(tb) \/ (Runs(tb) /\ now < row.speedAt + policy.slowWindow)
    BY <2>2 DEF Opened, LeftOpen
  <2>. QED  BY <2>3, <2>6, <2>8, <2>9, <2>10, <2>11, <2>12
<1>2. CASE Activates
  BY <1>2 DEF Activates
<1>3. CASE Requeues
  BY <1>3, RequeuesType DEF Active
<1>4. CASE Tick
  <2>1. row' = row /\ mark' = mark /\ now' = now + 1 /\ polled' = FALSE
    BY <1>4 DEF Tick, engineVars
  <2>2. /\ missed' = (IF polled THEN missed ELSE missed + 1) /\ missed' \in Nat
        /\ fetched <= fetched' /\ fetched' \in Nat
    <3>1. fetched' \in 0 .. Size /\ missed' = (IF polled THEN missed ELSE missed + 1) /\ fetched <= fetched'
      BY <1>4, TickType DEF TypeOK
    <3>. QED  BY <3>1, Numbers, Bounds
  <2>3. /\ row.sized /\ 1 <= mark.blocks /\ mark.blocks <= fetched /\ mark.at <= now
        /\ Before \/ First \/ Earned
    BY <1>0, <2>1 DEF Marked, Since, Active
  <2>4. row'.sized /\ 1 <= mark'.blocks /\ mark'.blocks <= fetched' /\ mark'.at <= now'
    BY <2>1, <2>2, <2>3, Numbers
  <2>5. CASE Before
    BY <2>1, <2>4, <2>5 DEF Since, Before
  <2>6. CASE First
    <3>1. First'
      BY <1>0, <2>1, <2>2, <2>6, Numbers DEF First, Turn
    <3>. QED  BY <2>4, <3>1 DEF Since
  <2>7. CASE Earned
    <3>1. Earned'
      BY <1>0, <2>1, <2>2, <2>7, Numbers DEF Earned
    <3>. QED  BY <2>4, <3>1 DEF Since
  <2>. QED  BY <2>3, <2>5, <2>6, <2>7
<1>5. CASE Aside
  <2>1. UNCHANGED <<now, missed>> /\ row'.state = row.state /\ row'.sized = row.sized
        /\ row'.speedAt = row.speedAt /\ row'.speedBytes = row.speedBytes
    BY <1>5, AsideType
  <2>2. CASE Marks
    <3>1. mark' = [at |-> now, blocks |-> fetched] /\ fetched > 0 /\ row.sized /\ fetched' = fetched
      BY <2>2 DEF Marks, worldVars
    <3>2. mark'.at = now /\ mark'.blocks = fetched
      BY <3>1
    <3>3. Before'
      BY <2>1, <3>2, Numbers DEF Before, ClocksOK, Active
    <3>. QED  BY <2>1, <3>1, <3>2, <3>3, Numbers DEF Since
  <2>3. CASE ~Marks
    <3>1. UNCHANGED <<polled, fetched, mark>>
      BY <1>5, <2>1, <2>3 DEF Aside, PassWithout, RecordsCacheHit, Restart, StartsOver, vars,
                              worldVars, historyVars, Active
    <3>. QED  BY <1>0, <2>1, <3>1 DEF Marked, Since, Before, First, Earned, Active, Turn
  <2>. QED  BY <2>2, <2>3
<1>. QED  BY <1>1, <1>2, <1>3, <1>4, <1>5, Steps

(* A fetch that has begun and crawls below the floor is failed after two       *)
(* windows at the latest, whatever speed TorBox reports.                       *)
THEOREM CrawlersAreCaught == Spec => []CrawlIsCaught
<1>1. Init => WindowOpen /\ Marked
  <2>1. Fresh.state = "QUEUED"
    BY DEF Fresh
  <2>. QED  BY <2>1 DEF Init, WindowOpen, Marked, Active
<1>2. TypeOK /\ WindowOpen /\ Marked => CrawlIsCaught
  <2> SUFFICES ASSUME TypeOK, WindowOpen, Marked, Active, polled, ChecksSpeed, mark # NoMark,
                      now >= mark.at + 2 * policy.slowWindow + missed
               PROVE  fetched - mark.blocks >= policy.minSpeed * policy.slowWindow
    BY DEF CrawlIsCaught
  <2>1. Since /\ now < row.speedAt + policy.slowWindow + missed /\ Turn = 0
    BY Numbers, PolicyType DEF WindowOpen, Marked, Turn
  <2>2. ~Before /\ ~First
    BY <2>1, Numbers, PolicyType DEF Before, First
  <2>3. policy.minSpeed * policy.slowWindow \in Nat
    BY PolicyType
  <2>. QED  BY <2>1, <2>2, <2>3, Numbers DEF Since, Earned
<1>. QED  BY <1>1, <1>2, InitType, NextType, InitClocks, NextClocks, NextWindow, NextMarked,
             PTL DEF Spec

-----------------------------------------------------------------------------
(* The clocks of a push: how long the attempts have gone on, and how long the  *)
(* instances had to list what they grabbed.                                    *)

LEMMA PushBounds ==
  /\ N \in Nat \ {0} /\ Grace \in Nat /\ Interval \in Nat /\ Refresh \in Nat
  /\ MaxFailures \in Nat /\ MaxCrashes \in Nat
  /\ Refresh < Grace /\ Instances = 1 .. N /\ 1 \in Instances /\ 0 \in Ages
BY ArrPushAssumption DEF Instances, Ages

LEMMA NoAttemptType == NoAttempt.last <= NoAttempt.first
BY PushBounds DEF NoAttempt

LEMMA OlderType ==
  ASSUME NEW a \in Ages, NEW b \in Ages, a <= b
  PROVE  /\ Older(a) \in Ages /\ Older(b) \in Ages /\ Older(a) <= Older(b)
         /\ Older(a) >= a /\ Older(a) <= a + 1
BY PushBounds DEF Ages, Older

LEMMA PushInitType == PushInit => PushTypeOK
<1> SUFFICES ASSUME PushInit  PROVE PushTypeOK
  OBVIOUS
<1>1. /\ notified \in BOOLEAN /\ (state = "gone" => ~notified)
      /\ handled \in BOOLEAN /\ erred \in BOOLEAN /\ late \in BOOLEAN
      /\ deleting \in BOOLEAN /\ overtaken \in BOOLEAN
  BY DEF PushInit
<1>2. /\ state \in {"TRIED", "ERROR", "gone"} /\ at \in {"idle", "fetch", "remove", "mark"}
      /\ listed \in [Instances -> SUBSET Records] /\ coming \in [Instances -> SUBSET Records]
  BY DEF PushInit, Nowhere
<1>3. /\ attempt = NoAttempt /\ pos \in Instances /\ todo \subseteq Records
      /\ failedAge \in Ages /\ failures \in 0 .. MaxFailures /\ crashes \in 0 .. MaxCrashes
  BY PushBounds DEF PushInit
<1>. QED  BY <1>1, <1>2, <1>3, NoAttemptType DEF PushTypeOK

(* What an attempt is when there is one. *)
LEMMA AttemptType ==
  ASSUME PushTypeOK, Tried
  PROVE  /\ attempt.first \in Ages /\ attempt.last \in Ages
         /\ attempt = [first |-> attempt.first, last |-> attempt.last]
BY DEF PushTypeOK, Tried

LEMMA NextInstanceType ==
  ASSUME PushTypeOK, NEW failed \in BOOLEAN, NextInstance(failed)
  PROVE  /\ at' \in {"idle", "fetch", "mark"}
         /\ pos' \in Instances /\ todo' \subseteq Records
         /\ handled' \in BOOLEAN /\ erred' \in BOOLEAN /\ late' \in BOOLEAN
BY PushBounds DEF PushTypeOK, NextInstance, Asked, Idle

LEMMA PushNextType == PushTypeOK /\ [PushNext]_pushVars => PushTypeOK'
<1> SUFFICES ASSUME PushTypeOK, [PushNext]_pushVars  PROVE PushTypeOK'
  OBVIOUS
<1> USE PushBounds, NoAttemptType
<1>1. CASE Forgets
  BY <1>1 DEF Forgets, PushTypeOK, Frame, rowVars, arrVars, countVars, passVars
<1>2. CASE Attempts
  <2>1. CASE Tried
    <3>1. attempt' = [first |-> attempt.first, last |-> 0]
      BY <1>2, <2>1 DEF Attempts
    <3>2. attempt' \in [first : Ages, last : Ages] /\ attempt'.last <= attempt'.first
      BY <2>1, <3>1, AttemptType DEF Ages
    <3>. QED  BY <1>2, <3>2 DEF Attempts, PushTypeOK, Frame, rowVars, arrVars, countVars
  <2>2. CASE ~Tried
    <3>1. attempt' = [first |-> 0, last |-> 0]
      BY <1>2, <2>2 DEF Attempts
    <3>2. attempt' \in [first : Ages, last : Ages] /\ attempt'.last <= attempt'.first
      BY <3>1 DEF Ages
    <3>. QED  BY <1>2, <3>2 DEF Attempts, PushTypeOK, Frame, rowVars, arrVars, countVars
  <2>. QED  BY <2>1, <2>2
<1>3. CASE MarksNotified
  <2>1. /\ attempt' = NoAttempt /\ at' = "idle" /\ pos' = 1 /\ todo' = {}
        /\ handled' \in BOOLEAN /\ erred' \in BOOLEAN /\ late' \in BOOLEAN
        /\ overtaken' \in BOOLEAN
    BY <1>3 DEF MarksNotified, Idle
  <2>2. notified' \in BOOLEAN /\ (state' = "gone" => ~notified')
    <3>1. state' = state /\ (notified' = notified \/ (state # "gone" /\ notified' = TRUE))
      BY <1>3 DEF MarksNotified
    <3>2. notified \in BOOLEAN /\ (state = "gone" => ~notified)
      BY DEF PushTypeOK
    <3>3. CASE notified' = notified
      BY <3>1, <3>2, <3>3
    <3>4. CASE state # "gone" /\ notified' = TRUE
      BY <3>1, <3>4
    <3>. QED  BY <3>1, <3>3, <3>4
  <2>. QED  BY <1>3, <2>1, <2>2 DEF MarksNotified, PushTypeOK, arrVars, countVars
<1>4. CASE FetchFails
  BY <1>4, NextInstanceType DEF FetchFails, PushTypeOK, Frame, rowVars, arrVars, countVars
<1>5. CASE Fetches
  <2>1. CASE listed[pos] = {}
    <3>1. NextInstance(erred) /\ erred \in BOOLEAN
      BY <1>5, <2>1 DEF Fetches, PushTypeOK
    <3>. QED  BY <1>5, <3>1, NextInstanceType
              DEF Fetches, PushTypeOK, Frame, rowVars, arrVars, countVars
  <2>2. CASE listed[pos] # {}
    BY <1>5, <2>2 DEF Fetches, PushTypeOK, Frame, rowVars, arrVars, countVars
  <2>. QED  BY <2>1, <2>2
<1>6. ASSUME NEW r \in todo, Removes(r)  PROVE PushTypeOK'
  BY <1>6 DEF Removes, Removed, PushTypeOK, rowVars, countVars
<1>7. ASSUME NEW r \in todo, RemoveFails(r)  PROVE PushTypeOK'
  <2>1. listed' \in [Instances -> SUBSET Records] /\ deleting' \in BOOLEAN
    BY <1>7 DEF RemoveFails, Removed, PushTypeOK
  <2>. QED  BY <1>7, <2>1, NextInstanceType DEF RemoveFails, PushTypeOK, rowVars, countVars
<1>8. ASSUME NEW i \in Instances, NEW records \in SUBSET (Records \ todo), FailsFor(i, records)
      PROVE  PushTypeOK'
  BY <1>8 DEF FailsFor, PushTypeOK, OutsideThePass, passVars, Ages
<1>9. CASE AddedAgain
  <2>1. state' = "TRIED" /\ notified' \in BOOLEAN /\ overtaken' \in BOOLEAN
    BY <1>9 DEF AddedAgain, Tried
  <2>. QED  BY <1>9, <2>1 DEF AddedAgain, PushTypeOK, OutsideThePass, passVars, arrVars
<1>10. CASE Deleted
  BY <1>10 DEF Deleted, PushTypeOK, OutsideThePass, passVars
<1>11. ASSUME NEW i \in Instances, Lists(i) \/ UserRemoves(i)  PROVE PushTypeOK'
  <2>1. listed' \in [Instances -> SUBSET Records] /\ coming' \in [Instances -> SUBSET Records]
    <3>1. CASE Lists(i)
      BY <3>1 DEF Lists, PushTypeOK
    <3>2. CASE UserRemoves(i)
      BY <3>2 DEF UserRemoves, PushTypeOK
    <3>. QED  BY <1>11, <3>1, <3>2
  <2>2. UNCHANGED <<state, notified, attempt, at, pos, todo, handled, erred, late, deleting,
                    failedAge, failures, crashes, overtaken>>
    BY <1>11 DEF Lists, UserRemoves, OutsideThePass, passVars, rowVars
  <2>. QED  BY <2>1, <2>2 DEF PushTypeOK
<1>12. CASE TimePasses
  <2>1. failedAge' \in Ages
    BY <1>12, PushBounds DEF TimePasses, PushTypeOK, Older, Ages
  <2>2. /\ attempt' \in [first : Ages, last : Ages] \cup {NoAttempt}
        /\ attempt'.last <= attempt'.first
    <3>1. CASE Tried
      <4>1. attempt.last <= attempt.first
        BY DEF PushTypeOK
      <4>2. attempt' = [first |-> Older(attempt.first), last |-> Older(attempt.last)]
        BY <1>12, <3>1 DEF TimePasses
      <4>. QED  BY <3>1, <4>1, <4>2, AttemptType, OlderType
    <3>2. CASE ~Tried
      BY <1>12, <3>2 DEF TimePasses, PushTypeOK
    <3>. QED  BY <3>1, <3>2
  <2>. QED  BY <1>12, <2>1, <2>2
            DEF TimePasses, PushTypeOK, rowVars, passVars, arrVars, countVars
<1>13. CASE Crash
  <2>1. /\ attempt' = NoAttempt /\ at' = "idle" /\ pos' = 1 /\ todo' = {}
        /\ handled' \in BOOLEAN /\ erred' \in BOOLEAN /\ late' \in BOOLEAN
        /\ overtaken' \in BOOLEAN
    BY <1>13 DEF Crash, Idle
  <2>2. crashes' \in 0 .. MaxCrashes
    BY <1>13 DEF Crash, PushTypeOK
  <2>. QED  BY <1>13, <2>1, <2>2 DEF Crash, PushTypeOK, rowVars, arrVars
<1>14. CASE UNCHANGED pushVars
  BY <1>14 DEF PushTypeOK, pushVars, rowVars, passVars, arrVars, countVars
<1>. QED  BY <1>1, <1>2, <1>3, <1>4, <1>5, <1>6, <1>7, <1>8, <1>9, <1>10, <1>11, <1>12, <1>13,
             <1>14 DEF PushNext, Push, World

(* The row of a failure, the attempts to push it and the instances keep their  *)
(* ranges (reconcile.go, arrPass; arr.go).                                     *)
THEOREM PushTypeCorrect == PushSpec => []PushTypeOK
BY PushInitType, PushNextType, PTL DEF PushSpec

-----------------------------------------------------------------------------
(* A torrent nobody has is given up, and no other.                             *)

(* A torrent whose attempts go on, and that was not added again, failed before *)
(* the first of them.                                                          *)
FailedBefore ==
  Tried /\ ~overtaken => state # "TRIED" /\ failedAge >= attempt.first

(* What is not listed yet was grabbed a short while ago. *)
GrabbedLately == coming # Nowhere => failedAge <= Refresh

(* A pass that asks an instance has its attempt, one at the end of the grace   *)
(* began at its end; so far no instance that was asked has a record, unless    *)
(* one could not be asked.                                                     *)
AskedSoFar ==
  /\ at = "idle" => pos = 1
  /\ at # "idle" => Tried
  /\ at # "idle" /\ late => attempt.first = Grace
  /\ at \in {"fetch", "remove"} /\ late /\ ~erred /\ ~overtaken
       => \A i \in Instances : i < pos => listed[i] = {}

PushInv == FailedBefore /\ GrabbedLately /\ AskedSoFar

(* After the grace every instance lists what it has. *)
LEMMA NothingComing ==
  ASSUME PushTypeOK, PushInv, at # "idle", late, ~overtaken
  PROVE  coming = Nowhere
BY PushBounds DEF PushTypeOK, PushInv, FailedBefore, GrabbedLately, AskedSoFar, Ages

LEMMA PushInitInv == PushInit => PushInv
BY DEF PushInit, PushInv, FailedBefore, GrabbedLately, AskedSoFar, Tried

LEMMA PushNextInv == PushTypeOK /\ PushInv /\ [PushNext]_pushVars => PushInv'
<1> SUFFICES ASSUME PushTypeOK, PushInv, [PushNext]_pushVars  PROVE PushInv'
  OBVIOUS
<1> USE PushBounds
<1>0. PushTypeOK'
  BY PushNextType
<1>1. CASE Forgets
  <2>1. ~Tried'
    BY <1>1 DEF Forgets, Tried
  <2>. QED  BY <1>1, <2>1 DEF Forgets, PushInv, FailedBefore, GrabbedLately, AskedSoFar, Frame,
                              rowVars, arrVars, passVars, Nowhere
<1>2. CASE Attempts
  <2>1. Tried'
    <3>1. attempt'.last = 0 /\ NoAttempt.last = Grace + 1
      BY <1>2 DEF Attempts, NoAttempt
    <3>. QED  BY <3>1 DEF Tried
  <2>2. /\ attempt'.first \in Ages /\ (late' => attempt'.first >= Grace)
        /\ attempt'.first = (IF Tried THEN attempt.first ELSE 0)
    BY <1>0, <1>2, <2>1 DEF Attempts, PushTypeOK, Tried
  <2>3. FailedBefore'
    BY <1>2, <2>2 DEF Attempts, Pending, PushInv, FailedBefore, PushTypeOK, Ages, Frame, rowVars
  <2>4. AskedSoFar'
    <3>1. pos' = 1
      BY <1>2 DEF Attempts, PushInv, AskedSoFar
    <3>2. \A i \in Instances : ~(i < pos')
      BY <3>1
    <3>3. late' => attempt'.first = Grace
      BY <2>2 DEF Ages
    <3>. QED  BY <1>2, <2>1, <3>1, <3>2, <3>3 DEF Attempts, AskedSoFar
  <2>5. GrabbedLately'
    BY <1>2 DEF Attempts, PushInv, GrabbedLately, Frame, arrVars, Nowhere
  <2>. QED  BY <2>3, <2>4, <2>5 DEF PushInv
<1>3. CASE MarksNotified
  <2>1. ~Tried'
    BY <1>3 DEF MarksNotified, Tried
  <2>. QED  BY <1>3, <2>1 DEF MarksNotified, Idle, PushInv, FailedBefore, GrabbedLately,
                              AskedSoFar, arrVars, Nowhere
<1>4. CASE FetchFails
  BY <1>4 DEF FetchFails, NextInstance, Asked, Idle, PushInv, FailedBefore, GrabbedLately,
              AskedSoFar, Frame, rowVars, arrVars, Tried, Nowhere
<1>5. CASE Fetches
  <2>1. FailedBefore' /\ GrabbedLately'
    BY <1>5 DEF Fetches, PushInv, FailedBefore, GrabbedLately, Frame, rowVars, arrVars, Tried,
                Nowhere
  <2>2. CASE listed[pos] = {}
    <3>1. NextInstance(erred) /\ UNCHANGED <<attempt, overtaken, listed>>
      BY <1>5, <2>2 DEF Fetches, Frame, arrVars
    <3>2. CASE ~(pos + 1 \in Instances)
      BY <1>5, <2>1, <3>1, <3>2 DEF Fetches, NextInstance, Asked, Idle, PushInv, AskedSoFar, Tried
    <3>3. CASE pos + 1 \in Instances
      <4>1. at' = "fetch" /\ pos' = pos + 1 /\ erred' = erred /\ late' = late
        BY <3>1, <3>3 DEF NextInstance
      <4>2. ASSUME NEW i \in Instances, i < pos + 1, late, ~erred, ~overtaken
            PROVE  listed[i] = {}
        <5>1. i < pos \/ i = pos
          BY <4>2 DEF PushTypeOK
        <5>. QED  BY <1>5, <2>2, <4>2, <5>1 DEF Fetches, PushInv, AskedSoFar
      <4>. QED  BY <1>5, <2>1, <3>1, <4>1, <4>2 DEF Fetches, PushInv, AskedSoFar, Tried
    <3>. QED  BY <3>2, <3>3
  <2>3. CASE listed[pos] # {}
    BY <1>5, <2>1, <2>3 DEF Fetches, PushInv, AskedSoFar, Frame, arrVars, Tried
  <2>. QED  BY <2>1, <2>2, <2>3 DEF PushInv
<1>6. ASSUME NEW r \in todo, Removes(r)  PROVE PushInv'
  <2>1. \A i \in Instances : listed[i] = {} => listed'[i] = {}
    BY <1>6 DEF Removes, Removed, PushTypeOK
  <2>. QED  BY <1>6, <2>1 DEF Removes, PushInv, FailedBefore, GrabbedLately, AskedSoFar, rowVars,
                              Tried, Nowhere
<1>7. ASSUME NEW r \in todo, RemoveFails(r)  PROVE PushInv'
  BY <1>7 DEF RemoveFails, NextInstance, Asked, Idle, PushInv, FailedBefore, GrabbedLately,
              AskedSoFar, rowVars, Tried, Nowhere
<1>8. ASSUME NEW i \in Instances, NEW records \in SUBSET (Records \ todo), FailsFor(i, records)
      PROVE  PushInv'
  <2>1. ~Tried \/ overtaken
    BY <1>8 DEF FailsFor, PushInv, FailedBefore
  <2>. QED  BY <1>8, <2>1 DEF FailsFor, OutsideThePass, passVars, PushInv, FailedBefore,
                              GrabbedLately, AskedSoFar, Tried
<1>9. CASE AddedAgain
  BY <1>9 DEF AddedAgain, OutsideThePass, passVars, arrVars, PushInv, FailedBefore,
              GrabbedLately, AskedSoFar, Tried, Nowhere
<1>10. CASE Deleted
  BY <1>10 DEF Deleted, OutsideThePass, passVars, PushInv, FailedBefore, GrabbedLately,
               AskedSoFar, Tried, Nowhere
<1>11. ASSUME NEW i \in Instances, Lists(i)  PROVE PushInv'
  <2>1. coming # Nowhere
    BY <1>11 DEF Lists, Nowhere
  <2>2. at # "idle" /\ late => overtaken
    BY <2>1, NothingComing
  <2>. QED  BY <1>11, <2>1, <2>2 DEF Lists, OutsideThePass, passVars, rowVars, PushInv,
                                     FailedBefore, GrabbedLately, AskedSoFar, Tried
<1>12. ASSUME NEW i \in Instances, UserRemoves(i)  PROVE PushInv'
  <2>1. \A j \in Instances : listed[j] = {} => listed'[j] = {}
    BY <1>12 DEF UserRemoves, PushTypeOK
  <2>. QED  BY <1>12, <2>1 DEF UserRemoves, OutsideThePass, passVars, rowVars, PushInv,
                               FailedBefore, GrabbedLately, AskedSoFar, Tried, Nowhere
<1>13. CASE TimePasses
  <2>1. UNCHANGED <<state, at, pos, late, erred, listed, coming, overtaken>>
    BY <1>13 DEF TimePasses, rowVars, passVars, arrVars
  <2>2. Tried' => Tried
    BY <1>13 DEF TimePasses, Tried
  <2>3. Tried => attempt'.first = Older(attempt.first) /\ Tried'
    <3>1. SUFFICES ASSUME Tried
                   PROVE  attempt'.first = Older(attempt.first) /\ Tried'
      OBVIOUS
    <3>2. attempt' = [first |-> Older(attempt.first), last |-> Older(attempt.last)]
      BY <1>13, <3>1 DEF TimePasses
    <3>3. Older(attempt.first) \in Ages
      BY <3>1, AttemptType, OlderType DEF PushTypeOK
    <3>4. attempt' # NoAttempt
      BY <3>2, <3>3 DEF NoAttempt, Ages
    <3>. QED  BY <3>2, <3>4 DEF Tried
  <2>4. FailedBefore'
    <3>1. SUFFICES ASSUME Tried, ~overtaken
                   PROVE  failedAge' >= attempt'.first
      BY <2>1, <2>2 DEF PushInv, FailedBefore
    <3>2. failedAge \in Ages /\ attempt.first \in Ages /\ attempt.first <= failedAge
      BY <3>1, AttemptType DEF PushTypeOK, PushInv, FailedBefore, Ages
    <3>3. Older(attempt.first) <= Older(failedAge) /\ failedAge' = Older(failedAge)
      BY <1>13, <3>2, OlderType DEF TimePasses
    <3>. QED  BY <2>3, <3>1, <3>2, <3>3, OlderType DEF Ages
  <2>5. GrabbedLately'
    BY <1>13, <2>1 DEF TimePasses, Older, PushTypeOK, Ages, GrabbedLately, Nowhere
  <2>6. AskedSoFar'
    <3>1. Older(Grace) = Grace
      BY DEF Older
    <3>. QED  BY <2>1, <2>3, <3>1 DEF PushInv, AskedSoFar
  <2>. QED  BY <2>4, <2>5, <2>6 DEF PushInv
<1>14. CASE Crash
  <2>1. ~Tried'
    BY <1>14 DEF Crash, Tried
  <2>. QED  BY <1>14, <2>1 DEF Crash, Idle, PushInv, FailedBefore, GrabbedLately, AskedSoFar,
                               arrVars, Nowhere
<1>15. CASE UNCHANGED pushVars
  BY <1>15 DEF pushVars, rowVars, passVars, arrVars, countVars, PushInv, FailedBefore,
               GrabbedLately, AskedSoFar, Tried, Nowhere
<1>. QED  BY <1>1, <1>2, <1>3, <1>4, <1>5, <1>6, <1>7, <1>8, <1>9, <1>10, <1>11, <1>12, <1>13,
             <1>14, <1>15 DEF PushNext, Push, World

(* A failure is given up only when no instance has it in its queue or will     *)
(* have (reconcile.go, arrPass; arr.go, NotifyFailed).                         *)
THEOREM GivenUpMeansUntracked == PushSpec => GivenUpIsUntracked
<1> DEFINE GivesUp == at # "mark" /\ at' = "mark" /\ ~handled' /\ ~overtaken
<1>1. ASSUME PushTypeOK, PushInv, PushNext, GivesUp
      PROVE  listed = Nowhere /\ coming = Nowhere
  <2>1. Fetches /\ listed[pos] = {} /\ ~(pos + 1 \in Instances) /\ ~erred /\ late
    BY <1>1 DEF PushNext, Push, World, Forgets, Attempts, MarksNotified, FetchFails, Fetches,
                NextInstance, Asked, Idle, Removes, RemoveFails, FailsFor, AddedAgain, Deleted,
                Lists, UserRemoves, TimePasses, Crash, OutsideThePass, passVars
  <2>2. coming = Nowhere
    BY <1>1, <2>1, NothingComing DEF Fetches
  <2>3. \A i \in Instances : listed[i] = {}
    <3>1. pos = N
      BY <1>1, <2>1, PushBounds DEF PushTypeOK
    <3>2. \A i \in Instances : i < pos => listed[i] = {}
      BY <1>1, <2>1 DEF Fetches, PushInv, AskedSoFar
    <3>. QED  BY <2>1, <3>1, <3>2, PushBounds
  <2>. QED  BY <1>1, <2>2, <2>3 DEF Nowhere, PushTypeOK
<1>2. PushTypeOK /\ PushInv /\ [PushNext]_pushVars
        => [GivesUp => listed = Nowhere /\ coming = Nowhere]_pushVars
  BY <1>1
<1>. QED  BY <1>2, PushInitType, PushNextType, PushInitInv, PushNextInv,
             PTL DEF PushSpec, GivenUpIsUntracked
================================================================================
