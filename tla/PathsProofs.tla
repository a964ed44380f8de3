------------------------------ MODULE PathsProofs ------------------------------
(* Where content goes, for any numbers of torrents, categories, roots,         *)
(* requests and restarts: the types, and what is still to be downloaded under  *)
(* the root.                                                                   *)
EXTENDS Paths, TLAPS

USE PathsAssumption, NothingAssumption

(* The entries of a torrent are its own. *)
LEMMA ItsOwn ==
  ASSUME NEW h, NEW save, NEW d, d \in Staged(h, save) \/ d \in Placed(h, save)
  PROVE  d.of = h
<1>1. CASE d \in Staged(h, save)
  <2>1. PICK n \in Tops[h] : d = [path |-> Staging(h, save) \o <<n>>, of |-> h]
    BY <1>1 DEF Staged
  <2>. QED  BY <2>1
<1>2. CASE d \in Placed(h, save)
  <2>1. PICK n \in Tops[h] : d = [path |-> save \o <<n>>, of |-> h]
    BY <1>2 DEF Placed
  <2>. QED  BY <2>1
<1>. QED  BY <1>1, <1>2

-----------------------------------------------------------------------------
(* Types, and what is still to be downloaded. *)

Within(save) == save[1] \in {root, Elsewhere}

(* The rows that wait, and what a request would give a row or a category.      *)
RootsOK ==
  /\ PendingUnderRoot
  /\ \A c \in Categories : catPath[c] # NoPath => Within(catPath[c])
  /\ request # NoRequest => Within(request.save)

TInv == TypeOK /\ RootsOK

LEMMA ContentPathType ==
  ASSUME NEW h \in Releases, NEW save \in Saves
  PROVE  ContentPath(h, save) \in Contents /\ ContentPath(h, save) # NoPath
<1> DEFINE n == CHOOSE m \in Tops[h] : TRUE
<1>1. n \in UNION {Tops[g] : g \in Releases}
  <2>1. n \in Tops[h]
    OBVIOUS
  <2>. QED  BY <2>1
<1> HIDE DEF n
<1>2. save \o <<n>> \in Contents /\ save \in Contents
  BY <1>1 DEF Contents
<1>3. ContentPath(h, save) \in Contents
  BY <1>2 DEF ContentPath, n
<1>. QED  BY <1>3

LEMMA RootPaths ==
  ASSUME NEW r \in Roots, NEW c \in Labels
  PROVE  /\ UnderRoot(r, c) \in Saves /\ UnderRoot(r, c)[1] = r
         /\ <<r>> \in Saves /\ <<r>>[1] = r /\ <<Elsewhere>> \in Saves /\ <<Elsewhere>>[1] = Elsewhere
         /\ c \in Categories => <<r, c>> \in Saves /\ <<r, c>>[1] = r
         /\ NoPath \notin Saves
BY DEF UnderRoot, Labels, Saves, Contents

LEMMA InitTInv == Init => TInv
<1> SUFFICES ASSUME Init  PROVE  TInv
  OBVIOUS
<1>1. TypeOK
  BY DEF Init, TypeOK
<1>2. RootsOK
  BY DEF Init, RootsOK, PendingUnderRoot, Is
<1>. QED  BY <1>1, <1>2 DEF TInv

LEMMA RequestTyped ==
  ASSUME TInv, Request
  PROVE  TInv'
<1>0. TypeOK /\ RootsOK
  BY DEF TInv
<1>1. ASSUME NEW kind \in {"add", "set"}, NEW h \in Releases, NEW c \in Labels, Resolves(kind, h, c)
      PROVE  TInv'
  <2>1. /\ catPath' \in [Categories -> Saves \cup {NoPath}]
        /\ \A k \in Categories : catPath'[k] # NoPath => Within(catPath'[k])
        /\ c # Uncategorised => c \in Categories /\ catPath'[c] # NoPath
    <3>0. catPath \in [Categories -> Saves \cup {NoPath}] /\ root \in Roots
          /\ \A k \in Categories : catPath[k] # NoPath => Within(catPath[k])
      BY <1>0 DEF TypeOK, RootsOK
    <3>1. CASE c # Uncategorised /\ catPath[c] = NoPath
      <4>1. c \in Categories /\ catPath' = [catPath EXCEPT ![c] = <<root, c>>]
        BY <1>1, <3>1 DEF Resolves, Labels
      <4>2. <<root, c>> \in Saves /\ Within(<<root, c>>) /\ NoPath \notin Saves
        BY <3>0, <4>1, RootPaths DEF Within
      <4>. QED  BY <3>0, <4>1, <4>2
    <3>2. CASE ~(c # Uncategorised /\ catPath[c] = NoPath)
      BY <1>1, <3>0, <3>2 DEF Resolves, Labels
    <3>. QED  BY <3>1, <3>2
  <2> DEFINE save == IF c = Uncategorised THEN <<root>> ELSE catPath'[c]
  <2>2. save \in Saves /\ Within(save)
    <3>1. root \in Roots
      BY <1>0 DEF TypeOK
    <3>2. <<root>> \in Saves /\ Within(<<root>>)
      BY <3>1, RootPaths DEF Within
    <3>. QED  BY <2>1, <3>2
  <2>3. request' = [kind |-> kind, h |-> h, category |-> c, save |-> save]
    BY <1>1 DEF Resolves, Asked
  <2> HIDE DEF save
  <2>4. request' \in Requests /\ request'.save = save
    BY <2>2, <2>3 DEF Requests
  <2>5. UNCHANGED <<root, row, job, listed, pass, disk, deleting, recovering, doomed>>
    BY <1>1 DEF Resolves, RequestFrame
  <2>6. TypeOK'
    BY <1>0, <2>1, <2>4, <2>5 DEF TypeOK
  <2>7. RootsOK'
    BY <1>0, <2>1, <2>2, <2>4, <2>5 DEF RootsOK, PendingUnderRoot, Is, Within
  <2>. QED  BY <2>6, <2>7 DEF TInv
<1>2. CASE Persists \/ SetsCategory
  <2>0. /\ request \in Requests /\ Within(request.save) /\ row \in [Releases -> Rows \cup {NoRow}]
        /\ request' = NoRequest
        /\ UNCHANGED <<root, catPath, job, listed, pass, disk, deleting, recovering, doomed>>
    BY <1>0, <1>2 DEF Persists, SetsCategory, RequestFrame, TypeOK, RootsOK
  <2>1. PICK new \in Rows :
          /\ row' = row \/ row' = [row EXCEPT ![request.h] = new]
          /\ new.content = NoPath => new.state \in {"QUEUED", "ERROR"}
          /\ new.save = request.save
    <3>1. CASE Persists
      <4>1. NewRow \in Rows /\ NewRow.state = "QUEUED" /\ NewRow.save = request.save
        BY <2>0 DEF NewRow, Rows, Requests, States, Pending
      <4>. QED  BY <3>1, <4>1 DEF Persists
    <3>2. CASE SetsCategory /\ row[request.h] # NoRow
      <4> DEFINE new == [row[request.h] EXCEPT !.category = request.category, !.save = request.save]
      <4>1. request.h \in Releases /\ row[request.h] \in Rows
        BY <2>0, <3>2 DEF Requests
      <4>2. new \in Rows /\ new.save = request.save
            /\ new.content = row[request.h].content /\ new.state = row[request.h].state
        BY <2>0, <4>1 DEF Rows, Requests
      <4>3. row' = [row EXCEPT ![request.h] = new]
        BY <2>0, <3>2, <4>1 DEF SetsCategory
      <4>. QED  BY <1>0, <3>2, <4>1, <4>2, <4>3 DEF TypeOK
    <3>3. CASE SetsCategory /\ row[request.h] = NoRow
      <4>1. row' = row
        BY <3>3 DEF SetsCategory
      <4> DEFINE some == [state |-> "QUEUED", category |-> request.category,
                          save |-> request.save, content |-> NoPath]
      <4>2. some \in Rows /\ some.state = "QUEUED" /\ some.save = request.save
        BY <2>0 DEF Rows, Requests, States, Pending
      <4>. QED  BY <4>1, <4>2
    <3>. QED  BY <1>2, <3>1, <3>2, <3>3
  <2>2. request.h \in Releases
    BY <2>0 DEF Requests
  <2>3. TypeOK'
    BY <1>0, <2>0, <2>1, <2>2 DEF TypeOK
  <2>4. RootsOK'
    BY <1>0, <2>0, <2>1, <2>2 DEF RootsOK, PendingUnderRoot, Is, Within
  <2>. QED  BY <2>3, <2>4 DEF TInv
<1>3. ASSUME NEW c \in Categories, CreatesCategory(c) \/ RemovesCategory(c)
      PROVE  TInv'
  <2>1. PICK save \in {<<root, c>>, <<Elsewhere>>, NoPath} : catPath' = [catPath EXCEPT ![c] = save]
    BY <1>3 DEF CreatesCategory, RemovesCategory
  <2>2. save \in Saves \cup {NoPath} /\ (save # NoPath => Within(save))
    <3>1. root \in Roots /\ c \in Labels
      BY <1>0 DEF TypeOK, Labels
    <3>2. <<root, c>> \in Saves /\ Within(<<root, c>>) /\ <<Elsewhere>> \in Saves /\ Within(<<Elsewhere>>)
      BY <3>1, RootPaths DEF Within
    <3>. QED  BY <2>1, <3>2
  <2>3. UNCHANGED <<root, row, job, listed, pass, disk, request, deleting, recovering, doomed>>
    BY <1>3 DEF CreatesCategory, RemovesCategory, RequestFrame
  <2>4. TypeOK'
    BY <1>0, <2>1, <2>2, <2>3 DEF TypeOK
  <2>5. RootsOK'
    BY <1>0, <2>1, <2>2, <2>3 DEF TypeOK, RootsOK, PendingUnderRoot, Is, Within
  <2>. QED  BY <2>4, <2>5 DEF TInv
<1>. QED  BY <1>1, <1>2, <1>3 DEF Request, Labels

(* A goroutine that still writes to its row. *)
Writes(h) == job[h] # NoJob /\ job[h].live

(* A step of a delete, a loop or the recovery: it makes no row wait that does  *)
(* not wait already, and moves none.                                           *)
Settles(h) ==
  /\ row'[h] # NoRow /\ row'[h].content = NoPath => row'[h].state \in {"QUEUED", "ERROR"}
  /\ Writes(h)' \/ listed'[h] # NoPath \/ pass'[h] # NoListing => row'[h] # NoRow
  /\ Is(h, Pending)' => Is(h, Pending) /\ row'[h].save = row[h].save

LEMMA StepTyped ==
  ASSUME TInv, UNCHANGED <<root, catPath, request>>,
         row' \in [Releases -> Rows \cup {NoRow}], job' \in [Releases -> Jobs \cup {NoJob}],
         listed' \in [Releases -> Saves \cup {NoPath}], deleting' \in Deletes \cup {NoDelete},
         pass' \in [Releases -> Listings \cup {NoListing}],
         recovering' \subseteq Releases, doomed' \subseteq Releases,
         \A d \in disk' : d.of \in Releases, \A h \in Releases : Settles(h)
  PROVE  TInv'
<1>1. TypeOK'
  BY DEF TInv, TypeOK, Settles, Writes
<1>2. RootsOK'
  BY DEF TInv, RootsOK, PendingUnderRoot, Settles, Within
<1>. QED  BY <1>1, <1>2 DEF TInv

(* The torrents a step is not about. *)
LEMMA OthersSettle ==
  ASSUME TInv, NEW h \in Releases, row'[h] = row[h],
         Writes(h)' => Writes(h),
         listed'[h] = listed[h] \/ listed'[h] = NoPath,
         pass'[h] = pass[h] \/ pass'[h] = NoListing
  PROVE  Settles(h)
BY DEF TInv, TypeOK, Settles, Is, Writes

LEMMA DeleteTyped ==
  ASSUME TInv, Delete
  PROVE  TInv'
<1>0. TypeOK /\ UNCHANGED <<root, catPath, request, recovering>>
  BY DEF TInv, Delete, DeleteReads, DeleteRemoves, DeleteDrops, DeleteFrame
<1>1. ASSUME NEW h \in Releases, DeleteReads(h)
      PROVE  TInv'
  <2>1. /\ row[h] \in Rows /\ UNCHANGED <<row, job, listed, pass, disk>>
        /\ doomed' = doomed \cup {h}
    BY <1>0, <1>1 DEF DeleteReads, TypeOK
  <2>2. deleting' \in Deletes
    BY <1>1, <2>1 DEF DeleteReads, Rows, Deletes
  <2>3. \A g \in Releases : Settles(g)
    BY <2>1, OthersSettle DEF Writes
  <2>. QED  BY <1>0, <1>1, <2>1, <2>2, <2>3, StepTyped DEF TypeOK
<1>2. CASE DeleteRemoves
  <2>1. UNCHANGED <<row, job, listed, pass, doomed>> /\ disk' \subseteq disk
    BY <1>2 DEF DeleteRemoves
  <2>2. deleting' \in Deletes
    BY <1>0, <1>2 DEF DeleteRemoves, TypeOK, Deletes
  <2>3. \A g \in Releases : Settles(g)
    BY <2>1, OthersSettle DEF Writes
  <2>. QED  BY <1>0, <2>1, <2>2, <2>3, StepTyped DEF TypeOK
<1>3. CASE DeleteDrops
  <2>0. PICK h \in Releases : h = deleting.h
    BY <1>0, <1>3 DEF DeleteDrops, TypeOK, Deletes
  <2>1. /\ row' = [row EXCEPT ![h] = NoRow] /\ Forgets(h)
        /\ deleting' = NoDelete /\ doomed' \subseteq doomed /\ disk' = disk
    BY <1>3, <2>0 DEF DeleteDrops
  <2>2. /\ job' = IF job[h] = NoJob THEN job ELSE [job EXCEPT ![h].live = FALSE]
        /\ listed' = [listed EXCEPT ![h] = NoPath] /\ pass' = [pass EXCEPT ![h] = NoListing]
    BY <2>1 DEF Forgets
  <2>3. /\ job' \in [Releases -> Jobs \cup {NoJob}]
        /\ \A g \in Releases \ {h} : job'[g] = job[g]
        /\ ~Writes(h)'
    <3>0. job \in [Releases -> Jobs \cup {NoJob}]
      BY <1>0 DEF TypeOK
    <3>1. CASE job[h] = NoJob
      BY <2>2, <3>0, <3>1 DEF Writes
    <3>2. CASE job[h] # NoJob
      BY <2>1, <2>2, <3>0, <3>2 DEF Jobs, Writes
    <3>. QED  BY <3>1, <3>2
  <2>4. /\ listed' \in [Releases -> Saves \cup {NoPath}] /\ listed'[h] = NoPath /\ row'[h] = NoRow
        /\ pass' \in [Releases -> Listings \cup {NoListing}] /\ pass'[h] = NoListing
        /\ \A g \in Releases \ {h} : row'[g] = row[g] /\ listed'[g] = listed[g] /\ pass'[g] = pass[g]
    BY <1>0, <2>1, <2>2 DEF TypeOK
  <2>5. Settles(h)
    BY <2>3, <2>4 DEF Settles, Is
  <2>6. \A g \in Releases : Settles(g)
    BY <2>3, <2>4, <2>5, OthersSettle DEF Writes
  <2>7. row' \in [Releases -> Rows \cup {NoRow}]
    BY <1>0, <2>1 DEF TypeOK
  <2>. QED  BY <1>0, <2>1, <2>3, <2>4, <2>6, <2>7, StepTyped DEF TypeOK
<1>. QED  BY <1>1, <1>2, <1>3 DEF Delete

(* A loop, or the recovery, moves on the row of h, in its state and its        *)
(* content path.                                                               *)
MovesOn(h, state, content) == row' = [row EXCEPT ![h].state = state, ![h].content = content]

LEMMA MovesOnTyped ==
  ASSUME TInv, NEW h \in Releases, row[h] # NoRow,
         NEW state \in States \ {"QUEUED"}, NEW content \in Contents \cup {NoPath},
         MovesOn(h, state, content), state # "ERROR" => content # NoPath,
         state = "LOCAL_QUEUED" => Is(h, Pending)
  PROVE  /\ row' \in [Releases -> Rows \cup {NoRow}] /\ row'[h] # NoRow
         /\ row'[h].state = state /\ row'[h].content = content /\ row'[h].save = row[h].save
         /\ row'[h].content = NoPath => row'[h].state = "ERROR"
         /\ \A g \in Releases \ {h} : row'[g] = row[g]
         /\ Is(h, Pending)' => Is(h, Pending)
<1>0. row \in [Releases -> Rows \cup {NoRow}] /\ row[h] \in Rows
  BY DEF TInv, TypeOK
<1> DEFINE new == [row[h] EXCEPT !.state = state, !.content = content]
<1>1. new \in Rows /\ new.state = state /\ new.content = content /\ new.save = row[h].save
  BY <1>0 DEF Rows
<1>2. row' = [row EXCEPT ![h] = new]
  BY <1>0 DEF MovesOn
<1> HIDE DEF new
<1>3. /\ row' \in [Releases -> Rows \cup {NoRow}] /\ row'[h] = new
      /\ \A g \in Releases \ {h} : row'[g] = row[g]
  BY <1>0, <1>1, <1>2
<1>4. Is(h, Pending)' => Is(h, Pending)
  BY <1>1, <1>3 DEF Is, Pending
<1>. QED  BY <1>1, <1>3, <1>4

LEMMA LoopsTyped ==
  ASSUME TInv, NEW h \in Releases, Loops(h)
  PROVE  TInv'
<1>0. /\ TypeOK /\ row[h] \in Rows \cup {NoRow} /\ job[h] \in Jobs \cup {NoJob}
      /\ row \in [Releases -> Rows \cup {NoRow}] /\ job \in [Releases -> Jobs \cup {NoJob}]
      /\ listed \in [Releases -> Saves \cup {NoPath}] /\ deleting \in Deletes \cup {NoDelete}
      /\ pass \in [Releases -> Listings \cup {NoListing}]
      /\ recovering \subseteq Releases /\ doomed \subseteq Releases
      /\ \A d \in disk : d.of \in Releases
      /\ UNCHANGED <<root, catPath, request, deleting, recovering, doomed>>
  BY DEF TInv, TypeOK, Loops, Lists, HandsOver, Fails, ListsLocal, Starts, Fetches, Finalizes,
         Completes, Stops, LoopFrame
<1>1. CASE Lists(h)
  <2>1. /\ UNCHANGED <<row, job, pass, disk>> /\ row[h] \in Rows
        /\ listed' = [listed EXCEPT ![h] = row[h].save]
    BY <1>0, <1>1 DEF Lists, Is
  <2>2. listed' \in [Releases -> Saves \cup {NoPath}]
    BY <1>0, <2>1 DEF Rows
  <2>3. Settles(h)
    BY <1>0, <2>1 DEF TypeOK, Settles, Is
  <2>4. \A g \in Releases \ {h} : Settles(g)
    BY <1>0, <2>1, OthersSettle DEF Writes
  <2>. QED  BY <1>0, <2>1, <2>2, <2>3, <2>4, StepTyped
<1>2. CASE HandsOver(h)
  <2>1. /\ UNCHANGED <<job, pass, disk>> /\ listed' = [listed EXCEPT ![h] = NoPath]
        /\ listed[h] \in Saves
    BY <1>0, <1>2 DEF HandsOver
  <2>2. listed' \in [Releases -> Saves \cup {NoPath}] /\ listed'[h] = NoPath
        /\ \A g \in Releases \ {h} : listed'[g] = listed[g]
    BY <1>0, <2>1
  <2>3. CASE Is(h, {"QUEUED"})
    <3>1. /\ MovesOn(h, "LOCAL_QUEUED", ContentPath(h, listed[h]))
          /\ ContentPath(h, listed[h]) \in Contents /\ ContentPath(h, listed[h]) # NoPath
      BY <1>2, <2>1, <2>3, ContentPathType DEF HandsOver, MovesOn
    <3>2. "LOCAL_QUEUED" \in States \ {"QUEUED"} /\ Is(h, Pending) /\ row[h] # NoRow
      BY <2>3 DEF States, Pending, Is
    <3>3. /\ row' \in [Releases -> Rows \cup {NoRow}] /\ row'[h] # NoRow
          /\ row'[h].save = row[h].save /\ row'[h].content # NoPath
          /\ \A g \in Releases \ {h} : row'[g] = row[g]
      BY <3>1, <3>2, MovesOnTyped
    <3>4. Settles(h)
      BY <2>2, <3>2, <3>3 DEF Settles, Is
    <3>5. \A g \in Releases \ {h} : Settles(g)
      BY <1>0, <2>1, <2>2, <3>3, OthersSettle DEF Writes
    <3>. QED  BY <1>0, <2>1, <2>2, <3>3, <3>4, <3>5, StepTyped
  <2>4. CASE ~Is(h, {"QUEUED"})
    <3>1. row' = row
      BY <1>2, <2>4 DEF HandsOver
    <3>2. \A g \in Releases : Settles(g)
      BY <2>1, <2>2, <3>1, OthersSettle DEF Writes
    <3>. QED  BY <1>0, <2>1, <2>2, <3>1, <3>2, StepTyped
  <2>. QED  BY <2>3, <2>4
<1>3. CASE Fails(h)
  <2>1. /\ UNCHANGED <<job, listed, pass, disk>> /\ row[h] \in Rows
        /\ row' = [row EXCEPT ![h].state = "ERROR"]
    BY <1>0, <1>3 DEF Fails, Is
  <2>2. /\ row' \in [Releases -> Rows \cup {NoRow}] /\ row'[h] # NoRow /\ row'[h].state = "ERROR"
        /\ \A g \in Releases \ {h} : row'[g] = row[g]
    <3>1. [row[h] EXCEPT !.state = "ERROR"] \in Rows
      BY <2>1 DEF Rows, States
    <3>2. [row[h] EXCEPT !.state = "ERROR"].state = "ERROR"
      BY <2>1 DEF Rows
    <3>. QED  BY <1>0, <2>1, <3>1, <3>2
  <2>3. Settles(h)
    BY <2>2 DEF Settles, Is, Pending
  <2>4. \A g \in Releases \ {h} : Settles(g)
    BY <2>1, <2>2, OthersSettle DEF Writes
  <2>. QED  BY <1>0, <2>1, <2>2, <2>3, <2>4, StepTyped
<1>4. CASE ListsLocal(h)
  <2>1. /\ UNCHANGED <<row, job, listed, disk>> /\ row[h] \in Rows /\ row[h] # NoRow
        /\ pass' = [pass EXCEPT ![h] = [state |-> row[h].state, save |-> row[h].save]]
        /\ row[h].state \in Local
    BY <1>0, <1>4 DEF ListsLocal, Is
  <2>2. [state |-> row[h].state, save |-> row[h].save] \in Listings
    BY <2>1 DEF Rows, Listings
  <2>3. pass' \in [Releases -> Listings \cup {NoListing}] /\ \A g \in Releases \ {h} : pass'[g] = pass[g]
    BY <1>0, <2>1, <2>2
  <2>4. Settles(h)
    BY <1>0, <2>1 DEF TypeOK, Settles, Is
  <2>5. \A g \in Releases \ {h} : Settles(g)
    BY <1>0, <2>1, <2>3, OthersSettle DEF Writes
  <2>. QED  BY <1>0, <2>1, <2>3, <2>4, <2>5, StepTyped
<1>5. CASE Starts(h)
  <2> DEFINE new == [at |-> "fetch", save |-> pass[h].save, live |-> TRUE]
  <2>1. /\ listed' = listed /\ disk' = disk /\ pass' = [pass EXCEPT ![h] = NoListing]
        /\ pass[h] \in Listings /\ pass[h] # NoListing /\ job' = [job EXCEPT ![h] = new]
        /\ row[h] # NoRow /\ row[h] \in Rows
    BY <1>0, <1>5 DEF Starts, TypeOK
  <2>2. new \in Jobs
    BY <2>1 DEF Listings, Jobs
  <2> HIDE DEF new
  <2>3. /\ job' \in [Releases -> Jobs \cup {NoJob}] /\ \A g \in Releases \ {h} : job'[g] = job[g]
        /\ pass' \in [Releases -> Listings \cup {NoListing}]
        /\ \A g \in Releases \ {h} : pass'[g] = pass[g]
    BY <1>0, <2>1, <2>2
  <2>4. CASE row' = row
    <3>1. Settles(h)
      BY <1>0, <2>1, <2>4 DEF TypeOK, Settles, Is
    <3>2. \A g \in Releases \ {h} : Settles(g)
      BY <2>1, <2>3, <2>4, OthersSettle DEF Writes
    <3>. QED  BY <1>0, <2>1, <2>3, <2>4, <3>1, <3>2, StepTyped
  <2>5. CASE row' # row
    <3>1. row[h].content # NoPath /\ row' = [row EXCEPT ![h].state = "LOCAL_DOWNLOAD"]
      BY <1>0, <1>5, <2>1, <2>5 DEF Starts, Is, TypeOK
    <3>2. /\ row' \in [Releases -> Rows \cup {NoRow}] /\ row'[h] # NoRow
          /\ row'[h].state = "LOCAL_DOWNLOAD" /\ row'[h].content # NoPath
          /\ \A g \in Releases \ {h} : row'[g] = row[g]
      <4>1. [row[h] EXCEPT !.state = "LOCAL_DOWNLOAD"] \in Rows
        BY <2>1 DEF Rows, States, Local
      <4>2. /\ [row[h] EXCEPT !.state = "LOCAL_DOWNLOAD"].state = "LOCAL_DOWNLOAD"
            /\ [row[h] EXCEPT !.state = "LOCAL_DOWNLOAD"].content # NoPath
        BY <2>1, <3>1 DEF Rows
      <4>. QED  BY <1>0, <3>1, <4>1, <4>2
    <3>3. Settles(h)
      BY <3>2 DEF Settles, Is, Pending
    <3>4. \A g \in Releases \ {h} : Settles(g)
      BY <2>1, <2>3, <3>2, OthersSettle DEF Writes
    <3>. QED  BY <1>0, <2>1, <2>3, <3>2, <3>3, <3>4, StepTyped
  <2>. QED  BY <2>4, <2>5
<1>6. CASE Fetches(h) \/ Finalizes(h)
  <2>1. UNCHANGED <<row, listed, pass>> /\ job[h] \in Jobs
    BY <1>0, <1>6 DEF Fetches, Finalizes
  <2>2. job' \in [Releases -> Jobs \cup {NoJob}] /\ \A g \in Releases : Writes(g)' => Writes(g)
    <3>1. job' = job \/ job' = [job EXCEPT ![h].at = "placed"]
      BY <1>6 DEF Fetches, Finalizes
    <3>2. [job[h] EXCEPT !.at = "placed"] \in Jobs
      BY <2>1 DEF Jobs
    <3>. QED  BY <1>0, <2>1, <3>1, <3>2 DEF Writes, Jobs
  <2>3. \A d \in disk' : d.of \in Releases
    <3>1. \A d \in disk' : d \in disk \/ d \in Staged(h, job[h].save) \/ d \in Placed(h, job[h].save)
      BY <1>6 DEF Fetches, Finalizes
    <3>. QED  BY <1>0, <3>1, ItsOwn
  <2>4. \A g \in Releases : Settles(g)
    BY <2>1, <2>2, OthersSettle
  <2>. QED  BY <1>0, <2>1, <2>2, <2>3, <2>4, StepTyped
<1>7. CASE Completes(h) \/ Stops(h)
  <2>1. /\ UNCHANGED <<listed, pass, disk>> /\ job' = [job EXCEPT ![h] = NoJob] /\ job[h] \in Jobs
    BY <1>0, <1>7 DEF Completes, Stops
  <2>2. /\ job' \in [Releases -> Jobs \cup {NoJob}] /\ ~Writes(h)'
        /\ \A g \in Releases : Writes(g)' => Writes(g)
    BY <1>0, <2>1 DEF Writes
  <2>3. CASE row' = row
    <3>1. \A g \in Releases : Settles(g)
      BY <2>1, <2>2, <2>3, OthersSettle
    <3>. QED  BY <1>0, <2>1, <2>2, <2>3, <3>1, StepTyped
  <2>4. CASE row' # row
    <3>1. Writes(h)
      BY <1>7, <2>1, <2>4 DEF Completes, Stops, Writes
    <3>2. row[h] # NoRow /\ row[h] \in Rows
      BY <1>0, <3>1 DEF TypeOK, Writes
    <3>3. \E state \in {"COMPLETE", "ERROR"}, content \in Contents \cup {NoPath} :
            MovesOn(h, state, content) /\ (state # "ERROR" => content # NoPath)
      <4>1. CASE Completes(h)
        <5>1. MovesOn(h, "COMPLETE", ContentPath(h, job[h].save)) /\ job[h].save \in Saves
          BY <2>1, <2>4, <4>1 DEF Completes, CompletedAt, MovesOn, Jobs
        <5>. QED  BY <5>1, ContentPathType
      <4>2. CASE Stops(h)
        <5>1. row' = [row EXCEPT ![h].state = "ERROR"]
          BY <2>4, <4>2 DEF Stops
        <5>2. [row[h] EXCEPT !.state = "ERROR"] = [row[h] EXCEPT !.state = "ERROR", !.content = row[h].content]
          BY <3>2 DEF Rows
        <5>3. MovesOn(h, "ERROR", row[h].content) /\ row[h].content \in Contents \cup {NoPath}
          BY <1>0, <3>2, <5>1, <5>2 DEF MovesOn, Rows
        <5>. QED  BY <5>3
      <4>. QED  BY <1>7, <4>1, <4>2
    <3>4. PICK state \in {"COMPLETE", "ERROR"}, content \in Contents \cup {NoPath} :
            MovesOn(h, state, content) /\ (state # "ERROR" => content # NoPath)
      BY <3>3
    <3>5. /\ row' \in [Releases -> Rows \cup {NoRow}] /\ row'[h] # NoRow
          /\ row'[h].save = row[h].save
          /\ row'[h].content = NoPath => row'[h].state = "ERROR"
          /\ \A g \in Releases \ {h} : row'[g] = row[g]
          /\ Is(h, Pending)' => Is(h, Pending)
      <4>1. state \in States \ {"QUEUED"} /\ state # "LOCAL_QUEUED"
        BY <3>4 DEF States
      <4>. QED  BY <3>2, <3>4, <4>1, MovesOnTyped
    <3>6. Settles(h)
      BY <3>5 DEF Settles
    <3>7. \A g \in Releases \ {h} : Settles(g)
      BY <2>1, <2>2, <3>5, OthersSettle
    <3>. QED  BY <1>0, <2>1, <2>2, <3>5, <3>6, <3>7, StepTyped
  <2>. QED  BY <2>3, <2>4
<1>. QED  BY <1>1, <1>2, <1>3, <1>4, <1>5, <1>6, <1>7 DEF Loops

LEMMA RestartTyped ==
  ASSUME TInv, Restart
  PROVE  TInv'
<1>0. TypeOK /\ row \in [Releases -> Rows \cup {NoRow}] /\ catPath \in [Categories -> Saves \cup {NoPath}]
  BY DEF TInv, TypeOK
<1>1. PICK r \in Roots : root' = r /\ RebaseToRoot(r)
  BY DEF Restart
<1>2. /\ job' = [h \in Releases |-> NoJob] /\ listed' = [h \in Releases |-> NoPath]
      /\ pass' = [h \in Releases |-> NoListing] /\ request' = NoRequest /\ deleting' = NoDelete /\ disk' = disk /\ doomed' = doomed
      /\ recovering' \subseteq Releases
  BY DEF Restart
<1>3. ASSUME NEW h \in Releases
      PROVE  /\ row'[h] \in Rows \cup {NoRow}
             /\ row'[h] # NoRow /\ row'[h].content = NoPath => row'[h].state \in {"QUEUED", "ERROR"}
             /\ Is(h, Pending)' => Within(row[h].save)'
  <2>1. CASE Is(h, Rebased)
    <3> DEFINE new == [row[h] EXCEPT !.save = UnderRoot(r, row[h].category)]
    <3>1. row[h] \in Rows /\ row[h] # NoRow
      BY <1>0, <2>1 DEF Is
    <3>2. row[h].category \in Labels
      BY <3>1 DEF Rows
    <3>3. UnderRoot(r, row[h].category) \in Saves /\ UnderRoot(r, row[h].category)[1] = r
      BY <3>2, RootPaths
    <3>4. /\ new \in Rows /\ new.save[1] = r
          /\ new.content = row[h].content /\ new.state = row[h].state
      BY <3>1, <3>3 DEF Rows
    <3>5. row'[h] = new
      BY <1>1, <2>1 DEF RebaseToRoot
    <3> HIDE DEF new
    <3>. QED  BY <1>0, <1>1, <3>1, <3>4, <3>5 DEF TypeOK, Within
  <2>2. CASE ~Is(h, Rebased)
    <3>1. row'[h] = row[h]
      BY <1>1, <2>2 DEF RebaseToRoot
    <3>2. ~Is(h, Pending)'
      BY <2>2, <3>1 DEF Rebased, Is
    <3>. QED  BY <1>0, <3>1, <3>2 DEF TypeOK
  <2>. QED  BY <2>1, <2>2
<1>4. /\ catPath' \in [Categories -> Saves \cup {NoPath}]
      /\ \A c \in Categories : catPath'[c] # NoPath => Within(catPath[c])'
  <2>1. \A c \in Categories : UnderRoot(r, c) \in Saves /\ UnderRoot(r, c)[1] = r
    BY RootPaths DEF Labels
  <2>2. catPath' = [c \in Categories |-> IF catPath[c] = NoPath THEN NoPath ELSE UnderRoot(r, c)]
    BY <1>1 DEF RebaseToRoot
  <2>. QED  BY <1>1, <2>1, <2>2 DEF Within
<1>5. row' \in [Releases -> Rows \cup {NoRow}]
  <2>1. DOMAIN row' = Releases /\ row' = [h \in Releases |-> row'[h]]
    BY <1>1 DEF RebaseToRoot
  <2>. QED  BY <1>3, <2>1
<1>6. TypeOK'
  BY <1>0, <1>1, <1>2, <1>3, <1>4, <1>5 DEF TypeOK
<1>7. RootsOK'
  BY <1>2, <1>3, <1>4 DEF RootsOK, PendingUnderRoot, Within
<1>. QED  BY <1>6, <1>7 DEF TInv

LEMMA RecoversTyped ==
  ASSUME TInv, NEW h \in Releases, Recovers(h)
  PROVE  TInv'
<1>0. /\ TypeOK /\ row \in [Releases -> Rows \cup {NoRow}]
      /\ UNCHANGED <<root, catPath, job, listed, pass, disk, request, deleting, doomed>>
      /\ recovering' \subseteq Releases
  BY DEF TInv, TypeOK, Recovers
<1>1. CASE row' = row
  <2>1. \A g \in Releases : Settles(g)
    BY <1>0, <1>1, OthersSettle DEF Writes
  <2>. QED  BY <1>0, <1>1, <2>1, StepTyped DEF TypeOK
<1>2. CASE row' # row
  <2>1. row[h] # NoRow /\ row[h] \in Rows /\ MovesOn(h, "COMPLETE", ContentPath(h, row[h].save))
    BY <1>0, <1>2 DEF Recovers, Is, MovesOn
  <2>2. "COMPLETE" \in States \ {"QUEUED"} /\ row[h].save \in Saves
    BY <2>1 DEF States, Rows
  <2>3. ContentPath(h, row[h].save) \in Contents /\ ContentPath(h, row[h].save) # NoPath
    BY <2>2, ContentPathType
  <2>4. /\ row' \in [Releases -> Rows \cup {NoRow}] /\ row'[h] # NoRow
        /\ row'[h].content # NoPath /\ row'[h].save = row[h].save
        /\ \A g \in Releases \ {h} : row'[g] = row[g]
        /\ Is(h, Pending)' => Is(h, Pending)
    BY <2>1, <2>2, <2>3, MovesOnTyped
  <2>5. Settles(h)
    BY <2>4 DEF Settles
  <2>6. \A g \in Releases \ {h} : Settles(g)
    BY <1>0, <2>4, OthersSettle DEF Writes
  <2>. QED  BY <1>0, <2>4, <2>5, <2>6, StepTyped DEF TypeOK
<1>. QED  BY <1>1, <1>2

LEMMA NextTyped ==
  ASSUME TInv, [Next]_vars
  PROVE  TInv'
<1>1. CASE Next
  BY <1>1, RequestTyped, DeleteTyped, LoopsTyped, RestartTyped, RecoversTyped DEF Next
<1>2. CASE UNCHANGED vars
  BY <1>2 DEF vars, TInv, TypeOK, RootsOK, PendingUnderRoot, Is, Within
<1>. QED  BY <1>1, <1>2

(* Every variable has its type: a row that waits for its download, downloads   *)
(* or is done has a content path, and who writes by id finds a row.            *)
THEOREM TypeCorrect == Spec => []TypeOK
<1>1. TInv => TypeOK
  BY DEF TInv
<1>. QED  BY <1>1, InitTInv, NextTyped, PTL DEF Spec

(* What is still to be downloaded goes under the root the process was started  *)
(* with, or where a request has told a category to go.                         *)
THEOREM PendingStaysUnderRoot == Spec => []PendingUnderRoot
<1>1. TInv => PendingUnderRoot
  BY DEF TInv, RootsOK
<1>. QED  BY <1>1, InitTInv, NextTyped, PTL DEF Spec
=============================================================================
