------------------------------ MODULE BytesProofs ------------------------------
(* The two components that count bytes: one call of Download (FileFetch) and   *)
(* the gate in front of the downloads (DiskGate).  What they have in common is *)
(* sums over files and over torrents, so the lemmas about sums come first.     *)
EXTENDS FileFetch, DiskGate, FiniteSetTheorems, TLAPS

-----------------------------------------------------------------------------
(* Sums.  MapThenSumSet is a recursive function on the subsets of a set.  That *)
(* there is such a function, and what it returns, is shown without an induction *)
(* scheme: were there a subset for which a claim fails, there would be a        *)
(* smallest one, as the strict subsets of a finite set are well founded.       *)

(* The element taken first, one step of the recursion, and that g follows it. *)
Pick(s) == CHOOSE x \in s : TRUE
Step(d, g, s) == IF s = {} THEN 0 ELSE d[Pick(s)] + g[s \ {Pick(s)}]
Adds(d, S, g) == g = [s \in SUBSET S |-> Step(d, g, s)]

(* Among some subsets of a finite set there is one that contains no other.    *)
LEMMA SmallestSet ==
  ASSUME NEW S, IsFiniteSet(S), NEW T, T \subseteq SUBSET S, T # {}
  PROVE  \E x \in T : \A y \in T : y \subseteq x => y = x
<1>1. T \subseteq FiniteSubsetsOf(S)
  BY FS_Subset DEF FiniteSubsetsOf
<1>2. IsWellFoundedOn(StrictSubsetOrdering(S), FiniteSubsetsOf(S))
  BY FS_StrictSubsetOrderingWellFounded
<1>3. PICK x \in T : \A y \in T : ~ (<<y, x>> \in StrictSubsetOrdering(S))
  BY <1>1, <1>2, WFMin
<1>4. \A y \in T : y \subseteq x => y = x
  BY <1>3 DEF StrictSubsetOrdering
<1>5. QED
  BY <1>4

(* The sum is what the library's recursive function returns for the whole set. *)
LEMMA SumIsStep ==
  ASSUME NEW S, NEW d
  PROVE  SumOf(d, S) = (CHOOSE g : Adds(d, S, g))[S]
  BY DEF SumOf, MapThenSumSet, MapThenFoldSet, Adds, Step, Pick

(* Without the element taken first, a set is a smaller one.                   *)
LEMMA PickIn == \A s : s # {} => Pick(s) \in s /\ s \ {Pick(s)} # s /\ s \ {Pick(s)} \subseteq s
BY DEF Pick

(* Two functions that follow the recursion agree wherever both are defined.    *)
LEMMA AddsUnique ==
  ASSUME NEW S, IsFiniteSet(S), NEW d, NEW A \in SUBSET S, NEW B \in SUBSET S,
         NEW g, NEW h, Adds(d, A, g), Adds(d, B, h)
  PROVE  \A s \in SUBSET (A \cap B) : g[s] = h[s]
<1> DEFINE T == {s \in SUBSET (A \cap B) : g[s] # h[s]}
<1> SUFFICES ASSUME T # {} PROVE FALSE
  OBVIOUS
<1>0. T \subseteq SUBSET S
  OBVIOUS
<1>1. PICK s \in T : \A t \in T : t \subseteq s => t = s
  <2> HIDE DEF T
  <2> QED  BY <1>0, SmallestSet
<1>2. g[s] = Step(d, g, s) /\ h[s] = Step(d, h, s)
  BY DEF Adds
<1>3. s # {}
  BY <1>2 DEF Step
<1>4. g[s \ {Pick(s)}] = h[s \ {Pick(s)}]
  BY <1>1, <1>3, PickIn
<1> QED
  BY <1>2, <1>4 DEF Step

(* On every finite set there is a function that follows the recursion.         *)
LEMMA AddsExists ==
  ASSUME NEW S, IsFiniteSet(S), NEW d
  PROVE  \A s \in SUBSET S : \E g : Adds(d, s, g)
<1> DEFINE T == {s \in SUBSET S : ~ \E g : Adds(d, s, g)}
<1> SUFFICES ASSUME T # {} PROVE FALSE
  OBVIOUS
<1>0. T \subseteq SUBSET S
  OBVIOUS
<1>1. PICK s \in T : \A t \in T : t \subseteq s => t = s
  <2> HIDE DEF T
  <2> QED  BY <1>0, SmallestSet
<1> DEFINE G(t) == CHOOSE g : Adds(d, t, g)
           h    == [t \in SUBSET s |-> IF t = {} THEN 0
                      ELSE d[Pick(t)] + G(t \ {Pick(t)})[t \ {Pick(t)}]]
<1>2. \A t \in SUBSET s : t # s => Adds(d, t, G(t))
  BY <1>1
<1>3. \A t \in SUBSET s : t # s => h[t] = G(t)[t]
  <2> SUFFICES ASSUME NEW t \in SUBSET s, t # s PROVE h[t] = G(t)[t]
    OBVIOUS
  <2>1. Adds(d, t, G(t))
    BY <1>2
  <2>2. G(t)[t] = Step(d, G(t), t)
    BY <2>1 DEF Adds
  <2>3. CASE t = {}
    BY <2>2, <2>3 DEF Step
  <2>4. CASE t # {}
    <3> DEFINE u == t \ {Pick(t)}
    <3>1. u \in SUBSET s /\ u # s /\ u \subseteq t
      BY <2>4, PickIn
    <3>2. Adds(d, u, G(u))
      BY <1>2, <3>1
    <3>3. G(t)[u] = G(u)[u]
      <4> HIDE DEF u, G, h
      <4> QED
      BY <2>1, <3>1, <3>2, AddsUnique
    <3>4. h[t] = d[Pick(t)] + G(u)[u]
      BY <2>4
    <3> HIDE DEF h, G
    <3> QED
      BY <2>2, <2>4, <3>3, <3>4 DEF Step
  <2> QED  BY <2>3, <2>4
<1>4. \A t \in SUBSET s : h[t] = Step(d, h, t)
  <2> SUFFICES ASSUME NEW t \in SUBSET s PROVE h[t] = Step(d, h, t)
    OBVIOUS
  <2>1. CASE t = {}
    BY <2>1 DEF Step
  <2>2. CASE t # {}
    <3>1. t \ {Pick(t)} \in SUBSET s /\ t \ {Pick(t)} # s
      BY <2>2, PickIn
    <3>2. h[t] = d[Pick(t)] + G(t \ {Pick(t)})[t \ {Pick(t)}]
      BY <2>2
    <3>3. h[t \ {Pick(t)}] = G(t \ {Pick(t)})[t \ {Pick(t)}]
      BY <1>3, <3>1
    <3> HIDE DEF h, G
    <3> QED
      BY <2>2, <3>2, <3>3 DEF Step
  <2> QED  BY <2>1, <2>2
<1>5. h = [t \in SUBSET s |-> h[t]]
  OBVIOUS
<1>6. Adds(d, s, h)
  <2> HIDE DEF h
  <2> QED  BY <1>4, <1>5 DEF Adds
<1> QED
  BY <1>1, <1>6

(* So the sum of a set is one term and the sum of the rest.                    *)
LEMMA SumUnfolds ==
  ASSUME NEW S, IsFiniteSet(S), NEW d
  PROVE  SumOf(d, S) = IF S = {} THEN 0 ELSE d[Pick(S)] + SumOf(d, S \ {Pick(S)})
<1> DEFINE G(s) == CHOOSE g : Adds(d, s, g)
<1>1. Adds(d, S, G(S)) /\ G(S)[S] = Step(d, G(S), S)
  <2>1. Adds(d, S, G(S))
    BY AddsExists
  <2> QED  BY <2>1 DEF Adds
<1>2. SumOf(d, S) = G(S)[S]
  BY SumIsStep
<1>3. CASE S = {}
  BY <1>1, <1>2, <1>3 DEF Step
<1>4. CASE S # {}
  <2> DEFINE u == S \ {Pick(S)}
  <2>1. u \in SUBSET S /\ u = S \cap u
    OBVIOUS
  <2>2. Adds(d, u, G(u))
    BY AddsExists
  <2>3. SumOf(d, u) = G(u)[u]
    BY SumIsStep
  <2>4. G(S)[u] = G(u)[u]
    <3> HIDE DEF G, u
    <3> QED  BY <1>1, <2>1, <2>2, AddsUnique
  <2> QED  BY <1>1, <1>2, <1>4, <2>3, <2>4 DEF Step
<1> QED  BY <1>3, <1>4

(* The sum of natural numbers is one.                                          *)
LEMMA SumType ==
  ASSUME NEW S, IsFiniteSet(S), NEW d, \A x \in S : d[x] \in Nat
  PROVE  \A s \in SUBSET S : SumOf(d, s) \in Nat
<1> DEFINE T == {s \in SUBSET S : SumOf(d, s) \notin Nat}
<1> SUFFICES ASSUME T # {} PROVE FALSE
  OBVIOUS
<1>0. T \subseteq SUBSET S
  OBVIOUS
<1>1. PICK s \in T : \A t \in T : t \subseteq s => t = s
  <2> HIDE DEF T
  <2> QED  BY <1>0, SmallestSet
<1>2. SumOf(d, s) = IF s = {} THEN 0 ELSE d[Pick(s)] + SumOf(d, s \ {Pick(s)})
  BY SumUnfolds, FS_Subset
<1>3. s # {}
  BY <1>2
<1>4. SumOf(d, s \ {Pick(s)}) \in Nat /\ Pick(s) \in S
  BY <1>1, <1>3, PickIn
<1> QED  BY <1>2, <1>3, <1>4

(* The sum depends on the terms of the set only.                               *)
LEMMA SumSame ==
  ASSUME NEW S, IsFiniteSet(S), NEW d, NEW e, \A x \in S : d[x] = e[x]
  PROVE  SumOf(d, S) = SumOf(e, S)
<1> DEFINE T == {s \in SUBSET S : SumOf(d, s) # SumOf(e, s)}
<1> SUFFICES ASSUME T # {} PROVE FALSE
  OBVIOUS
<1>0. T \subseteq SUBSET S
  OBVIOUS
<1>1. PICK s \in T : \A t \in T : t \subseteq s => t = s
  <2> HIDE DEF T
  <2> QED  BY <1>0, SmallestSet
<1>2. /\ SumOf(d, s) = IF s = {} THEN 0 ELSE d[Pick(s)] + SumOf(d, s \ {Pick(s)})
      /\ SumOf(e, s) = IF s = {} THEN 0 ELSE e[Pick(s)] + SumOf(e, s \ {Pick(s)})
  BY SumUnfolds, FS_Subset
<1>3. s # {}
  BY <1>2
<1>4. SumOf(d, s \ {Pick(s)}) = SumOf(e, s \ {Pick(s)}) /\ Pick(s) \in S
  BY <1>1, <1>3, PickIn
<1> QED  BY <1>2, <1>3, <1>4

(* Any term may be taken out, not only the one the recursion takes first.      *)
LEMMA SumSplits ==
  ASSUME NEW S, IsFiniteSet(S), NEW d, \A x \in S : d[x] \in Nat
  PROVE  \A s \in SUBSET S : \A x \in s : SumOf(d, s) = d[x] + SumOf(d, s \ {x})
<1> DEFINE T == {s \in SUBSET S : \E x \in s : SumOf(d, s) # d[x] + SumOf(d, s \ {x})}
<1> SUFFICES ASSUME T # {} PROVE FALSE
  OBVIOUS
<1>0. T \subseteq SUBSET S
  OBVIOUS
<1>1. PICK s \in T : \A t \in T : t \subseteq s => t = s
  <2> HIDE DEF T
  <2> QED  BY <1>0, SmallestSet
<1>2. PICK x \in s : SumOf(d, s) # d[x] + SumOf(d, s \ {x})
  BY <1>1
<1> DEFINE p == Pick(s)
<1>3. p \in s /\ SumOf(d, s) = d[p] + SumOf(d, s \ {p})
  BY SumUnfolds, FS_Subset, PickIn
<1>4. x # p
  BY <1>2, <1>3
<1>5. SumOf(d, s \ {p}) = d[x] + SumOf(d, (s \ {p}) \ {x})
  BY <1>1, <1>3, <1>4
<1>6. SumOf(d, s \ {x}) = d[p] + SumOf(d, (s \ {x}) \ {p})
  BY <1>1, <1>3, <1>4
<1>7. (s \ {x}) \ {p} = (s \ {p}) \ {x}
  OBVIOUS
<1>8. SumOf(d, (s \ {p}) \ {x}) \in Nat /\ d[p] \in Nat /\ d[x] \in Nat
  BY SumType, <1>3
<1> HIDE DEF T, p
<1> QED
  BY <1>2, <1>3, <1>5, <1>6, <1>7, <1>8, Z3

(* When one term changes, the sum changes by as much.                          *)
LEMMA SumUpdate ==
  ASSUME NEW S, IsFiniteSet(S), NEW d, NEW e, \A y \in S : d[y] \in Nat /\ e[y] \in Nat,
         NEW x \in S, \A y \in S \ {x} : e[y] = d[y]
  PROVE  SumOf(e, S) = SumOf(d, S) - d[x] + e[x]
<1>1. SumOf(e, S) = e[x] + SumOf(e, S \ {x}) /\ SumOf(d, S) = d[x] + SumOf(d, S \ {x})
  BY SumSplits
<1>2. SumOf(e, S \ {x}) = SumOf(d, S \ {x})
  BY SumSame, FS_Subset
<1>3. SumOf(d, S \ {x}) \in Nat
  BY SumType
<1> QED  BY <1>1, <1>2, <1>3

(* A sum is at most the sum of two others when each of its terms is.           *)
LEMMA SumBelow ==
  ASSUME NEW S, IsFiniteSet(S), NEW d, NEW e, NEW h,
         \A x \in S : d[x] \in Nat /\ e[x] \in Nat /\ h[x] \in Nat /\ d[x] <= e[x] + h[x]
  PROVE  SumOf(d, S) <= SumOf(e, S) + SumOf(h, S)
<1> DEFINE T == {s \in SUBSET S : ~ (SumOf(d, s) <= SumOf(e, s) + SumOf(h, s))}
<1> SUFFICES ASSUME T # {} PROVE FALSE
  OBVIOUS
<1>0. T \subseteq SUBSET S
  OBVIOUS
<1>1. PICK s \in T : \A t \in T : t \subseteq s => t = s
  <2> HIDE DEF T
  <2> QED  BY <1>0, SmallestSet
<1> DEFINE u == s \ {Pick(s)}
<1>2. /\ SumOf(d, s) = IF s = {} THEN 0 ELSE d[Pick(s)] + SumOf(d, u)
      /\ SumOf(e, s) = IF s = {} THEN 0 ELSE e[Pick(s)] + SumOf(e, u)
      /\ SumOf(h, s) = IF s = {} THEN 0 ELSE h[Pick(s)] + SumOf(h, u)
  BY SumUnfolds, FS_Subset
<1>3. s # {}
  BY <1>2
<1>4. SumOf(d, u) <= SumOf(e, u) + SumOf(h, u) /\ Pick(s) \in S
  BY <1>1, <1>3, PickIn
<1>5. SumOf(d, u) \in Nat /\ SumOf(e, u) \in Nat /\ SumOf(h, u) \in Nat
  BY SumType
<1>6. SumOf(d, s) <= SumOf(e, s) + SumOf(h, s)
  <2> HIDE DEF T, u
  <2> QED  BY <1>2, <1>3, <1>4, <1>5
<1> QED  BY <1>1, <1>6

(* The sum over a part of a set is no larger than that over the set.           *)
LEMMA SumMonotone ==
  ASSUME NEW S, IsFiniteSet(S), NEW d, \A x \in S : d[x] \in Nat, NEW R \in SUBSET S
  PROVE  SumOf(d, R) <= SumOf(d, S)
<1> DEFINE T == {s \in SUBSET S : R \subseteq s /\ ~ (SumOf(d, R) <= SumOf(d, s))}
<1> SUFFICES ASSUME T # {} PROVE FALSE
  OBVIOUS
<1>0. T \subseteq SUBSET S
  OBVIOUS
<1>1. PICK s \in T : \A t \in T : t \subseteq s => t = s
  <2> HIDE DEF T
  <2> QED  BY <1>0, SmallestSet
<1>2. \A t \in SUBSET S : SumOf(d, t) \in Nat
  BY SumType
<1>3. PICK x \in s : x \notin R
  BY <1>1, <1>2
<1>4. SumOf(d, R) <= SumOf(d, s \ {x})
  BY <1>1, <1>3
<1>5. SumOf(d, s) = d[x] + SumOf(d, s \ {x})
  BY SumSplits
<1>6. SumOf(d, R) <= SumOf(d, s)
  <2> HIDE DEF T
  <2>1. d[x] \in Nat /\ SumOf(d, s \ {x}) \in Nat /\ SumOf(d, R) \in Nat
    BY <1>0, <1>2
  <2> QED  BY <1>4, <1>5, <2>1
<1> QED  BY <1>1, <1>6

(* The sum of terms of at most n is at most n times their number.              *)
LEMMA SumBounded ==
  ASSUME NEW S, IsFiniteSet(S), NEW n \in Nat, NEW d \in [S -> 0 .. n]
  PROVE  SumOf(d, S) \in 0 .. Cardinality(S) * n
<1> DEFINE T == {s \in SUBSET S : ~ (SumOf(d, s) <= Cardinality(s) * n)}
<1>a. \A s \in SUBSET S : SumOf(d, s) \in Nat /\ Cardinality(s) \in Nat
  BY SumType, FS_Subset, FS_CardinalityType
<1> SUFFICES ASSUME T # {} PROVE FALSE
  BY <1>a
<1>0. T \subseteq SUBSET S
  OBVIOUS
<1>1. PICK s \in T : \A t \in T : t \subseteq s => t = s
  <2> HIDE DEF T
  <2> QED  BY <1>0, SmallestSet
<1>2. SumOf(d, s) = IF s = {} THEN 0 ELSE d[Pick(s)] + SumOf(d, s \ {Pick(s)})
  BY SumUnfolds, FS_Subset
<1>3. s # {}
  <2> SUFFICES ASSUME s = {} PROVE FALSE
    OBVIOUS
  <2>1. SumOf(d, s) = 0 /\ Cardinality(s) = 0
    BY <1>2, FS_EmptySet
  <2>2. 0 * n = 0
    OBVIOUS
  <2> QED  BY <1>1, <2>1, <2>2
<1>4. SumOf(d, s \ {Pick(s)}) <= Cardinality(s \ {Pick(s)}) * n /\ Pick(s) \in s
  BY <1>1, <1>3, PickIn
<1>5. Cardinality(s) = Cardinality(s \ {Pick(s)}) + 1
  BY <1>a, <1>4, FS_Subset, FS_RemoveElement
<1>6. \A c \in Nat : (c + 1) * n = c * n + n /\ c * n \in Int
  OBVIOUS
<1>7. /\ d[Pick(s)] \in 0 .. n
      /\ SumOf(d, s \ {Pick(s)}) \in Nat /\ Cardinality(s \ {Pick(s)}) \in Nat
  BY <1>a, <1>4
<1>8. SumOf(d, s) = d[Pick(s)] + SumOf(d, s \ {Pick(s)})
  BY <1>2, <1>3
<1>9. Cardinality(s) * n = Cardinality(s \ {Pick(s)}) * n + n
  BY <1>5, <1>6, <1>7
<1>10. Cardinality(s \ {Pick(s)}) * n \in Int
  BY <1>6, <1>7
<1> HIDE DEF T
<1>11. SumOf(d, s) <= Cardinality(s) * n
  BY <1>4, <1>7, <1>8, <1>9, <1>10
<1> QED  BY <1>1, <1>11 DEF T

-----------------------------------------------------------------------------
(* FileFetch.                                                                  *)

(* The types the argument needs; of the counter it needs none. *)
Typed ==
  /\ disk \in [Files -> 0 .. Longest]
  /\ step \in [Files -> Waiting \cup Running \cup Ended]
  /\ start \in [Files -> 0 .. Longest]
  /\ attempt \in [Files -> 0 .. MaxLinkRetries]
  /\ cancelled \in BOOLEAN

(* While an answer is awaited, the file on disk is as long as the GET said, and *)
(* not too long: this is why a 416 may be taken for success without a look.    *)
AsAsked ==
  \A f \in Files : step[f] \in {"answer", "getSilent"}
                     => start[f] = disk[f] /\ ~Oversize(f, disk[f])

(* The inductive invariant. *)
IInv == Typed /\ AsAsked /\ DoneIsWhole

USE FileFetchAssumption

-----------------------------------------------------------------------------
(* A step of one goroutine cannot disturb the invariant for another file. *)
LEMMA OneFile ==
  ASSUME IInv, Typed', NEW f \in Files,
         \A g \in Files \ {f} : /\ disk'[g] = disk[g] /\ step'[g] = step[g]
                                /\ start'[g] = start[g],
         step'[f] \in {"answer", "getSilent"} => start'[f] = disk'[f] /\ ~Oversize(f, disk'[f]),
         step'[f] = "done" /\ Size[f] > 0 => disk'[f] = Size[f]
  PROVE  IInv'
<1>1. AsAsked'
  <2> SUFFICES ASSUME NEW g \in Files, step'[g] \in {"answer", "getSilent"}
               PROVE  start'[g] = disk'[g] /\ ~Oversize(g, disk'[g])
    BY DEF AsAsked, Oversize
  <2>1. CASE g = f
    BY <2>1
  <2>2. CASE g # f
    BY <2>2 DEF IInv, AsAsked, Oversize
  <2> QED  BY <2>1, <2>2
<1>2. DoneIsWhole'
  <2> SUFFICES ASSUME NEW g \in Files, step'[g] = "done", Size[g] > 0
               PROVE  disk'[g] = Size[g]
    BY DEF DoneIsWhole, At
  <2>1. CASE g = f
    BY <2>1
  <2>2. CASE g # f
    BY <2>2 DEF IInv, DoneIsWhole, At
  <2> QED  BY <2>1, <2>2
<1> QED  BY <1>1, <1>2 DEF IInv

(* Another attempt, now or after a backoff, or the end of the file. *)
LEMMA TryAgainType ==
  ASSUME Typed, NEW f \in Files, NEW next \in {"link", "backoff"},
         TryAgain(f, next) \/ Transient(f)
  PROVE  /\ step' \in [Files -> Waiting \cup Running \cup Ended]
         /\ attempt' \in [Files -> 0 .. MaxLinkRetries]
         /\ step'[f] \in {"link", "backoff", "failed"}
         /\ \A g \in Files \ {f} : step'[g] = step[g]
BY DEF TryAgain, Transient, Goes, Typed, Waiting, Running, Ended

LEMMA InitHolds == Init => IInv
<1> SUFFICES ASSUME Init PROVE IInv
  OBVIOUS
<1>1. /\ disk \in [Files -> 0 .. Longest] /\ cancelled \in BOOLEAN
      /\ step = [f \in Files |-> "waiting"]
      /\ start = [f \in Files |-> 0] /\ attempt = [f \in Files |-> 0]
  BY DEF Init
<1>2. Typed
  BY <1>1 DEF Typed, Waiting
<1>3. AsAsked /\ DoneIsWhole
  BY <1>1 DEF AsAsked, DoneIsWhole, At
<1> QED
  BY <1>2, <1>3 DEF IInv

-----------------------------------------------------------------------------
(* Steps that leave the disk alone and neither await an answer after them nor   *)
(* end the file well.                                                          *)
LEMMA QuietStep ==
  ASSUME IInv, NEW f \in Files, DiskStays, cancelled' = cancelled,
         start' \in [Files -> 0 .. Longest],
         \A g \in Files \ {f} : start'[g] = start[g],
         attempt' \in [Files -> 0 .. MaxLinkRetries],
         step' \in [Files -> Waiting \cup Running \cup Ended],
         step'[f] \notin {"answer", "getSilent", "done"},
         \A g \in Files \ {f} : step'[g] = step[g]
  PROVE  IInv'
<1>1. Typed'
  BY DEF IInv, Typed, DiskStays
<1> QED
  BY <1>1, OneFile DEF DiskStays

LEMMA AttemptEnds ==
  ASSUME IInv, NEW f \in Files, DiskStays, UNCHANGED <<start, cancelled>>,
         NEW next \in {"link", "backoff"}, TryAgain(f, next) \/ Transient(f)
  PROVE  IInv'
<1>1. Typed
  BY DEF IInv
<1>2. /\ step' \in [Files -> Waiting \cup Running \cup Ended]
      /\ attempt' \in [Files -> 0 .. MaxLinkRetries]
      /\ step'[f] \in {"link", "backoff", "failed"}
      /\ \A g \in Files \ {f} : step'[g] = step[g]
  BY <1>1, TryAgainType
<1> QED
  BY <1>1, <1>2, QuietStep DEF Typed

(* The file is removed, and another attempt follows. *)
LEMMA DiscardEnds ==
  ASSUME IInv, NEW f \in Files, NEW n, Discard(f, n), UNCHANGED <<start, cancelled>>,
         NEW next \in {"link", "backoff"}, TryAgain(f, next)
  PROVE  IInv'
<1>1. Typed
  BY DEF IInv
<1>2. /\ step' \in [Files -> Waiting \cup Running \cup Ended]
      /\ attempt' \in [Files -> 0 .. MaxLinkRetries]
      /\ step'[f] \in {"link", "backoff", "failed"}
      /\ \A g \in Files \ {f} : step'[g] = step[g]
  BY <1>1, TryAgainType
<1>3. /\ disk' \in [Files -> 0 .. Longest]
      /\ \A g \in Files \ {f} : disk'[g] = disk[g]
  BY <1>1 DEF Typed, Discard
<1> QED
  BY <1>1, <1>2, <1>3, OneFile DEF Typed

-----------------------------------------------------------------------------
LEMMA ProceedsHolds ==
  ASSUME IInv, NEW f \in Files, Proceeds(f) \/ Receives(f)
  PROVE  IInv'
<1> USE DEF Waiting, Running, Ended
<1>0. Typed
  BY DEF IInv
<1>1. CASE Acquires(f)
  <2>1. Typed'
    BY <1>0, <1>1 DEF Typed, Acquires, Goes, DiskStays, Stays
  <2> QED
    BY <1>0, <1>1, <2>1, OneFile DEF Typed, Acquires, Goes, DiskStays, Stays
<1>2. CASE GivesUpWaiting(f)
  BY <1>0, <1>2, QuietStep DEF Typed, GivesUpWaiting, Goes, Stays
<1>3. CASE Links(f)
  <2>1. CASE Transient(f)
    BY <1>3, <2>1, AttemptEnds DEF Links
  <2>2. CASE Goes(f, "get") /\ UNCHANGED attempt
    BY <1>0, <1>3, <2>2, QuietStep DEF Typed, Links, Goes
  <2> QED  BY <1>3, <2>1, <2>2 DEF Links
<1>4. CASE BacksOff(f)
  BY <1>0, <1>4, QuietStep DEF Typed, BacksOff, Goes, Stays
<1>5. CASE Gets(f)
  <2>1. Typed' /\ step'[f] = "answer" /\ start'[f] = disk'[f] /\ ~Oversize(f, disk'[f])
    BY <1>0, <1>5 DEF Typed, Gets, Goes, DiskStays, Stays, Discard, Oversize
  <2>2. \A g \in Files \ {f} : /\ disk'[g] = disk[g] /\ step'[g] = step[g]
                               /\ start'[g] = start[g]
    BY <1>0, <1>5 DEF Typed, Gets, Goes, DiskStays, Discard
  <2> QED  BY <2>1, <2>2, OneFile
<1>6. CASE AnswersAll(f)
  <2>1. Typed' /\ step'[f] = "truncate"
    BY <1>0, <1>6 DEF Typed, AnswersAll, Goes, Stays
  <2> QED
    BY <1>0, <1>6, <2>1, OneFile DEF Typed, AnswersAll, Goes
<1>7. CASE AnswersRest(f)
  BY <1>0, <1>7, QuietStep DEF Typed, AnswersRest, Goes, Stays
<1>8. CASE AnswersNoRest(f)
  <2>1. CASE Size[f] > 0 /\ start[f] >= Size[f]
    <3>1. disk[f] = Size[f]
      BY <1>0, <1>8, <2>1 DEF IInv, AsAsked, AnswersNoRest, At, Oversize, Typed
    <3>2. Typed' /\ disk' = disk /\ start' = start /\ step' = [step EXCEPT ![f] = "done"]
      BY <1>0, <1>8, <2>1 DEF Typed, AnswersNoRest, Goes, DiskStays
    <3> QED
      BY <1>0, <3>1, <3>2, OneFile DEF Typed
  <2>2. CASE ~(Size[f] > 0 /\ start[f] >= Size[f])
    BY <1>8, <2>2, DiscardEnds DEF AnswersNoRest
  <2> QED  BY <2>1, <2>2
<1>9. CASE AnswersNothing(f)
  <2>1. CASE TryAgain(f, "link") \/ TryAgain(f, "backoff")
    BY <1>9, <2>1, AttemptEnds DEF AnswersNothing
  <2>2. CASE Goes(f, "failed") /\ UNCHANGED attempt
    BY <1>0, <1>9, <2>2, QuietStep DEF Typed, AnswersNothing, Goes
  <2> QED  BY <1>9, <2>1, <2>2 DEF AnswersNothing
<1>10. CASE Opens(f)
  <2>1. /\ Typed' /\ step'[f] \in {"body", "failed"}
        /\ \A g \in Files \ {f} : disk'[g] = disk[g] /\ step'[g] = step[g]
    BY <1>0, <1>10 DEF Typed, Opens, Goes, Stays
  <2> QED
    BY <1>10, <2>1, OneFile DEF Opens
<1>11. CASE Receives(f)
  <2>1. /\ Typed' /\ step'[f] = "body"
        /\ \A g \in Files \ {f} : disk'[g] = disk[g] /\ step'[g] = step[g]
    BY <1>0, <1>11 DEF Typed, Receives, Goes, Stays
  <2> QED
    BY <1>11, <2>1, OneFile DEF Receives
<1>12. CASE BodyEnds(f)
  BY <1>0, <1>12, QuietStep DEF Typed, BodyEnds, Goes, Stays
<1>13. CASE BreaksOff(f)
  BY <1>13, AttemptEnds DEF BreaksOff
<1>14. CASE Watchdog(f)
  BY <1>14, AttemptEnds DEF Watchdog
<1>15. CASE Verifies(f)
  <2>1. CASE (Size[f] = 0 \/ disk[f] = Size[f]) /\ Goes(f, "done") /\ DiskStays /\ UNCHANGED attempt
    <3>1. Typed' /\ disk' = disk /\ start' = start /\ step' = [step EXCEPT ![f] = "done"]
      BY <1>0, <1>15, <2>1 DEF Typed, Verifies, Goes, DiskStays
    <3> QED
      BY <1>0, <2>1, <3>1, OneFile DEF Typed
  <2>2. CASE Discard(f, disk[f]) /\ TryAgain(f, "link")
    BY <1>15, <2>2, DiscardEnds DEF Verifies
  <2>3. CASE Goes(f, "failed") /\ DiskStays /\ UNCHANGED attempt
    BY <1>0, <1>15, <2>3, QuietStep DEF Typed, Verifies, Goes
  <2> QED  BY <1>15, <2>1, <2>2, <2>3 DEF Verifies
<1>16. CASE FallsSilent(f)
  <2>1. Typed' /\ disk' = disk /\ start' = start
    BY <1>0, <1>16 DEF Typed, FallsSilent, Goes, DiskStays, Stays
  <2>2. \A g \in Files \ {f} : step'[g] = step[g]
    BY <1>0, <1>16 DEF Typed, FallsSilent, Goes
  <2>3. \/ step[f] = "answer" /\ step'[f] = "getSilent"
        \/ step'[f] = "bodySilent"
    BY <1>0, <1>16 DEF Typed, FallsSilent, Goes, At
  <2> QED
    BY <2>1, <2>2, <2>3, OneFile DEF IInv, AsAsked, Oversize
<1> QED
  BY <1>1, <1>2, <1>3, <1>4, <1>5, <1>6, <1>7, <1>8, <1>9, <1>10, <1>11, <1>12,
     <1>13, <1>14, <1>15, <1>16 DEF Proceeds

LEMMA NextHolds == IInv /\ [Next]_vars => IInv'
<1> SUFFICES ASSUME IInv, [Next]_vars PROVE IInv'
  OBVIOUS
<1>1. CASE \E f \in Files : Proceeds(f) \/ Receives(f)
  BY <1>1, ProceedsHolds
<1>2. CASE Cancel
  BY <1>2 DEF Cancel, IInv, Typed, AsAsked, DoneIsWhole, At, Oversize
<1>3. CASE UNCHANGED vars
  BY <1>3 DEF vars, IInv, Typed, AsAsked, DoneIsWhole, At, Oversize
<1> QED
  BY <1>1, <1>2, <1>3 DEF Next

(* What the counter holds of each file: all of it, nothing of a file that is    *)
(* about to be written anew, and not more than is there of one whose download  *)
(* failed, since a file that cannot be opened for that stays as it is.         *)
Counts(c) ==
  /\ downloaded = SumOf(c, Files)
  /\ \A f \in Files :
       /\ c[f] <= disk[f]
       /\ step[f] = "truncate" => c[f] = 0
       /\ step[f] \notin {"truncate", "failed"} => c[f] = disk[f]

Counted == \E c \in [Files -> Nat] : Counts(c)

LEMMA OneCount ==
  ASSUME Typed', NEW c \in [Files -> Nat], Counts(c), NEW f \in Files, NEW n \in Nat,
         downloaded' = downloaded - c[f] + n,
         \A g \in Files \ {f} : disk'[g] = disk[g] /\ step'[g] = step[g],
         n <= disk'[f], step'[f] = "truncate" => n = 0,
         step'[f] \notin {"truncate", "failed"} => n = disk'[f]
  PROVE  Counted'
<1> DEFINE d == [c EXCEPT ![f] = n]
<1>1. d \in [Files -> Nat] /\ d[f] = n /\ \A g \in Files \ {f} : d[g] = c[g]
  OBVIOUS
<1> HIDE DEF d
<1>2. downloaded' = SumOf(d, Files)
  BY <1>1, SumUpdate DEF Counts
<1>3. \A g \in Files :
        /\ d[g] <= disk'[g]
        /\ step'[g] = "truncate" => d[g] = 0
        /\ step'[g] \notin {"truncate", "failed"} => d[g] = disk'[g]
  BY <1>1 DEF Counts
<1> QED
  BY <1>1, <1>2, <1>3 DEF Counted, Counts

(* Steps that change neither the disk nor the counter. *)
LEMMA CountStays ==
  ASSUME Typed, Typed', Counted, NEW f \in Files, DiskStays,
         step[f] \notin {"truncate", "failed"}, step'[f] # "truncate",
         \A g \in Files \ {f} : step'[g] = step[g]
  PROVE  Counted'
<1>1. PICK c \in [Files -> Nat] : Counts(c)
  BY DEF Counted
<1>2. c[f] = disk[f] /\ downloaded \in Nat
  BY <1>1, SumType DEF Counts
<1> QED
  BY <1>1, <1>2, OneCount DEF DiskStays, Typed

(* Steps that remove the file with the bytes counted of it. *)
LEMMA CountDiscarded ==
  ASSUME Typed, Typed', Counted, NEW f \in Files, Discard(f, disk[f]),
         step[f] \notin {"truncate", "failed"},
         \A g \in Files \ {f} : step'[g] = step[g]
  PROVE  Counted'
<1>1. PICK c \in [Files -> Nat] : Counts(c)
  BY DEF Counted
<1>2. c[f] = disk[f] /\ downloaded \in Nat
  BY <1>1, SumType DEF Counts
<1>3. disk'[f] = 0 /\ \A g \in Files \ {f} : disk'[g] = disk[g]
  BY DEF Discard, Typed
<1>4. downloaded' = downloaded - c[f] + 0
  BY <1>2 DEF Discard, Typed
<1> QED
  BY <1>1, <1>3, <1>4, OneCount

LEMMA InitCounted == Init => Counted
<1> SUFFICES ASSUME Init PROVE Counted
  OBVIOUS
<1>1. disk \in [Files -> Nat] /\ downloaded = SumOf(disk, Files)
  BY DEF Init, OnDisk, SumOf
<1>2. \A f \in Files : step[f] = "waiting"
  BY DEF Init
<1>3. Counts(disk)
  BY <1>1, <1>2 DEF Counts
<1> QED
  BY <1>1, <1>3 DEF Counted

LEMMA ProceedsCounted ==
  ASSUME IInv, IInv', Counted, NEW f \in Files, Proceeds(f) \/ Receives(f)
  PROVE  Counted'
<1>0. Typed /\ Typed'
  BY DEF IInv
<1> DEFINE Others == \A g \in Files \ {f} : step'[g] = step[g]
<1>t. ASSUME TryAgain(f, "link") \/ TryAgain(f, "backoff") \/ Transient(f)
      PROVE  Others /\ step'[f] \in {"link", "backoff", "failed"}
  BY <1>0, <1>t, TryAgainType
<1>g. ASSUME NEW s, Goes(f, s)
      PROVE  Others /\ step'[f] = s
  BY <1>0, <1>g DEF Goes, Typed
<1>1. CASE Acquires(f)
  BY <1>0, <1>1, <1>g, CountStays DEF Acquires, At
<1>2. CASE GivesUpWaiting(f)
  BY <1>0, <1>2, <1>g, CountStays DEF GivesUpWaiting, At
<1>3. CASE Links(f)
  <2>1. Others /\ step'[f] # "truncate"
    BY <1>3, <1>t, <1>g DEF Links
  <2> QED  BY <1>0, <1>3, <2>1, CountStays DEF Links, At
<1>4. CASE BacksOff(f)
  BY <1>0, <1>4, <1>g, CountStays DEF BacksOff, At
<1>5. CASE Gets(f)
  <2>1. Others /\ step'[f] = "answer" /\ step[f] = "get"
    BY <1>5, <1>g DEF Gets, At
  <2>2. CASE Discard(f, disk[f])
    BY <1>0, <2>1, <2>2, CountDiscarded
  <2>3. CASE DiskStays
    BY <1>0, <2>1, <2>3, CountStays
  <2> QED  BY <1>5, <2>2, <2>3 DEF Gets
<1>6. CASE AnswersAll(f)
  <2>1. PICK c \in [Files -> Nat] : Counts(c)
    BY DEF Counted
  <2>2. c[f] = start[f] /\ downloaded \in Nat
    BY <1>6, <2>1, SumType DEF Counts, AnswersAll, At, IInv, AsAsked
  <2>3. downloaded' = downloaded - c[f] + 0 /\ disk' = disk
    BY <1>6, <2>2 DEF AnswersAll
  <2>4. Others /\ step'[f] = "truncate"
    BY <1>6, <1>g DEF AnswersAll
  <2>5. 0 <= disk[f]
    BY <1>0 DEF Typed
  <2> QED  BY <1>0, <2>1, <2>3, <2>4, <2>5, OneCount
<1>7. CASE AnswersRest(f)
  <2>1. PICK c \in [Files -> Nat] : Counts(c)
    BY DEF Counted
  <2>2. c[f] = start[f] /\ c[f] = disk[f] /\ downloaded \in Nat
    BY <1>7, <2>1, SumType DEF Counts, AnswersRest, At, IInv, AsAsked
  <2>3. downloaded' = downloaded - c[f] + c[f] /\ disk' = disk
    BY <1>7, <2>2 DEF AnswersRest, DiskStays
  <2>4. Others /\ step'[f] = IF start[f] > 0 THEN "append" ELSE "truncate"
    BY <1>7, <1>g DEF AnswersRest
  <2>5. step'[f] = "truncate" => c[f] = 0
    BY <1>0, <2>2, <2>4 DEF Typed
  <2>6. c[f] <= disk'[f] /\ (step'[f] \notin {"truncate", "failed"} => c[f] = disk'[f])
    BY <1>0, <2>2, <2>3
  <2> QED  BY <1>0, <2>1, <2>3, <2>4, <2>5, <2>6, OneCount
<1>8. CASE AnswersNoRest(f)
  <2>1. CASE Goes(f, "done") /\ DiskStays
    BY <1>0, <1>8, <2>1, <1>g, CountStays DEF AnswersNoRest, At
  <2>2. CASE Discard(f, start[f]) /\ TryAgain(f, "link")
    <3>1. start[f] = disk[f] /\ step[f] = "answer"
      BY <1>8 DEF AnswersNoRest, At, IInv, AsAsked
    <3>2. Others
      BY <2>2, <1>t
    <3> QED  BY <1>0, <2>2, <3>1, <3>2, CountDiscarded
  <2> QED  BY <1>8, <2>1, <2>2 DEF AnswersNoRest
<1>9. CASE AnswersNothing(f)
  <2>1. Others /\ step'[f] # "truncate"
    BY <1>9, <1>t, <1>g DEF AnswersNothing
  <2> QED  BY <1>0, <1>9, <2>1, CountStays DEF AnswersNothing, At
<1>10. CASE Opens(f)
  <2>1. PICK c \in [Files -> Nat] : Counts(c)
    BY DEF Counted
  <2>2. downloaded \in Nat /\ downloaded' = downloaded - c[f] + c[f]
    BY <1>10, <2>1, SumType DEF Counts, Opens
  <2>3. Others /\ step'[f] \in {"body", "failed"}
    BY <1>10, <1>g DEF Opens
  <2>4. \A g \in Files \ {f} : disk'[g] = disk[g]
    BY <1>0, <1>10 DEF Opens, Typed
  <2>5. c[f] <= disk'[f] /\ (step'[f] = "body" => c[f] = disk'[f])
    <3>1. CASE At(f, "truncate") /\ Goes(f, "body")
      BY <1>0, <1>10, <2>1, <3>1, <1>g DEF Opens, At, Counts, Typed
    <3>2. CASE At(f, "append") /\ Goes(f, "body")
      BY <1>0, <1>10, <2>1, <3>2, <1>g DEF Opens, At, Counts, Typed
    <3>3. CASE Goes(f, "failed") /\ UNCHANGED disk
      BY <1>0, <2>1, <3>3, <1>g DEF Counts, Typed
    <3> QED  BY <1>10, <3>1, <3>2, <3>3 DEF Opens
  <2> QED  BY <1>0, <2>1, <2>2, <2>3, <2>4, <2>5, OneCount
<1>11. CASE Receives(f)
  <2>1. PICK c \in [Files -> Nat] : Counts(c)
    BY DEF Counted
  <2>2. downloaded \in Nat /\ c[f] = disk[f]
    BY <1>11, <2>1, SumType DEF Counts, Receives, At
  <2>3. /\ disk'[f] = c[f] + 1 /\ \A g \in Files \ {f} : disk'[g] = disk[g]
        /\ downloaded' = downloaded - c[f] + (c[f] + 1)
    BY <1>0, <1>11, <2>2 DEF Receives, Typed
  <2>4. Others /\ step'[f] = "body"
    BY <1>11, <1>g DEF Receives
  <2> QED  BY <1>0, <2>1, <2>3, <2>4, OneCount
<1>12. CASE BodyEnds(f)
  <2>1. Others /\ step'[f] # "truncate"
    BY <1>12, <1>g DEF BodyEnds
  <2> QED  BY <1>0, <1>12, <2>1, CountStays DEF BodyEnds, At
<1>13. CASE BreaksOff(f)
  <2>1. Others /\ step'[f] # "truncate"
    BY <1>13, <1>t DEF BreaksOff
  <2> QED  BY <1>0, <1>13, <2>1, CountStays DEF BreaksOff
<1>14. CASE Watchdog(f)
  <2>1. Others /\ step'[f] # "truncate"
    BY <1>14, <1>t DEF Watchdog
  <2> QED  BY <1>0, <1>14, <2>1, CountStays DEF Watchdog, At
<1>15. CASE Verifies(f)
  <2>1. CASE (Goes(f, "done") \/ Goes(f, "failed")) /\ DiskStays
    BY <1>0, <1>15, <2>1, <1>g, CountStays DEF Verifies, At
  <2>2. CASE Discard(f, disk[f]) /\ TryAgain(f, "link")
    BY <1>0, <1>15, <2>2, <1>t, CountDiscarded DEF Verifies, At
  <2> QED  BY <1>15, <2>1, <2>2 DEF Verifies
<1>16. CASE FallsSilent(f)
  <2>1. Others /\ step'[f] # "truncate"
    BY <1>16, <1>g DEF FallsSilent
  <2> QED  BY <1>0, <1>16, <2>1, CountStays DEF FallsSilent, At
<1> QED
  BY <1>1, <1>2, <1>3, <1>4, <1>5, <1>6, <1>7, <1>8, <1>9, <1>10, <1>11, <1>12,
     <1>13, <1>14, <1>15, <1>16 DEF Proceeds

LEMMA NextCounted == IInv /\ IInv' /\ Counted /\ [Next]_vars => Counted'
<1> SUFFICES ASSUME IInv, IInv', Counted, [Next]_vars PROVE Counted'
  OBVIOUS
<1>1. CASE \E f \in Files : Proceeds(f) \/ Receives(f)
  BY <1>1, ProceedsCounted
<1>2. CASE UNCHANGED <<disk, downloaded, step>>
  BY <1>2 DEF Counted, Counts
<1> QED
  BY <1>1, <1>2 DEF Next, Cancel, vars

(* What the properties say of a state in which the files are counted. *)
LEMMA CountedMeans ==
  ASSUME IInv, Counted
  PROVE  /\ downloaded \in 0 .. Cardinality(Files) * Longest
         /\ CountsWhatIsThere
<1>1. PICK c \in [Files -> Nat] : Counts(c)
  BY DEF Counted
<1>2. c \in [Files -> 0 .. Longest] /\ disk \in [Files -> Nat]
  BY <1>1 DEF Counts, IInv, Typed
<1>3. downloaded \in 0 .. Cardinality(Files) * Longest
  BY <1>1, <1>2, SumBounded DEF Counts
<1>4. downloaded <= OnDisk
  <2> DEFINE none == [f \in Files |-> 0]
  <2>1. SumOf(c, Files) <= SumOf(disk, Files) + SumOf(none, Files)
    BY <1>1, <1>2, SumBelow DEF Counts
  <2>2. SumOf(none, Files) \in 0 .. Cardinality(Files) * 0 /\ Cardinality(Files) \in Nat
    BY SumBounded, FS_CardinalityType
  <2>3. SumOf(none, Files) = 0
    BY <2>2
  <2>4. SumOf(disk, Files) \in Nat
    BY <1>2, SumType
  <2> HIDE DEF none
  <2> QED  BY <1>1, <2>1, <2>3, <2>4 DEF Counts, OnDisk, SumOf
<1>5. ASSUME \A f \in Files : At(f, "done")
      PROVE  downloaded = OnDisk
  <2>1. \A f \in Files : c[f] = disk[f]
    BY <1>1, <1>5 DEF Counts, At
  <2>2. OnDisk = SumOf(disk, Files)
    BY DEF OnDisk, SumOf
  <2> QED  BY <1>1, <2>1, <2>2, SumSame DEF Counts
<1> QED
  BY <1>3, <1>4, <1>5 DEF CountsWhatIsThere

(* Whatever the CDN sends, and however often it is asked again, a file whose   *)
(* download ended without an error has the size TorBox said it has             *)
(* (downloader.go, Download).                                                  *)
THEOREM FilesAreWhole == Spec => []DoneIsWhole
<1>1. IInv => DoneIsWhole
  BY DEF IInv
<1> QED
  BY InitHolds, NextHolds, <1>1, PTL DEF Spec

(* Every variable of a download keeps its type: in particular the counter       *)
(* never turns negative, though it is counted down by discards and rewrites    *)
(* (downloader.go, downloadOnce and discard).                                  *)
THEOREM TypeCorrect == Spec => []TypeOK
<1>1. IInv /\ Counted => TypeOK
  BY CountedMeans DEF IInv, Typed, TypeOK
<1> QED
  BY InitHolds, NextHolds, InitCounted, NextCounted, <1>1, PTL DEF Spec

(* The counter never shows more than is on disk, and exactly that in the end,  *)
(* for any number of files and whatever way their attempts took                *)
(* (downloader.go, discard).                                                   *)
THEOREM ProgressIsTrue == Spec => []CountsWhatIsThere
<1>1. IInv /\ Counted => CountsWhatIsThere
  BY CountedMeans
<1> QED
  BY InitHolds, NextHolds, InitCounted, NextCounted, <1>1, PTL DEF Spec
-----------------------------------------------------------------------------
(* DiskGate.                                                                   *)

(* What a running download has left to write is claimed, or was discarded and  *)
(* not reported yet.                                                           *)
Claimed == \A t \in running : Left(t) <= outstanding[t] + unseen[t]

(* What the pass has read of the torrent it looks at still covers it, and the  *)
(* free space it has read is there but for what was written since.             *)
Reading ==
  /\ at # "idle" => cur \in Torrents \ running /\ Left(cur) <= remaining
  /\ at = "measured" => free <= FreeBlocks + since

(* The inductive invariant. *)
GateInv == DGTypeOK /\ Claimed /\ Reading /\ RunningFits

USE DiskGateAssumption

LEMMA LeftType ==
  ASSUME DGTypeOK
  PROVE  /\ \A t \in Torrents : Left(t) \in Nat
         /\ [t \in Torrents |-> Left(t)] \in [Torrents -> Nat]
<1>1. \A t \in Torrents : Left(t) \in Nat
  BY DEF DGTypeOK, Left
<1> QED  BY <1>1

LEMMA FreeType ==
  ASSUME DGTypeOK
  PROVE  /\ SumOf(staged, Torrents) \in Nat /\ SumOf(placed, Torrents) \in Nat
         /\ FreeBlocks \in Nat
<1>1. SumOf(staged, Torrents) \in Nat /\ SumOf(placed, Torrents) \in Nat
  BY SumType DEF DGTypeOK
<1>2. FreeBlocks \in Int /\ FreeBlocks >= 0
  BY <1>1 DEF DGTypeOK, FreeBlocks
<1> QED  BY <1>1, <1>2

(* Steps that move no content: what is left and what is free stay. *)
LEMMA SpaceStays ==
  ASSUME UNCHANGED <<phase, diskVars, foreign>>
  PROVE  /\ \A t : Left(t)' = Left(t)
         /\ [t \in Torrents |-> Left(t)'] = [t \in Torrents |-> Left(t)]
         /\ FreeBlocks' = FreeBlocks
         /\ running' = running => LeftOf(running)' = LeftOf(running)
BY DEF Left, FreeBlocks, LeftOf, diskVars

LEMMA GateInitHolds == DGInit => GateInv
<1> SUFFICES ASSUME DGInit PROVE GateInv
  OBVIOUS
<1>1. SumOf(staged, Torrents) = 0 /\ placed = staged
  <2>1. staged \in [Torrents -> 0 .. 0] /\ 0 \in Nat /\ placed = staged
    BY DEF DGInit, None
  <2>2. SumOf(staged, Torrents) \in 0 .. Cardinality(Torrents) * 0
    BY <2>1, SumBounded
  <2> QED  BY <2>1, <2>2, FS_CardinalityType
<1>2. FreeBlocks = Capacity
  BY <1>1 DEF DGInit, FreeBlocks
<1>3. DGTypeOK
  BY <1>2 DEF DGInit, DGTypeOK, None
<1>4. LeftOf(running) = 0
  BY SumUnfolds, FS_EmptySet DEF DGInit, LeftOf
<1> QED
  BY <1>3, <1>4 DEF DGInit, GateInv, Claimed, Reading, RunningFits

(* The invariant after a step of the pass that starts nothing. *)
LEMMA PassMoves ==
  ASSUME GateInv, Frame, UNCHANGED <<running, outstanding, slip>>, DGTypeOK', Reading'
  PROVE  GateInv'
<1>1. /\ \A t : Left(t)' = Left(t) /\ FreeBlocks' = FreeBlocks
      /\ LeftOf(running)' = LeftOf(running)
  BY SpaceStays DEF Frame
<1>2. Claimed'
  BY <1>1 DEF GateInv, Claimed, Frame
<1>3. RunningFits'
  BY <1>1 DEF GateInv, RunningFits, Unchecked
<1> QED  BY <1>2, <1>3 DEF GateInv

LEMMA ReadsRemainingHolds ==
  ASSUME GateInv, NEW t \in Torrents, ReadsRemaining(t)
  PROVE  GateInv'
<1>1. Left(t)' = Left(t) /\ FreeBlocks' = FreeBlocks
  BY SpaceStays DEF ReadsRemaining, Frame
<1>3. Left(t) <= remaining' /\ remaining' \in Nat
  BY LeftType DEF GateInv, ReadsRemaining
<1>2. DGTypeOK'
  BY <1>1, <1>3 DEF GateInv, DGTypeOK, ReadsRemaining, Frame, diskVars, Unchecked
<1>4. Reading'
  BY <1>1, <1>3 DEF Reading, ReadsRemaining
<1> QED  BY <1>2, <1>4, PassMoves DEF ReadsRemaining

LEMMA ReadsFreeHolds == GateInv /\ ReadsFree => GateInv'
<1> SUFFICES ASSUME GateInv, ReadsFree PROVE GateInv'
  OBVIOUS
<1>1. \A t : Left(t)' = Left(t) /\ FreeBlocks' = FreeBlocks /\ FreeBlocks \in Nat
  BY SpaceStays, FreeType DEF ReadsFree, Frame, GateInv
<1>2. DGTypeOK'
  BY <1>1 DEF GateInv, DGTypeOK, ReadsFree, Frame, diskVars, Unchecked
<1>3. Reading'
  BY <1>1 DEF GateInv, Reading, ReadsFree
<1> QED  BY <1>2, <1>3, PassMoves DEF ReadsFree

LEMMA ListsHolds == GateInv /\ Lists => GateInv'
<1> SUFFICES ASSUME GateInv, Lists PROVE GateInv'
  OBVIOUS
<1>1. FreeBlocks' = FreeBlocks /\ \A t : Left(t)' = Left(t)
  BY SpaceStays DEF Lists, Frame
<1>2. DGTypeOK' /\ Reading'
  BY <1>1 DEF GateInv, DGTypeOK, Reading, Lists, gateVars, Frame, diskVars, Unchecked
<1> QED  BY <1>2, PassMoves DEF Lists

LEMMA WaitsHolds == GateInv /\ Waits => GateInv'
<1> SUFFICES ASSUME GateInv, Waits PROVE GateInv'
  OBVIOUS
<1>1. FreeBlocks' = FreeBlocks
  BY SpaceStays DEF Waits, Frame
<1>2. DGTypeOK'
  BY <1>1 DEF GateInv, DGTypeOK, Waits, NextRow, Frame, diskVars, Unchecked
<1>3. Reading'
  BY DEF Reading, Waits, NextRow
<1> QED  BY <1>2, <1>3, PassMoves DEF Waits

(* A start, however it was allowed, keeps the types and the claims. *)
LEMMA StartsKeeps ==
  ASSUME GateInv, at # "idle", Starts, slip' \in Nat \cup {Unchecked}
  PROVE  /\ DGTypeOK' /\ Claimed' /\ Reading'
         /\ cur \in Torrents /\ running \subseteq Torrents
         /\ IsFiniteSet(running) /\ FreeBlocks' = FreeBlocks
         /\ LeftOf(running)' = Left(cur) + LeftOf(running \ {cur})
<1>1. /\ \A t : Left(t)' = Left(t) /\ FreeBlocks' = FreeBlocks
      /\ [t \in Torrents |-> Left(t)'] = [t \in Torrents |-> Left(t)]
  BY SpaceStays DEF Starts, Frame
<1>2. cur \in Torrents /\ Left(cur) <= remaining /\ remaining \in Nat
  BY DEF GateInv, Reading, DGTypeOK
<1>3. running \subseteq Torrents /\ IsFiniteSet(running)
  BY FS_Subset DEF GateInv, DGTypeOK
<1>4. DGTypeOK'
  BY <1>1, <1>2 DEF GateInv, DGTypeOK, Starts, NextRow, Frame, diskVars, Unchecked
<1>5. Claimed'
  <2> SUFFICES ASSUME NEW t \in running' PROVE Left(t) <= outstanding'[t] + unseen[t]
    BY <1>1 DEF Claimed, Starts, Frame
  <2>1. CASE t = cur
    BY <1>2, <2>1 DEF GateInv, DGTypeOK, Starts, Left
  <2>2. CASE t # cur
    BY <1>3, <2>2 DEF GateInv, DGTypeOK, Starts, Claimed
  <2> QED  BY <2>1, <2>2
<1>6. Reading'
  BY DEF Reading, Starts, NextRow
<1>7. LeftOf(running)' = Left(cur) + LeftOf(running \ {cur})
  <2> DEFINE h == [t \in Torrents |-> Left(t)]
  <2>1. h[cur] = Left(cur) /\ \A t \in Torrents : h[t] \in Nat
    BY <1>2, LeftType DEF GateInv
  <2>2. running' \in SUBSET Torrents /\ cur \in running' /\ running' \ {cur} = running \ {cur}
    BY <1>2, <1>3 DEF Starts
  <2>3. LeftOf(running)' = SumOf(h, running') /\ LeftOf(running \ {cur}) = SumOf(h, running \ {cur})
    BY <1>1 DEF LeftOf
  <2> HIDE DEF h
  <2>4. SumOf(h, running') = h[cur] + SumOf(h, running' \ {cur})
    BY <2>1, <2>2, SumSplits
  <2> QED  BY <2>1, <2>2, <2>3, <2>4
<1> QED
  BY <1>1, <1>2, <1>3, <1>4, <1>5, <1>6, <1>7

(* A start the gate allows fits: what the others have left is claimed but for  *)
(* what they discarded, and what was free still is but for what was written.   *)
LEMMA StartsMeasuredHolds == GateInv /\ StartsMeasured => GateInv'
<1> SUFFICES ASSUME GateInv, StartsMeasured PROVE GateInv'
  OBVIOUS
<1> DEFINE others == running \ {cur}
           h == [t \in Torrents |-> Left(t)]
<1>1. others \in SUBSET (Torrents \ {cur}) /\ IsFiniteSet(Torrents \ {cur})
      /\ IsFiniteSet(others) /\ others \in SUBSET Torrents
  BY FS_Subset DEF GateInv, DGTypeOK
<1>2. \A t \in Torrents : h[t] \in Nat /\ outstanding[t] \in Nat /\ unseen[t] \in Nat
  BY LeftType DEF GateInv, DGTypeOK
<1>3. SumOf(unseen, others) \in Nat /\ SumOf(h, others) \in Nat
      /\ SumOf(outstanding, others) \in Nat /\ SumOf(outstanding, Torrents \ {cur}) \in Nat
  <2> HIDE DEF others, h
  <2> QED  BY <1>1, <1>2, SumType
<1>4. slip' = since + SumOf(unseen, others) /\ since \in Nat /\ slip' \in Nat
  BY <1>3 DEF StartsMeasured, GateInv, DGTypeOK
<1>5. /\ DGTypeOK' /\ Claimed' /\ Reading' /\ FreeBlocks' = FreeBlocks /\ cur \in Torrents
      /\ LeftOf(running)' = Left(cur) + LeftOf(others)
  BY <1>4, StartsKeeps DEF StartsMeasured
<1>6. SumOf(h, others) <= SumOf(outstanding, others) + SumOf(unseen, others)
  <2>1. \A t \in others : h[t] <= outstanding[t] + unseen[t]
    BY <1>1 DEF GateInv, Claimed
  <2> HIDE DEF others, h
  <2> QED  BY <1>1, <1>2, <2>1, SumBelow
<1>7. SumOf(outstanding, others) <= SumOf(outstanding, Torrents \ {cur})
  <2> HIDE DEF others
  <2> QED  BY <1>1, <1>2, SumMonotone
<1>8. /\ free >= remaining + SumOf(outstanding, Torrents \ {cur}) + MinFreeSpace
      /\ free <= FreeBlocks + since /\ Left(cur) <= remaining
  BY DEF StartsMeasured, Needs, GateInv, Reading
<1>9. /\ free \in Nat /\ remaining \in Nat /\ FreeBlocks \in Nat /\ MinFreeSpace \in Nat
      /\ Left(cur) \in Nat
  BY <1>5, FreeType, LeftType DEF GateInv, DGTypeOK
<1>10. LeftOf(others) = SumOf(h, others)
  BY DEF LeftOf
<1> HIDE DEF others, h
<1>11. LeftOf(running)' + MinFreeSpace <= FreeBlocks' + slip'
  BY <1>3, <1>4, <1>5, <1>6, <1>7, <1>8, <1>9, <1>10
<1> QED
  BY <1>5, <1>11 DEF GateInv, RunningFits

LEMMA StartsWrittenHolds == GateInv /\ StartsWritten => GateInv'
<1> SUFFICES ASSUME GateInv, StartsWritten PROVE GateInv'
  OBVIOUS
<1>1. /\ DGTypeOK' /\ Claimed' /\ Reading' /\ FreeBlocks' = FreeBlocks /\ cur \in Torrents
      /\ LeftOf(running)' = Left(cur) + LeftOf(running \ {cur})
      /\ running \subseteq Torrents /\ IsFiniteSet(running)
  BY StartsKeeps DEF StartsWritten, GateInv, DGTypeOK
<1>2. Left(cur) = 0
  BY <1>1, LeftType DEF StartsWritten, GateInv, Reading
<1>3. LeftOf(running \ {cur}) <= LeftOf(running)
      /\ LeftOf(running \ {cur}) \in Nat /\ LeftOf(running) \in Nat
  <2> DEFINE h == [t \in Torrents |-> Left(t)]
  <2>1. \A t \in running : h[t] \in Nat
    BY <1>1, LeftType DEF GateInv
  <2> HIDE DEF h
  <2>2. /\ SumOf(h, running \ {cur}) <= SumOf(h, running)
        /\ SumOf(h, running \ {cur}) \in Nat /\ SumOf(h, running) \in Nat
    BY <1>1, <2>1, SumMonotone, SumType
  <2> QED  BY <2>2 DEF LeftOf, h
<1>4. FreeBlocks \in Nat /\ (slip # Unchecked => slip \in Nat) /\ MinFreeSpace \in Nat
  BY FreeType DEF GateInv, DGTypeOK
<1>5. RunningFits'
  BY <1>1, <1>2, <1>3, <1>4 DEF GateInv, RunningFits, StartsWritten, Unchecked
<1> QED
  BY <1>1, <1>5 DEF GateInv

LEMMA StartsUnmeasuredHolds == GateInv /\ StartsUnmeasured => GateInv'
<1> SUFFICES ASSUME GateInv, StartsUnmeasured PROVE GateInv'
  OBVIOUS
<1>1. DGTypeOK' /\ Claimed' /\ Reading'
  BY StartsKeeps DEF StartsUnmeasured
<1> QED
  BY <1>1 DEF GateInv, RunningFits, StartsUnmeasured, Unchecked

Held(t) == staged[t] + placed[t]

(* A step that changes the content or the phase of one torrent. *)
LEMMA OneTorrent ==
  ASSUME DGTypeOK, NEW t \in Torrents, foreign' = foreign,
         staged' \in [Torrents -> Nat], \A u \in Torrents : staged'[u] <= SizeOf[u],
         placed' \in [Torrents -> Nat],
         \A u \in Torrents \ {t} : /\ staged'[u] = staged[u] /\ placed'[u] = placed[u]
                                   /\ phase'[u] = phase[u]
  PROVE  /\ FreeBlocks' = FreeBlocks + Held(t) - Held(t)'
         /\ \A u \in Torrents \ {t} : Left(u)' = Left(u)
         /\ Left(t)' \in Nat
         /\ running' = running /\ t \in running
              => LeftOf(running)' = LeftOf(running) - Left(t) + Left(t)'
         /\ running' = running /\ t \notin running => LeftOf(running)' = LeftOf(running)
         /\ LeftOf(running) \in Nat /\ (t \in running => Left(t) <= LeftOf(running))
<1>1. /\ SumOf(staged', Torrents) = SumOf(staged, Torrents) - staged[t] + staged'[t]
      /\ SumOf(placed', Torrents) = SumOf(placed, Torrents) - placed[t] + placed'[t]
  <2>1. IsFiniteSet(Torrents) /\ \A u \in Torrents : /\ staged[u] \in Nat /\ staged'[u] \in Nat
                                                    /\ placed[u] \in Nat /\ placed'[u] \in Nat
    BY DEF DGTypeOK
  <2>2. SumOf(staged', Torrents) = SumOf(staged, Torrents) - staged[t] + staged'[t]
    BY <2>1, SumUpdate
  <2>3. SumOf(placed', Torrents) = SumOf(placed, Torrents) - placed[t] + placed'[t]
    BY <2>1, SumUpdate
  <2> QED  BY <2>2, <2>3
<1>2. SumOf(staged, Torrents) \in Nat /\ SumOf(placed, Torrents) \in Nat
  BY FreeType
<1>3. FreeBlocks' = FreeBlocks + Held(t) - Held(t)'
  BY <1>1, <1>2 DEF FreeBlocks, DGTypeOK, Held
<1>4. \A u \in Torrents \ {t} : Left(u)' = Left(u)
  BY DEF Left
<1>5. \A u \in Torrents : Left(u) \in Nat /\ Left(u)' \in Nat
  BY LeftType DEF Left
<1> DEFINE h == [u \in Torrents |-> Left(u)]
           k == [u \in Torrents |-> Left(u)']
<1>6. /\ \A u \in Torrents : h[u] = Left(u) /\ k[u] = Left(u)' /\ h[u] \in Nat /\ k[u] \in Nat
      /\ LeftOf(running) = SumOf(h, running)
      /\ running' = running => LeftOf(running)' = SumOf(k, running)
  BY <1>5 DEF LeftOf
<1>7. running \in SUBSET Torrents /\ IsFiniteSet(running)
  BY FS_Subset DEF DGTypeOK
<1> HIDE DEF h, k
<1>8. t \in running => SumOf(k, running) = SumOf(h, running) - h[t] + k[t]
  BY <1>4, <1>6, <1>7, SumUpdate
<1>9. t \notin running => SumOf(k, running) = SumOf(h, running)
  BY <1>4, <1>6, <1>7, SumSame
<1>10. SumOf(h, running) \in Nat /\ (t \in running => h[t] <= SumOf(h, running))
  <2>1. SumOf(h, running) \in Nat /\ SumOf(h, running \ {t}) \in Nat
    BY <1>6, <1>7, SumType
  <2>2. t \in running => SumOf(h, running) = h[t] + SumOf(h, running \ {t})
    BY <1>6, <1>7, SumSplits
  <2> QED  BY <1>6, <2>1, <2>2
<1> QED
  BY <1>3, <1>4, <1>5, <1>6, <1>8, <1>9, <1>10

(* Steps of a download, and deletes: what is on disk and left to write does not *)
(* grow together, what is left grows by what is not reported, and only a       *)
(* download writes, which is noticed while the free space has been read.       *)
LEMMA ContentMoves ==
  ASSUME GateInv, DGTypeOK', NEW t \in Torrents, WorldFrame,
         UNCHANGED <<running, foreign, outstanding, slip>>,
         \A u \in Torrents \ {t} :
            /\ staged'[u] = staged[u] /\ placed'[u] = placed[u] /\ phase'[u] = phase[u]
            /\ unseen'[u] = unseen[u],
         Left(t)' + Held(t)' <= Left(t) + Held(t),
         Left(t)' + unseen[t] <= Left(t) + unseen'[t],
         Left(t) = 0 => Left(t)' = 0,
         t \notin running => Left(t)' <= Left(t) /\ Held(t)' <= Held(t),
         at = "measured" => Held(t)' + since <= Held(t) + since'
  PROVE  GateInv'
<1> DEFINE a == Left(t)
           b == Left(t)'
           m == Held(t)
           n == Held(t)'
<1>1. /\ FreeBlocks' = FreeBlocks + m - n
      /\ \A u \in Torrents \ {t} : Left(u)' = Left(u)
      /\ b \in Nat
      /\ t \in running => LeftOf(running)' = LeftOf(running) - a + b
      /\ t \notin running => LeftOf(running)' = LeftOf(running)
      /\ LeftOf(running) \in Nat
      /\ t \in running => a <= LeftOf(running)
  BY OneTorrent DEF GateInv, DGTypeOK
<1>2. /\ a \in Nat /\ m \in Nat /\ n \in Nat /\ FreeBlocks \in Nat
      /\ unseen[t] \in Nat /\ unseen'[t] \in Nat /\ outstanding[t] \in Nat
      /\ since \in Nat /\ since' \in Nat /\ free \in Nat /\ remaining \in Nat
      /\ running \subseteq Torrents
  BY LeftType, FreeType DEF GateInv, DGTypeOK, Held
<1>3. Claimed'
  <2> SUFFICES ASSUME NEW u \in running PROVE Left(u)' <= outstanding[u] + unseen'[u]
    BY DEF Claimed
  <2>0. Left(u) <= outstanding[u] + unseen[u] /\ u \in Torrents
    BY <1>2 DEF GateInv, Claimed
  <2>1. CASE u # t
    BY <1>1, <2>0, <2>1
  <2>2. CASE u = t
    <3>1. a <= outstanding[t] + unseen[t] /\ b + unseen[t] <= a + unseen'[t]
      BY <2>0, <2>2
    <3> HIDE DEF a, b
    <3>2. b <= outstanding[t] + unseen'[t]
      BY <1>1, <1>2, <3>1
    <3> QED  BY <2>2, <3>2 DEF b
  <2> QED  BY <2>1, <2>2
<1>4. Reading'
  <2>0. UNCHANGED <<at, cur, remaining, free>>
    BY DEF WorldFrame, gateVars
  <2>1. ASSUME at # "idle" PROVE cur' \in Torrents \ running /\ Left(cur)' <= remaining
    <3>1. cur \in Torrents \ running /\ Left(cur) <= remaining
      BY <2>1 DEF GateInv, Reading
    <3>2. CASE cur = t
      <4>1. b <= a /\ a <= remaining
        BY <3>1, <3>2
      <4> HIDE DEF a, b
      <4>2. b <= remaining
        BY <1>1, <1>2, <4>1
      <4> QED  BY <2>0, <3>1, <3>2, <4>2 DEF b, Left
    <3>3. CASE cur # t
      BY <1>1, <2>0, <3>1, <3>3 DEF Left
    <3> QED  BY <3>2, <3>3
  <2>2. ASSUME at = "measured" PROVE free <= FreeBlocks' + since'
    <3> DEFINE s == since'
    <3>1. free <= FreeBlocks + since
      BY <2>2 DEF GateInv, Reading
    <3>2. n + since <= m + s /\ s \in Nat
      BY <1>2, <2>2
    <3> HIDE DEF m, n, s
    <3>3. free <= FreeBlocks' + s
      BY <1>1, <1>2, <3>1, <3>2
    <3> QED  BY <3>3, Zenon DEF s
  <2> QED  BY <2>0, <2>1, <2>2 DEF Reading
<1>5. RunningFits'
  <2> SUFFICES ASSUME slip # Unchecked, LeftOf(running)' > 0
               PROVE  LeftOf(running)' + MinFreeSpace <= FreeBlocks' + slip
    BY DEF RunningFits, Unchecked
  <2>1. slip \in Nat /\ MinFreeSpace \in Nat
    BY DEF GateInv, DGTypeOK
  <2>2. LeftOf(running) > 0 => LeftOf(running) + MinFreeSpace <= FreeBlocks + slip
    BY DEF GateInv, RunningFits
  <2>3. b + n <= a + m /\ (a = 0 => b = 0) /\ (t \notin running => n <= m)
    OBVIOUS
  <2> HIDE DEF a, b, m, n
  <2>4. CASE t \in running
    BY <1>1, <1>2, <2>1, <2>2, <2>3, <2>4
  <2>5. CASE t \notin running
    BY <1>1, <1>2, <2>1, <2>2, <2>3, <2>5
  <2> QED  BY <2>4, <2>5
<1> QED  BY <1>3, <1>4, <1>5 DEF GateInv

LEMMA WritesHolds ==
  ASSUME GateInv, NEW t \in Torrents, Writes(t)
  PROVE  GateInv'
<1>1. /\ phase[t] # "gone" /\ staged[t] < SizeOf[t] /\ FreeBlocks > 0
      /\ staged' \in [Torrents -> Nat] /\ staged'[t] = staged[t] + 1
      /\ \A u \in Torrents : staged'[u] <= SizeOf[u]
      /\ \A u \in Torrents \ {t} : staged'[u] = staged[u]
      /\ t \in running /\ phase' = phase /\ foreign' = foreign /\ placed' = placed
  BY DEF GateInv, DGTypeOK, Writes, Left
<1>2. FreeBlocks' = FreeBlocks + Held(t) - Held(t)'
  BY <1>1, OneTorrent DEF GateInv, DGTypeOK
<1>3. FreeBlocks \in Nat /\ staged[t] \in Nat /\ placed[t] \in Nat
  BY FreeType DEF GateInv, DGTypeOK
<1>4. DGTypeOK'
  BY <1>1, <1>2, <1>3 DEF GateInv, DGTypeOK, Held, Writes, WorldFrame, gateVars, Unchecked
<1>5. Left(t)' = Left(t) - 1 /\ Left(t) > 0 /\ Left(t) \in Nat
  BY <1>1 DEF Left, GateInv, DGTypeOK
<1>6. at = "measured" => Held(t)' + since <= Held(t) + since'
  BY <1>1 DEF Writes, Measuring, GateInv, DGTypeOK, Held
<1>7. unseen' = unseen /\ unseen[t] \in Nat /\ UNCHANGED <<outstanding, slip, running>> /\ WorldFrame
  BY DEF Writes, GateInv, DGTypeOK
<1>8. /\ Left(t)' + Held(t)' <= Left(t) + Held(t)
      /\ Left(t)' + unseen[t] <= Left(t) + unseen'[t]
      /\ Left(t) # 0
  BY <1>1, <1>3, <1>5, <1>7 DEF Held
<1> QED
  BY <1>1, <1>4, <1>6, <1>7, <1>8, ContentMoves

LEMMA DiscardsHolds ==
  ASSUME GateInv, NEW t \in Torrents, Discards(t)
  PROVE  GateInv'
<1>0. PICK n \in 1 .. staged[t] : /\ staged' = [staged EXCEPT ![t] = @ - n]
                                  /\ unseen' = [unseen EXCEPT ![t] = @ + n]
  BY DEF Discards
<1>1. /\ phase[t] # "gone" /\ n \in Nat
      /\ staged' \in [Torrents -> Nat] /\ staged'[t] = staged[t] - n
      /\ \A u \in Torrents : staged'[u] <= SizeOf[u]
      /\ \A u \in Torrents \ {t} : staged'[u] = staged[u] /\ unseen'[u] = unseen[u]
      /\ unseen' \in [Torrents -> Nat] /\ unseen'[t] = unseen[t] + n
      /\ t \in running /\ phase' = phase /\ foreign' = foreign /\ placed' = placed
  BY <1>0 DEF GateInv, DGTypeOK, Discards, Left
<1>2. FreeBlocks' = FreeBlocks + Held(t) - Held(t)'
  BY <1>1, OneTorrent DEF GateInv, DGTypeOK
<1>3. FreeBlocks \in Nat /\ staged[t] \in Nat /\ placed[t] \in Nat /\ unseen[t] \in Nat /\ since \in Nat
  BY FreeType DEF GateInv, DGTypeOK
<1>4. DGTypeOK'
  BY <1>1, <1>2, <1>3 DEF GateInv, DGTypeOK, Held, Discards, WorldFrame, gateVars, Unchecked
<1>5. Left(t)' = Left(t) + n /\ Left(t) > 0 /\ Left(t) \in Nat
  BY <1>1 DEF Left, GateInv, DGTypeOK, Discards
<1>6. UNCHANGED <<since, outstanding, slip, running>> /\ WorldFrame
  BY DEF Discards
<1>7. /\ Left(t)' + Held(t)' <= Left(t) + Held(t)
      /\ Left(t)' + unseen[t] <= Left(t) + unseen'[t]
      /\ Left(t) # 0
      /\ at = "measured" => Held(t)' + since <= Held(t) + since'
  BY <1>1, <1>3, <1>5, <1>6 DEF Held
<1> QED
  BY <1>1, <1>4, <1>6, <1>7, ContentMoves

LEMMA DeletesHolds ==
  ASSUME GateInv, NEW t \in Torrents, Deletes(t)
  PROVE  GateInv'
<1>1. /\ staged' \in [Torrents -> Nat] /\ staged'[t] = 0 /\ phase'[t] = "gone"
      /\ placed' \in [Torrents -> Nat] /\ placed'[t] = 0
      /\ \A u \in Torrents \ {t} : placed'[u] = placed[u]
      /\ stale' \subseteq Torrents
      /\ \A u \in Torrents : staged'[u] <= SizeOf[u]
      /\ \A u \in Torrents \ {t} : staged'[u] = staged[u] /\ phase'[u] = phase[u]
      /\ UNCHANGED <<foreign, unseen, since, outstanding, slip, running>> /\ WorldFrame
  BY DEF GateInv, DGTypeOK, Deletes, LeavesLocal
<1>2. FreeBlocks' = FreeBlocks + Held(t) - Held(t)'
  BY <1>1, OneTorrent DEF GateInv, DGTypeOK
<1>3. FreeBlocks \in Nat /\ staged[t] \in Nat /\ placed[t] \in Nat /\ unseen[t] \in Nat /\ since \in Nat
  BY FreeType DEF GateInv, DGTypeOK
<1>4. DGTypeOK'
  BY <1>1, <1>2, <1>3 DEF GateInv, DGTypeOK, Held, Deletes, WorldFrame, gateVars, Unchecked
<1>5. Left(t)' = 0 /\ Left(t) \in Nat
  BY <1>1, LeftType DEF Left, GateInv
<1>6. /\ Left(t)' + Held(t)' <= Left(t) + Held(t)
      /\ Left(t)' + unseen[t] <= Left(t) + unseen'[t]
      /\ Left(t)' <= Left(t) /\ Held(t)' <= Held(t)
      /\ at = "measured" => Held(t)' + since <= Held(t) + since'
  BY <1>1, <1>3, <1>5 DEF Held
<1> QED
  BY <1>1, <1>4, <1>5, <1>6, ContentMoves

LEMMA ReportsHolds ==
  ASSUME GateInv, NEW t \in Torrents, Reports(t)
  PROVE  GateInv'
<1>1. /\ \A u : Left(u)' = Left(u) /\ FreeBlocks' = FreeBlocks
      /\ LeftOf(running)' = LeftOf(running)
  BY SpaceStays DEF Reports
<1>2. /\ outstanding' \in [Torrents -> Nat] /\ unseen' \in [Torrents -> Nat]
      /\ outstanding'[t] = Left(t) /\ unseen'[t] = 0
      /\ \A u \in Torrents \ {t} : outstanding'[u] = outstanding[u] /\ unseen'[u] = unseen[u]
      /\ t \in running /\ running' = running /\ running \subseteq Torrents
  BY LeftType DEF GateInv, DGTypeOK, Reports
<1>3. DGTypeOK'
  BY <1>1, <1>2 DEF GateInv, DGTypeOK, Reports, WorldFrame, gateVars, diskVars, Unchecked
<1>4. Claimed'
  <2> SUFFICES ASSUME NEW u \in running PROVE Left(u) <= outstanding'[u] + unseen'[u]
    BY <1>1, <1>2 DEF Claimed
  <2>1. CASE u = t
    BY <1>2, <2>1, LeftType DEF GateInv
  <2>2. CASE u # t
    BY <1>2, <2>2 DEF GateInv, Claimed
  <2> QED  BY <2>1, <2>2
<1>5. Reading' /\ RunningFits'
  BY <1>1 DEF GateInv, Reading, RunningFits, Reports, WorldFrame, gateVars, Unchecked
<1> QED  BY <1>3, <1>4, <1>5 DEF GateInv

LEMMA EndsHolds ==
  ASSUME GateInv, NEW t \in Torrents, Ends(t)
  PROVE  GateInv'
<1>1. /\ phase' \in [Torrents -> {"local", "placed", "failed", "gone"}]
      /\ \A u \in Torrents \ {t} : phase'[u] = phase[u]
      /\ \/ staged' = staged /\ placed' = placed
         \/ /\ staged' = [staged EXCEPT ![t] = 0]
            /\ placed' = [placed EXCEPT ![t] = staged[t]]
      /\ foreign' = foreign /\ WorldFrame
      /\ stale' \subseteq Torrents
      /\ UNCHANGED <<since, slip>>
  BY DEF GateInv, DGTypeOK, Ends, Outcome, LeavesLocal, diskVars
<1>1a. /\ staged' \in [Torrents -> Nat] /\ \A u \in Torrents : staged'[u] <= SizeOf[u]
       /\ placed' \in [Torrents -> Nat]
       /\ \A u \in Torrents \ {t} : staged'[u] = staged[u] /\ placed'[u] = placed[u]
       /\ Held(t)' <= Held(t) /\ Held(t) \in Nat /\ Held(t)' \in Nat
  BY <1>1 DEF GateInv, DGTypeOK, Held
<1>2. /\ outstanding' \in [Torrents -> Nat] /\ unseen' \in [Torrents -> Nat]
      /\ outstanding'[t] = 0 /\ running' = running \ {t} /\ running \subseteq Torrents
      /\ \A u \in Torrents \ {t} : outstanding'[u] = outstanding[u] /\ unseen'[u] = unseen[u]
  BY DEF GateInv, DGTypeOK, Ends, Deregisters
<1>3. FreeBlocks' >= FreeBlocks /\ FreeBlocks \in Nat /\ FreeBlocks' \in Nat
  <2>1. FreeBlocks' = FreeBlocks + Held(t) - Held(t)' /\ FreeBlocks \in Nat
    BY <1>1, <1>1a, OneTorrent, FreeType DEF GateInv
  <2> QED  BY <1>1a, <2>1
<1>3a. \A u \in Torrents \ {t} : Left(u)' = Left(u)
  BY <1>1, <1>1a DEF Left
<1>4. DGTypeOK'
  BY <1>1, <1>1a, <1>2, <1>3 DEF GateInv, DGTypeOK, WorldFrame, gateVars, Unchecked
<1>5. Claimed'
  BY <1>2, <1>3a DEF GateInv, Claimed
<1>7. Reading'
  <2>1. UNCHANGED <<at, cur, remaining, free>>
    BY <1>1 DEF WorldFrame, gateVars
  <2>2. ASSUME at # "idle" PROVE cur' \in Torrents \ running' /\ Left(cur)' <= remaining
    <3>1. cur \in Torrents \ running /\ Left(cur) <= remaining
      BY <2>2 DEF GateInv, Reading
    <3>2. cur # t
      BY <3>1 DEF Ends
    <3> QED  BY <1>2, <1>3a, <2>1, <3>1, <3>2 DEF Left
  <2>3. ASSUME at = "measured" PROVE free <= FreeBlocks' + since
    <3>1. free <= FreeBlocks + since /\ free \in Nat /\ since \in Nat
      BY <2>3 DEF GateInv, Reading, DGTypeOK
    <3> DEFINE a == FreeBlocks
               b == FreeBlocks'
    <3>2. free <= a + since /\ b >= a /\ a \in Nat /\ b \in Nat
      BY <1>3, <3>1
    <3> HIDE DEF a, b
    <3>3. free <= b + since
      BY <3>1, <3>2
    <3> QED  BY <3>3 DEF b
  <2> QED  BY <1>1, <2>1, <2>2, <2>3 DEF Reading
<1>8. LeftOf(running)' \in Nat /\ LeftOf(running) \in Nat /\ LeftOf(running)' <= LeftOf(running)
  <2> DEFINE h == [u \in Torrents |-> Left(u)]
             k == [u \in Torrents |-> Left(u)']
  <2>1. /\ \A u \in Torrents : h[u] \in Nat
        /\ \A u \in running' : k[u] = h[u] /\ h[u] \in Nat
        /\ LeftOf(running) = SumOf(h, running) /\ LeftOf(running)' = SumOf(k, running')
    BY <1>2, <1>3a, LeftType DEF LeftOf, GateInv
  <2>2. running \in SUBSET Torrents /\ running' \in SUBSET running
        /\ IsFiniteSet(running) /\ IsFiniteSet(running')
    BY <1>2, FS_Subset
  <2> HIDE DEF h, k
  <2>3. SumOf(k, running') = SumOf(h, running')
    BY <2>1, <2>2, SumSame
  <2>4. SumOf(h, running') <= SumOf(h, running)
    BY <1>2, <2>1, <2>2, SumMonotone
  <2>5. SumOf(h, running') \in Nat /\ SumOf(h, running) \in Nat
    BY <1>2, <2>1, <2>2, SumType
  <2> QED  BY <2>1, <2>3, <2>4, <2>5
<1>9. RunningFits'
  <2>1. MinFreeSpace \in Nat /\ (slip # Unchecked => slip \in Nat)
    BY DEF GateInv, DGTypeOK
  <2> QED  BY <1>1, <1>3, <1>8, <2>1 DEF GateInv, RunningFits, Unchecked
<1> QED  BY <1>4, <1>5, <1>7, <1>9 DEF GateInv

(* Other programs take and give back blocks. *)
LEMMA OthersHold == GateInv /\ (OtherWrites \/ OtherFrees) => GateInv'
<1> SUFFICES ASSUME GateInv, OtherWrites \/ OtherFrees PROVE GateInv'
  OBVIOUS
<1> DEFINE s == since'
           p == slip'
           g == FreeBlocks'
<1>1. /\ UNCHANGED <<phase, stale, staged, placed, running, outstanding, unseen>>
      /\ UNCHANGED <<at, cur, remaining, free>>
      /\ foreign \in Nat /\ foreign' \in Nat /\ FreeBlocks \in Nat /\ since \in Nat
      /\ SumOf(staged, Torrents) \in Nat /\ SumOf(placed, Torrents) \in Nat
  BY FreeType DEF OtherWrites, OtherFrees, WorldFrame, gateVars, diskVars, GateInv, DGTypeOK
<1>2. /\ \A u : Left(u)' = Left(u)
      /\ LeftOf(running)' = LeftOf(running)
  BY <1>1 DEF Left, LeftOf
<1>3. g = Capacity - SumOf(staged, Torrents) - SumOf(placed, Torrents) - foreign'
  BY <1>1 DEF FreeBlocks
<1>4. \/ /\ FreeBlocks > 0 /\ g = FreeBlocks - 1
         /\ at = "measured" => s = since + 1
         /\ s \in Nat
         /\ slip # Unchecked => p = slip + 1
         /\ slip = Unchecked => p = Unchecked
      \/ g = FreeBlocks + 1 /\ s = since /\ p = slip
  <2>1. CASE OtherWrites
    <3>1. /\ FreeBlocks > 0 /\ foreign' = foreign + 1
          /\ s = IF at = "measured" THEN since + 1 ELSE since
          /\ p = IF slip = Unchecked THEN slip ELSE slip + 1
      BY <2>1 DEF OtherWrites, Measuring
    <3>2. g = FreeBlocks - 1
      BY <1>1, <1>3, <3>1 DEF FreeBlocks
    <3> QED  BY <1>1, <3>1, <3>2
  <2>2. CASE OtherFrees
    <3>1. foreign' = foreign - 1 /\ s = since /\ p = slip
      BY <2>2 DEF OtherFrees
    <3>2. g = FreeBlocks + 1
      BY <1>1, <1>3, <3>1 DEF FreeBlocks
    <3> QED  BY <3>1, <3>2
  <2> QED  BY <2>1, <2>2
<1> HIDE DEF s, p, g
<1>5. slip \in Nat \cup {Unchecked} /\ free \in Nat /\ MinFreeSpace \in Nat
  BY DEF GateInv, DGTypeOK
<1>6. g \in Nat /\ s \in Nat /\ p \in Nat \cup {Unchecked}
  BY <1>1, <1>4, <1>5 DEF Unchecked
<1>7. DGTypeOK'
  BY <1>1, <1>6 DEF GateInv, DGTypeOK, g, s, p
<1>8. Claimed'
  BY <1>1, <1>2 DEF GateInv, Claimed
<1>9. ASSUME at = "measured" PROVE free <= g + s
  <2>1. free <= FreeBlocks + since
    BY <1>9 DEF GateInv, Reading
  <2> QED  BY <1>1, <1>4, <1>5, <1>6, <1>9, <2>1
<1>10. Reading'
  BY <1>1, <1>2, <1>9, Zenon DEF GateInv, Reading, Left, g, s
<1>11. ASSUME p # Unchecked, LeftOf(running) > 0
       PROVE  LeftOf(running) + MinFreeSpace <= g + p
  <2>1. slip \in Nat /\ LeftOf(running) + MinFreeSpace <= FreeBlocks + slip
    BY <1>4, <1>5, <1>11 DEF GateInv, RunningFits
  <2>2. LeftOf(running) \in Nat
    <3>1. running \in SUBSET Torrents
      BY DEF GateInv, DGTypeOK
    <3> QED  BY <3>1, LeftType, SumType DEF LeftOf, GateInv
  <2>3. p \in Nat
    BY <1>6, <1>11
  <2> QED
    BY <1>1, <1>4, <1>5, <1>6, <2>1, <2>2, <2>3 DEF Unchecked
<1>12. RunningFits'
  BY <1>2, <1>11, Zenon DEF RunningFits, Unchecked, g, p
<1> QED  BY <1>7, <1>8, <1>10, <1>12 DEF GateInv

LEMMA GateCrashHolds == GateInv /\ Crash => GateInv'
<1> SUFFICES ASSUME GateInv, Crash PROVE GateInv'
  OBVIOUS
<1>1. FreeBlocks' = FreeBlocks
  BY SpaceStays DEF Crash
<1>2. DGTypeOK'
  BY <1>1 DEF GateInv, DGTypeOK, Crash, NextRow, None, diskVars, Unchecked
<1>3. LeftOf(running)' = 0
  BY SumUnfolds, FS_EmptySet DEF Crash, LeftOf
<1> QED
  BY <1>2, <1>3 DEF GateInv, Claimed, Reading, RunningFits, Crash, NextRow

LEMMA GateNextHolds == GateInv /\ [DGNext]_dgVars => GateInv'
<1> SUFFICES ASSUME GateInv, [DGNext]_dgVars PROVE GateInv'
  OBVIOUS
<1>1. CASE Gate
  BY <1>1, ListsHolds, ReadsFreeHolds, StartsMeasuredHolds, StartsWrittenHolds, StartsUnmeasuredHolds,
     WaitsHolds, ReadsRemainingHolds DEF Gate
<1>2. CASE OtherWrites \/ OtherFrees
  BY <1>2, OthersHold
<1>3. CASE Crash
  BY <1>3, GateCrashHolds
<1>4. CASE \E t \in Torrents : Download(t) \/ Discards(t) \/ Reports(t) \/ Deletes(t)
  BY <1>4, WritesHolds, EndsHolds, DiscardsHolds, ReportsHolds, DeletesHolds DEF Download
<1>5. CASE UNCHANGED dgVars
  <2>1. /\ UNCHANGED <<phase, diskVars, running, outstanding, at, cur, remaining, free>>
        /\ UNCHANGED <<stale, staged, placed, foreign, faults, since, unseen, slip>>
    BY <1>5 DEF dgVars, gateVars, diskVars
  <2>2. /\ \A t : Left(t)' = Left(t) /\ FreeBlocks' = FreeBlocks
        /\ LeftOf(running)' = LeftOf(running)
    BY <2>1, SpaceStays
  <2> QED
    BY <2>1, <2>2 DEF GateInv, DGTypeOK, Claimed, Reading, RunningFits, Left
<1> QED
  BY <1>1, <1>2, <1>3, <1>4, <1>5 DEF DGNext

(* Every variable of the gate keeps its type, for any torrents and any disk:    *)
(* only a running download has a claim, and the disk is never overdrawn        *)
(* (download.go, maybeStartDownload).                                          *)
THEOREM GateTypeCorrect == DGSpec => []DGTypeOK
<1>1. GateInv => DGTypeOK
  BY DEF GateInv
<1> QED
  BY GateInitHolds, GateNextHolds, <1>1, PTL DEF DGSpec

(* What the running downloads have left to write fits on the disk with the      *)
(* reserve, for any torrents, sizes and number of downloads, although the      *)
(* readings it is decided on are taken one after the other while they write    *)
(* (download.go, diskSpaceFor).                                                *)
THEOREM RunningAlwaysFits == DGSpec => []RunningFits
<1>1. GateInv => RunningFits
  BY DEF GateInv
<1> QED
  BY GateInitHolds, GateNextHolds, <1>1, PTL DEF DGSpec
=============================================================================
