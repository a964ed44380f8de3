-------------------------------- MODULE ArrPush --------------------------------
(* One failed torrent told to Sonarr and Radarr: arrPass of internal/engine    *)
(* (reconcile.go) with its bookkeeping of attempts, and NotifyFailed of        *)
(* internal/arr with its loop over instances and queue records.  Every call to *)
(* an instance is a step, and the instances, the torrent and the clock move    *)
(* between them.  Times are kept as ages, up to where they make no difference. *)
EXTENDS Naturals

CONSTANTS N,               \* instances, in the order they are configured
          Records,         \* ids of the queue records of the torrent
          Reliable,        \* instances that answer again and again
          Interval, Grace, \* arrNotifyInterval and arrNotFoundGrace, in ticks
          Refresh,         \* ticks until an instance lists what it grabbed
          MaxFailures,     \* bound: times the torrent fails
          MaxCrashes       \* bound: restarts of the process

Instances == 1 .. N

ASSUME ArrPushAssumption ==
  /\ N \in Nat \ {0}
  /\ Reliable \subseteq Instances
  /\ {Interval, Grace, Refresh, MaxFailures, MaxCrashes} \subseteq Nat
  /\ Interval <= Grace /\ Refresh < Grace

VARIABLES state,       \* of the row; "gone" is no row
          notified,    \* arr_notified
          attempt,     \* arrAttempts: the ages of the first and last attempt, or NoAttempt
          at,          \* where the pass is
          pos,         \* the instance being asked
          todo,        \* its records still to be removed
          handled,     \* whether a record of it was removed
          erred,       \* whether an instance could not be asked, or not finished
          late         \* whether the attempt began after the grace

rowVars  == <<state, notified>>
passVars == <<at, pos, todo, handled, erred, late>>

(* The instances: what they list, what they have grabbed and do not list yet,  *)
(* and whether the torrents/delete that follows a removal is still to come.    *)
VARIABLES listed, coming, deleting
VARIABLES failedAge, failures, crashes
(* For the properties: the row was re-queued since its first attempt. *)
VARIABLE overtaken

arrVars   == <<listed, coming, deleting>>
countVars == <<failures, crashes>>
pushVars == <<rowVars, attempt, passVars, arrVars, failedAge, countVars, overtaken>>

Ages      == 0 .. Grace
NoAttempt == [first |-> Grace + 1, last |-> Grace + 1]
Older(age) == IF age < Grace THEN age + 1 ELSE age

PushTypeOK ==
  /\ state \in {"TRIED", "ERROR", "gone"} /\ notified \in BOOLEAN
  /\ state = "gone" => ~notified
  /\ attempt \in [first : Ages, last : Ages] \cup {NoAttempt}
  /\ attempt.last <= attempt.first
  /\ at \in {"idle", "fetch", "remove", "mark"}
  /\ pos \in Instances /\ todo \subseteq Records
  /\ handled \in BOOLEAN /\ erred \in BOOLEAN /\ late \in BOOLEAN
  /\ deleting \in BOOLEAN /\ overtaken \in BOOLEAN
  /\ listed \in [Instances -> SUBSET Records] /\ coming \in [Instances -> SUBSET Records]
  /\ failedAge \in Ages
  /\ failures \in 0 .. MaxFailures /\ crashes \in 0 .. MaxCrashes

Nowhere == [i \in Instances |-> {}]

PushInit ==
  /\ state = "TRIED" /\ notified = FALSE
  /\ attempt = NoAttempt
  /\ at = "idle" /\ pos = 1 /\ todo = {} /\ handled = FALSE /\ erred = FALSE /\ late = FALSE
  /\ listed = Nowhere /\ coming = Nowhere /\ deleting = FALSE
  /\ failedAge = 0 /\ failures = 0 /\ crashes = 0
  /\ overtaken = FALSE

-----------------------------------------------------------------------------
(* arrPass.                                                                    *)

Pending == state = "ERROR" /\ ~notified
Tried   == attempt # NoAttempt

Idle == /\ at' = "idle" /\ pos' = 1 /\ todo' = {}
        /\ handled' = FALSE /\ erred' = FALSE /\ late' = FALSE

Frame == UNCHANGED <<rowVars, arrVars, failedAge, countVars>>

(* pruneArrAttempts: the torrent is not waiting to be pushed any more. *)
Forgets ==
  /\ at = "idle" /\ ~Pending /\ Tried
  /\ attempt' = NoAttempt /\ overtaken' = FALSE
  /\ UNCHANGED passVars /\ Frame

(* The grace counts from the last attempt. *)
AttemptsAfresh ==
  /\ at = "idle" /\ Pending
  /\ ~Tried \/ attempt.last >= Interval
  /\ attempt' = [first |-> 0, last |-> 0]
  /\ late' = (0 >= Grace)
  /\ at' = "fetch"
  /\ UNCHANGED <<pos, todo, handled, erred, overtaken>> /\ Frame

Attempts ==
  /\ at = "idle" /\ Pending
  /\ ~Tried \/ attempt.last >= Interval
  /\ attempt' = [first |-> IF Tried THEN attempt.first ELSE 0, last |-> 0]
  /\ late' = (attempt'.first >= Grace)
  /\ at' = "fetch"
  /\ UNCHANGED <<pos, todo, handled, erred, overtaken>> /\ Frame

(* Marks a row that is gone. *)
MarksAnyway ==
  /\ at = "mark"
  /\ notified' = TRUE
  /\ attempt' = NoAttempt /\ overtaken' = FALSE
  /\ Idle
  /\ UNCHANGED <<state, arrVars, failedAge, countVars>>

(* MarkArrNotified, for the id, whatever the row is by now; the bookkeeping    *)
(* goes also when the UPDATE fails.                                            *)
MarksNotified ==
  /\ at = "mark"
  /\ \/ state # "gone" /\ notified' = TRUE
     \/ UNCHANGED notified
  /\ attempt' = NoAttempt /\ overtaken' = FALSE
  /\ Idle
  /\ UNCHANGED <<state, arrVars, failedAge, countVars>>

-----------------------------------------------------------------------------
(* NotifyFailed: one instance after the other, until one has handled it.       *)

(* Every instance was asked: without an error and after the grace the torrent  *)
(* is given up, otherwise it waits for the next attempt.                       *)
Asked(failed) ==
  IF ~failed /\ late THEN at' = "mark" /\ UNCHANGED <<pos, todo, handled, erred, late>>
                     ELSE Idle

(* An error is an answer. *)
NextInstanceAnyway(failed) ==
  IF pos + 1 \in Instances
    THEN at' = "fetch" /\ pos' = pos + 1 /\ todo' = {} /\ handled' = FALSE
           /\ UNCHANGED <<erred, late>>
    ELSE Asked(FALSE)

(* One instance that cannot be asked ends the attempt. *)
NextInstanceUnlessFailed(failed) ==
  IF pos + 1 \in Instances /\ ~failed
    THEN at' = "fetch" /\ pos' = pos + 1 /\ todo' = {} /\ handled' = FALSE
           /\ erred' = failed /\ UNCHANGED late
    ELSE Asked(failed)

NextInstance(failed) ==
  IF pos + 1 \in Instances
    THEN at' = "fetch" /\ pos' = pos + 1 /\ todo' = {} /\ handled' = FALSE
           /\ erred' = failed /\ UNCHANGED late
    ELSE Asked(failed)

(* fetchQueue. *)
FetchFails ==
  /\ at = "fetch"
  /\ NextInstance(TRUE)
  /\ UNCHANGED <<attempt, overtaken>> /\ Frame

Fetches ==
  /\ at = "fetch"
  /\ IF listed[pos] = {}
       THEN NextInstance(erred)
       ELSE at' = "remove" /\ todo' = listed[pos] /\ UNCHANGED <<pos, handled, erred, late>>
  /\ UNCHANGED <<attempt, overtaken>> /\ Frame

(* removeQueueItem.  A 404, for a record that is gone, is a success; an error  *)
(* ends this instance, whatever it has removed already.                        *)
Removed(r) == listed' = [listed EXCEPT ![pos] = @ \ {r}]

Removes(r) ==
  /\ at = "remove" /\ r \in todo
  /\ Removed(r)
  /\ deleting' = (deleting \/ r \in listed[pos])
  /\ todo' = todo \ {r} /\ handled' = TRUE
  /\ at' = IF todo' = {} THEN "mark" ELSE "remove"
  /\ UNCHANGED <<pos, erred, late>>
  /\ UNCHANGED <<attempt, overtaken, rowVars, coming, failedAge, countVars>>

RemoveFails(r) ==
  /\ at = "remove" /\ r \in todo
  /\ \/ UNCHANGED <<listed, deleting>>
     \/ Removed(r) /\ deleting' = (deleting \/ r \in listed[pos])
  /\ NextInstance(TRUE)
  /\ UNCHANGED <<attempt, overtaken, rowVars, coming, failedAge, countVars>>

Push ==
  \/ Forgets \/ Attempts \/ MarksNotified \/ FetchFails \/ Fetches
  \/ \E r \in todo : Removes(r) \/ RemoveFails(r)

-----------------------------------------------------------------------------
(* The torrent: it fails, after a grab of at most one instance; it is added    *)
(* again; the instance that removed its record deletes it.                     *)

OutsideThePass == UNCHANGED <<attempt, passVars, crashes>>

FailsFor(i, records) ==
  /\ state = "TRIED" /\ failures < MaxFailures
  /\ state' = "ERROR" /\ failedAge' = 0 /\ failures' = failures + 1
  /\ coming' = [coming EXCEPT ![i] = records \ listed[i]]
  /\ OutsideThePass /\ UNCHANGED <<notified, listed, deleting, overtaken>>

AddedAgain ==
  /\ state = "ERROR" /\ failures < MaxFailures
  /\ state' = "TRIED" /\ notified' = FALSE
  /\ overtaken' = Tried
  /\ OutsideThePass /\ UNCHANGED <<arrVars, failedAge, failures>>

Deleted ==
  /\ deleting /\ state # "gone"
  /\ state' = "gone" /\ notified' = FALSE /\ deleting' = FALSE
  /\ OutsideThePass /\ UNCHANGED <<listed, coming, failedAge, failures, overtaken>>

(* An instance lists what it has grabbed, Refresh after the failure at the     *)
(* latest; a user may take a record out of its queue.                          *)
Lists(i) ==
  /\ coming[i] # {}
  /\ listed' = [listed EXCEPT ![i] = @ \cup coming[i]]
  /\ coming' = [coming EXCEPT ![i] = {}]
  /\ OutsideThePass /\ UNCHANGED <<rowVars, deleting, failedAge, failures, overtaken>>

UserRemoves(i) ==
  /\ \E r \in listed[i] : listed' = [listed EXCEPT ![i] = @ \ {r}]
  /\ OutsideThePass /\ UNCHANGED <<rowVars, coming, deleting, failedAge, failures, overtaken>>

TimePasses ==
  /\ coming # Nowhere => failedAge < Refresh
  /\ failedAge' = Older(failedAge)
  /\ attempt' = IF Tried THEN [first |-> Older(attempt.first), last |-> Older(attempt.last)]
                         ELSE attempt
  /\ <<failedAge, attempt>>' # <<failedAge, attempt>>
  /\ UNCHANGED <<rowVars, passVars, arrVars, countVars, overtaken>>

Crash ==
  /\ crashes < MaxCrashes /\ crashes' = crashes + 1
  /\ attempt' = NoAttempt /\ overtaken' = FALSE
  /\ Idle
  /\ UNCHANGED <<rowVars, arrVars, failedAge, failures>>

World ==
  \/ AddedAgain \/ Deleted \/ TimePasses \/ Crash
  \/ \E i \in Instances : \/ \E records \in SUBSET (Records \ todo) : FailsFor(i, records)
                          \/ Lists(i) \/ UserRemoves(i)

PushNext == Push \/ World

PushSpec == PushInit /\ [][PushNext]_pushVars

(* The loop runs again and again and time goes on.  Of the instances only the  *)
(* reliable ones answer, again and again; the store does not fail forever.     *)
PushFairSpec ==
  /\ PushSpec
  /\ WF_pushVars(Push) /\ WF_pushVars(TimePasses)
  /\ SF_pushVars(MarksNotified /\ notified')
  /\ \A i \in Instances : WF_pushVars(Lists(i))
  /\ \A i \in Reliable : /\ SF_pushVars(pos = i /\ Fetches)
                         /\ \A r \in Records : SF_pushVars(pos = i /\ Removes(r))

-----------------------------------------------------------------------------
(* A failure is given up only when no instance has it in its queue or will     *)
(* have: an instance that could not be asked, or had not yet listed the grab,  *)
(* is asked again (arr.go, NotifyFailed; reconcile.go, arrPass).  Not claimed  *)
(* of a torrent that was re-queued since the first attempt.                    *)
GivenUpIsUntracked ==
  [][at # "mark" /\ at' = "mark" /\ ~handled' /\ ~overtaken
       => listed = Nowhere /\ coming = Nowhere]_pushVars

(* A failure an instance has in its queue is settled, or its row goes on, also *)
(* when every other instance never answers (arr.go, NotifyFailed).             *)
TrackedIsSettled ==
  \A i \in Reliable : Pending /\ listed[i] # {} ~> ~Pending \/ listed[i] = {}

(* A failure nobody has is not asked for forever, or it would never be pruned: *)
(* when the instances answer after the grace it is given up (reconcile.go,     *)
(* arrPass and prunePass).                                                     *)
UntrackedIsGivenUp ==
  <>[][~(late /\ FetchFails)]_pushVars
    => (Pending /\ listed = Nowhere /\ coming = Nowhere ~> ~Pending)
=============================================================================
