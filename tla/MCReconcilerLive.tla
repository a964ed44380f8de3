--------------------------- MODULE MCReconcilerLive ---------------------------
(* The reconciler with a note of the rows that were queued again between the   *)
(* listing of their failure and its mark.                                      *)
EXTENDS Reconciler

VARIABLE overtaken

(* A failure that arrPass has listed and not settled or put off yet. *)
BeingPushed(id) ==
  \/ at = "arr" /\ \E t \in todo : t.id = id
  \/ at = "arrMark" /\ cur.id = id

Overtaken(id) ==
  BeingPushed(id) /\ rows[id].state = "ERROR" /\ rows'[id].state \notin {"ERROR", "NONE"}

LiveInit == Init /\ overtaken = {}
LiveNext == Next /\ overtaken' = overtaken \cup {id \in Ids : Overtaken(id)}

LiveSpec ==
  /\ LiveInit /\ [][LiveNext]_<<vars, overtaken>>
  /\ LoopFairness /\ AnswerFairness /\ FetchFairness /\ NoEndlessRenumbering

(* Every failure is pushed to Sonarr and Radarr, or given up on, unless its    *)
(* row leaves ERROR; but for rows queued again while a failure of theirs was   *)
(* being pushed, whose mark may be that of the failure before (reconcile.go,   *)
(* arrPass).                                                                   *)
FailuresPushed ==
  \A id \in Ids : rows[id].state = "ERROR" /\ id \notin overtaken
                     ~> rows[id].notified \/ rows[id].state # "ERROR" \/ id \in overtaken
=============================================================================
