------------------------------- MODULE Lifecycle -------------------------------
(* What the service promises about the torrents it tracks, without its loops:  *)
(* the state machine of docs/ARCHITECTURE.md section 3 for every row, at most  *)
(* one row for an infohash, at most MaxSlots rows active on TorBox, and a row  *)
(* id that, once dropped, never comes back.                                    *)
EXTENDS Naturals, FiniteSets

CONSTANTS Ids, Hashes, NoHash, MaxSlots

VARIABLES state,     \* id -> the state of the row, "NONE" without one
          release,   \* id -> its infohash
          given      \* the ids given to rows so far

lifeVars == <<state, release, given>>

Rows == {id \in Ids : state[id] # "NONE"}

Moves == {<<"QUEUED", "ERROR">>,
          <<"TORBOX_ACTIVE", "LOCAL_QUEUED">>,  <<"TORBOX_ACTIVE", "ERROR">>,
          <<"LOCAL_QUEUED", "LOCAL_DOWNLOAD">>, <<"LOCAL_QUEUED", "ERROR">>,
          <<"LOCAL_QUEUED", "COMPLETE">>,       \* found on disk at startup
          <<"LOCAL_DOWNLOAD", "COMPLETE">>,     <<"LOCAL_DOWNLOAD", "ERROR">>,
          <<"ERROR", "QUEUED">>}                \* added again

Init == /\ state = [id \in Ids |-> "NONE"]
        /\ release = [id \in Ids |-> NoHash]
        /\ given = {}

Track(id, h) ==
  /\ id \notin given
  /\ \A other \in Rows : release[other] # h
  /\ state' = [state EXCEPT ![id] = "QUEUED"]
  /\ release' = [release EXCEPT ![id] = h]
  /\ given' = given \cup {id}

Submit(id) ==
  /\ state[id] = "QUEUED"
  /\ Cardinality({other \in Ids : state[other] = "TORBOX_ACTIVE"}) < MaxSlots
  /\ state' = [state EXCEPT ![id] = "TORBOX_ACTIVE"]
  /\ UNCHANGED <<release, given>>

Move(id) ==
  /\ \E move \in Moves : /\ state[id] = move[1]
                         /\ state' = [state EXCEPT ![id] = move[2]]
  /\ UNCHANGED <<release, given>>

Forget(id) ==
  /\ id \in Rows
  /\ state' = [state EXCEPT ![id] = "NONE"]
  /\ release' = [release EXCEPT ![id] = NoHash]
  /\ UNCHANGED given

Next == \E id \in Ids : \/ \E h \in Hashes : Track(id, h)
                        \/ Submit(id) \/ Move(id) \/ Forget(id)

Spec == Init /\ [][Next]_lifeVars
=============================================================================
