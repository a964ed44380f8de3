-------------------------------- MODULE TorBox --------------------------------
(* The TorBox account, as the client code uses it: an external service.  An   *)
(* account maps torrent ids to entries; a free id has phase "none".            *)
(*   queued    in TorBox's own queue: not in mylist, known by a queued id      *)
(*   fetching  active on TorBox: it holds one of the account's slots           *)
(*   cached    download_present: inactive, holds no slot                       *)
EXTENDS Store

CONSTANTS AccountSlots,   \* concurrent slots of the account
          Refusable       \* releases TorBox may refuse (too large, malformed, ...)

ASSUME TorBoxAssumption == AccountSlots \in Nat /\ Refusable \subseteq Hashes

Phases == {"none", "queued", "fetching", "cached"}
Entry  == [hash : Hashes \cup {NoHash}, phase : Phases]
NoEntry == [hash |-> NoHash, phase |-> "none"]

Listed(account) == {tb \in TbIds : account[tb].phase \in {"fetching", "cached"}}
Holding(account) == {tb \in TbIds : account[tb].phase = "fetching"}
EntriesOf(account, hash) ==
  {tb \in TbIds : account[tb].phase # "none" /\ account[tb].hash = hash}
ListedOf(account, hash) == EntriesOf(account, hash) \cap Listed(account)

SlotFree(account) == Cardinality(Holding(account)) < AccountSlots

(* createtorrent on a release TorBox does not hold yet: a new entry, which is *)
(* cached at once when TorBox already has the content, and goes to TorBox's   *)
(* queue when every slot of the account is taken.                             *)
CreatedPhases(account) ==
  {"cached"} \cup (IF SlotFree(account) THEN {"fetching"} ELSE {"queued"})

Create(account, tb, hash, phase) ==
  [account EXCEPT ![tb] = [hash |-> hash, phase |-> phase]]

Remove(account, tb) ==
  IF tb \in TbIds THEN [account EXCEPT ![tb] = NoEntry] ELSE account

(* What a delete call can do: it may fail before or after TorBox acts on it.  *)
DeleteOutcomes == {[removed |-> TRUE,  ok |-> TRUE],
                   [removed |-> TRUE,  ok |-> FALSE],
                   [removed |-> FALSE, ok |-> FALSE]}
=============================================================================
