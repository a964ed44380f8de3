------------------------------ MODULE MCDiskGate ------------------------------
(* Two downloads fill the disk but for the reserve; three do not fit. *)
EXTENDS DiskGate

CONSTANTS t1, t2, t3

MCSizeOf == [t \in Torrents |-> IF t = t3 THEN 2 ELSE 1]
===============================================================================
