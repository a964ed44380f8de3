------------------------------ MODULE MCFileFetch ------------------------------
(* Files of one block, and one of which TorBox does not know the size. *)
EXTENDS FileFetch

CONSTANTS known, other, unknown

MCSize == [f \in Files |-> IF f = unknown THEN 0 ELSE 1]
=============================================================================
