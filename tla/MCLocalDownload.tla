---------------------------- MODULE MCLocalDownload ----------------------------
(* Releases with a single top-level entry, and h2 with two. *)
EXTENDS LocalDownload

CONSTANTS h1, h2, h3

MCTops == [h \in Hashes |-> IF h = h2 THEN {"file", "extra"} ELSE {"folder"}]
=============================================================================
