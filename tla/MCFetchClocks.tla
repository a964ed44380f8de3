----------------------------- MODULE MCFetchClocks -----------------------------
(* Three settings: every check on; some of them off; and fetches that are given *)
(* up so early that the torrent is submitted again within the bounds.          *)
EXTENDS FetchClocks

AllOn == [stall |-> 2, progressStall |-> 3, cachedStall |-> 1, minSpeed |-> 1,
          slowWindow |-> 2, failAfter |-> 0, reannounce |-> 1]

MCPolicies ==
  {AllOn, [AllOn EXCEPT !.stall = 4, !.progressStall = 4, !.cachedStall = 0, !.minSpeed = 0,
                        !.failAfter = 6, !.reannounce = 3],
          [AllOn EXCEPT !.stall = 1, !.progressStall = 1, !.minSpeed = 0, !.failAfter = 2]}
=============================================================================
