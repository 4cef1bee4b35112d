--------------------------- MODULE MCPullRequests ---------------------------
(* One repository of the configuration with one page or more than the cap,   *)
(* and one that only discovery finds.                                        *)
EXTENDS PullRequests, TLC
CONSTANTS core, site, a, b, c
MCBackoff == [n \in 0..MaxRetries |-> 1]
MCListings == {[r \in {core, site} |-> IF r = core THEN pages ELSE <<{c}>>] :
                 pages \in {<<{a}, {b}>>, <<{a, b}>>}}
MCReviews == [p \in {a, b, c} |-> IF p = a THEN 2 ELSE 1]
=============================================================================
