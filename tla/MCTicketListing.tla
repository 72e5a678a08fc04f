--------------------------- MODULE MCTicketListing ---------------------------
(* TicketListing for TLC: limits below, at and above the cap, and odd ones. *)
EXTENDS TicketListing

CONSTANTS MaxId, MaxLimit

SomeIds == 1 .. MaxId
SomeLimits == (-2 .. MaxLimit) \cup {NaN}

\* Bound: a walk or a request for statistics, which do not see each other.
OneReader == walk.state = "none" \/ stats.state = "none"
=============================================================================
