------------------------- MODULE MCSentinelFailover -------------------------
(* SentinelFailover for TLC: the Sentinels are interchangeable.            *)
EXTENDS SentinelFailover, TLC

Symmetry == Permutations(Sentinels)

\* Bound: two different requests for votes, by one Sentinel or by two.
FewCampaigns == Cardinality(requests) <= 2

=============================================================================
