---------------------------- MODULE MCLeadExport ----------------------------
(***************************************************************************)
(* Instances of LeadExport for TLC.                                        *)
(***************************************************************************)
EXTENDS LeadExport, TLC

CONSTANTS j1, j2, c1, c2, k1, k2, k3

\* No lead from the days of contract v1, or the first one.
NoOldCharge == [l \in {} |-> k1]
OldestIsV1 == 1 :> k1

\* The configurations a site goes through.
Ready(c) == [consent |-> TRUE, campaign |-> c]
GoodSite == {Ready(c1)}
TwoCampaigns == {Ready(c1), Ready(c2)}
AnySite == TwoCampaigns \cup {[consent |-> FALSE, campaign |-> c1],
                              [consent |-> TRUE, campaign |-> NoCampaign]}

\* uuid4 values are interchangeable.
Symmetry == Permutations(Correlation)
=============================================================================
