----------------------- MODULE MCPublishingProcessing -----------------------
(* Small instances of PublishingProcessing for TLC, with one retry of an     *)
(* operator under way at a time.                                             *)
EXTENDS PublishingProcessing, TLC
CONSTANTS i1, j1, j2, r1, r2, o1, o2, o3

InBounds == Cardinality({j \in JobIds : jobs'[j].locked}) <= 1

MCNext == Next /\ InBounds

MCSpec == Init /\ [][MCNext]_vars /\ Fairness

Symmetric == Permutations(Runs) \cup Permutations(Owners) \cup Permutations(JobIds)
=============================================================================
