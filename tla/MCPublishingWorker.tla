------------------------- MODULE MCPublishingWorker -------------------------
(* Small instances of PublishingWorker for TLC.  The run has two scenes,     *)
(* chosen once: two workers that compete for one job ("workers"), and one    *)
(* worker with more jobs, and more work to queue, than slots ("jobs").       *)
EXTENDS PublishingWorker, TLC
CONSTANTS w1, w2, j1, j2, k1, k2, o1, o2, o3

VARIABLE scene

MCInit == Init /\ scene \in {"workers", "jobs"}

Untouched(w) == state'[w] = "idle" /\ runs'[w] = runs[w] /\ Running(w) = {}

InBounds ==
    IF scene = "workers" THEN jobs'[j2].state = "absent" /\ jobs'[j1].key \in {k1, NoKey}
    ELSE /\ \E w \in Workers : Untouched(w)
         /\ \A j \in JobIds : jobs'[j].attempts <= 1

MCNext == Next /\ InBounds /\ UNCHANGED scene

MCSpec == MCInit /\ [][MCNext]_<<vars, scene>>

Symmetric == Permutations(Workers) \cup Permutations(Owners)
=============================================================================
