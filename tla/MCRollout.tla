----------------------------- MODULE MCRollout -----------------------------
EXTENDS Rollout

\* The first pod is on the first node; the other placements are renamings.
MCInit ==
    /\ RolloutInit
    /\ nodeOf[CHOOSE p \in Pods : TRUE] = CHOOSE n \in Hosts : TRUE

MCSpec == MCInit /\ [][RolloutNext]_rolloutVars /\ Fairness

=============================================================================
