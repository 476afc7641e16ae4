----------------------------- MODULE MCOperator -----------------------------
(* The operator's two sides, one per scene: the client through which it      *)
(* calls a daemon, with one node and three callers, and the rollout of a     *)
(* resource to two pods on at most two nodes.                                *)
EXTENDS DaemonClient, Rollout

VARIABLE scene

\* The first pod is on the first node; the other placements are renamings.
Placements == {f \in [Pods -> Hosts] : f[CHOOSE p \in Pods : TRUE] = CHOOSE n \in Hosts : TRUE}

MCInit ==
    /\ scene \in {"client", "rollout"}
    /\ kind \in IF scene = "rollout" THEN Kinds ELSE {"guard"}
    /\ nodeOf \in IF scene = "rollout" THEN Placements ELSE {CHOOSE f \in Placements : TRUE}
    /\ phase \in IF scene = "rollout" THEN [Pods -> {"none", "running"}]
                 ELSE {[p \in Pods |-> "none"]}
    /\ Init /\ RolloutInit

\* The cluster may come to rest, the client may not.
MCNext ==
    /\ scene' = scene
    /\ \/ scene = "client" /\ Next /\ UNCHANGED rolloutVars
       \/ scene = "rollout" /\ RolloutNext /\ UNCHANGED vars
       \/ scene = "rollout" /\ UNCHANGED <<rolloutVars, vars>>

MCSpec == MCInit /\ [][MCNext]_<<scene, vars, rolloutVars>> /\ Fairness

\* The types of the two sides.
TypesOK == TypeOK /\ RolloutTypeOK
=============================================================================
