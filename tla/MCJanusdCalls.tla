---------------------------- MODULE MCJanusdCalls ----------------------------
(* Calls to JanusdService that nobody gives up, one scene each: about one pod *)
(* while its state is streamed, and about more pods than may be guarded.      *)
EXTENDS MCJanusdService

VARIABLE scene

\* All calls are about one pod, which is guarded twice at most.
OnePod ==
    /\ \A c \in Clients : pc[c] = "idle" \/ req[c].key = CHOOSE k \in Keys : TRUE
    /\ created + Cardinality(InFlightCreates) < MaxIncarnations

\* Guards are created, not paused, and destroyed.
Pods == ~streaming /\ \A c \in Clients : pc[c] # "update" /\ ~req[c].paused

MCNext ==
    /\ scene' = scene
    /\ Next
    /\ scene = "one pod" => OnePod'
    /\ scene = "pods" => Pods'

MCSpec == Init /\ scene \in {"one pod", "pods"} /\ [][MCNext]_<<scene, vars>> /\ Fairness
=============================================================================
