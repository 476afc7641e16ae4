------------------------------- MODULE MCEbpf -------------------------------
(* A node that runs one of the two daemons.  In the scenes "guards" and      *)
(* "watches" clients call it and no file is opened; in the others a first    *)
(* session is made and files are opened: with a stream in "accesses" and     *)
(* "changes", by a process that changes its program in "programs".           *)
EXTENDS JanusdEbpf, ArgusdEbpf

VARIABLE scene

srv == <<1>>
etc == <<2>>
srvFile == <<1, 1>>
MCFiles == {srvFile, <<2, 1>>}
MCGuardRequests ==
    {[prefixes |-> <<srv, etc>>, deny |-> <<srvFile>>, enforcing |-> TRUE, paused |-> FALSE],
     [prefixes |-> <<etc>>, deny |-> <<srvFile>>, enforcing |-> FALSE, paused |-> TRUE],
     [prefixes |-> <<etc>>, deny |-> <<>>, enforcing |-> TRUE, paused |-> TRUE]}
MCDenyPatterns == {<<etc>>}
MCWatchRequests ==
    {[prefixes |-> <<srv, etc>>, paused |-> FALSE], [prefixes |-> <<<<3>>>>, paused |-> FALSE],
     [prefixes |-> <<etc>>, paused |-> TRUE]}

first == CHOOSE c \in Clients : TRUE
one == CHOOSE k \in Keys : TRUE
janus == scene \in {"guards", "accesses"}
calling == scene \in {"guards", "watches"}
wanted ==
    {i \in DOMAIN log : IF janus THEN NotAllowed(log[i]) ELSE StreamFilterMatches(one, log[i])}

Init == NodeInit /\ scene \in {"guards", "watches", "accesses", "changes", "programs"}

\* With files, the first client makes one call after the other, for one key.
Starting ==
    /\ (janus /\ GuardStarts) \/ (~janus /\ WatchStarts)
    /\ ~calling => /\ Quiescent /\ calls < (IF scene = "programs" THEN 1 ELSE 2)
                  /\ \A c \in Clients \ {first} : call'[c] = Idle
                  /\ call'[first] # Idle
                  /\ calls = 0 =>  call'[first].key = one /\ ~call'[first].req.paused

Handling(c) == (janus /\ GuardSteps(c)) \/ (~janus /\ WatchSteps(c))
Forwarding == (janus /\ ForwardAccess) \/ (~janus /\ ForwardFileEvent)
Stream == StreamEvent(wanted) \/ StreamEnds(wanted)

System ==
    \/ \E c \in Clients : Handling(c) /\ (scene # "programs" => traced' = "none")
    \/ EventLoop \/ Receive \/ GetCachedProcess \/ ReadSessions \/ Forwarding \/ Forwarded

Environment ==
    \/ Starting
    \/ calling /\ \E c \in Clients : Cancel(c)
    \/ ~calling /\ (scene = "programs" => accesses = 0) /\ \E f \in Files : FileAccess(f)
    \/ scene = "programs" /\ (Exec \/ Exit \/ Evict)
    \/ scene \in {"accesses", "changes"} /\ (Subscribe \/ StreamLagged \/ Stream)

Next == (System \/ Environment) /\ UNCHANGED scene
Spec == Init /\ [][Next]_<<vars, scene>> /\ WF_<<vars, scene>>(System /\ UNCHANGED scene)

\* JanusdEbpf's properties where janusd runs, and ArgusdEbpf's where argusd
\* does; a stream of denials from the one, of one watch from the other.

\* The maps are what guards or watches ask for, and nothing is left of the last
\* guard (update_guard, update_policy, destroy_guard, update_watch).
MapsFollowSessions ==
    IF janus THEN MapsFollowGuards /\ GuardsLeaveNothing ELSE MapFollowsWatches
\* What is reported: the active sessions cover those that there are, and a watch
\* that is reported ready has its prefixes (get_metrics, get_watch_state).
ReportsHonest ==
    IF janus THEN ActiveCoversGuards ELSE ActiveCoversWatches /\ ReadyMeansFiltered
\* A stream, however late, misses only what the ring had to overwrite
\* (filtered_broadcast_stream, stream_access_events).
StreamComplete == StreamIsComplete(wanted)
=============================================================================
