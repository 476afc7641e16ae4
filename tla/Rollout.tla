------------------------------ MODULE Rollout ------------------------------
(***************************************************************************)
(* From a JanusGuard or ArgusWatcher resource to guards on the nodes: the  *)
(* reconcilers (operators/*/internal/controller), the admission webhook    *)
(* that injects a waiting init container (operators/common/webhook), the   *)
(* container's wait loop (tools/guard-wait, tools/watcher-wait) and the    *)
(* daemons, which lose their sessions in a crash.                          *)
(*                                                                         *)
(* One resource and the pods its selector matches.  A pass of the          *)
(* reconciler works on the copy of the resource it fetched; an update of   *)
(* another version than the stored one is refused by the API server.  The  *)
(* two kinds differ in that a paused watcher is not reconciled.  A call to *)
(* a daemon is one step here (DaemonClient has its retries), and what the  *)
(* daemon does between its locks is in JanusdService and ArgusdService.    *)
(***************************************************************************)
EXTENDS Naturals, FiniteSets, Functions

CONSTANTS
    Pods,
    Hosts,
    Kinds,           \* "guard", "watch"
    ToolApi,         \* the API version the wait tools are built with
    ServedApis,      \* the versions a daemon serves
    MaxPolls,        \* queries of the wait tool within max_wait_secs
    MaxChanges,      \* bound on the changes made by users and the cluster
    MaxFaults        \* bound on crashes, lost calls and failed reads

VARIABLES
    kind,
    nodeOf,          \* per pod, its node
    resource,        \* as stored by the API server
    phase,           \* per pod: "none", "init", "running"
    polls,           \* per pod, queries its wait tool made
    up,              \* per node: the daemon serves
    session,         \* per pod, what its node's daemon has
    pass,            \* the reconciler's locals
    status,          \* the resource's status
    changes, faults,
    seen,            \* history: pods that had a session at some time in this pass
    left             \* history: pods whose session may outlive the resource

podVars == <<phase, polls>>
daemonVars == <<up, session>>
bounds == <<changes, faults>>
history == <<seen, left>>
rolloutVars == <<kind, nodeOf, resource, phase, polls, up, session, pass, status, changes, faults,
                 seen, left>>

Absent == [generation |-> 0]
Exists(r) == r # Absent
Specs == [paused : BOOLEAN, rev : 0..MaxChanges]
None == [ready |-> FALSE]
NoStatus == [observable |-> 0, counted |-> 0]

Idle == [at |-> "idle", res |-> Absent, listed |-> {}, todo |-> {}, here |-> {}, actual |-> <<>>,
         orphans |-> {}, counted |-> {}]

\* filterRunningPods: a pod whose init container runs is still pending.
Running == {p \in Pods : phase[p] = "running"}
On(n) == {p \in Pods : nodeOf[p] = n}

\* An operator installed in a cluster where pods may already run.
RolloutInit ==
    /\ kind \in Kinds
    /\ nodeOf \in [Pods -> Hosts]
    /\ resource = Absent
    /\ phase \in [Pods -> {"none", "running"}]
    /\ polls = [p \in Pods |-> 0]
    /\ up = [n \in Hosts |-> TRUE]
    /\ session = [p \in Pods |-> None]
    /\ pass = Idle
    /\ status = NoStatus
    /\ changes = 0 /\ faults = 0
    /\ seen = {} /\ left = {}

-----------------------------------------------------------------------------
(* Users and the cluster                                                     *)

Changed ==
    /\ changes < MaxChanges
    /\ changes' = changes + 1
    /\ UNCHANGED <<kind, nodeOf, pass, faults, history>>

Apply(paused) ==
    /\ Changed
    /\ ~Exists(resource)
    /\ resource' = [generation |-> changes', finalizer |-> FALSE, deleting |-> FALSE,
                    spec |-> [paused |-> paused, rev |-> changes']]
    /\ status' = NoStatus
    /\ UNCHANGED <<podVars, daemonVars>>

Edit(paused) ==
    /\ Changed
    /\ Exists(resource) /\ ~resource.deleting
    /\ resource' = [resource EXCEPT !.generation = changes',
                                    !.spec = [paused |-> paused, rev |-> changes']]
    /\ UNCHANGED <<podVars, daemonVars, status>>

\* The API server keeps a resource that has a finalizer until it is removed.
Delete ==
    /\ Changed
    /\ Exists(resource) /\ ~resource.deleting
    /\ resource' = IF resource.finalizer
                   THEN [resource EXCEPT !.generation = changes', !.deleting = TRUE]
                   ELSE Absent
    /\ UNCHANGED <<podVars, daemonVars, status>>

\* FindMatchingResource passes over paused resources.
FindMatchingResource == Exists(resource) /\ ~resource.spec.paused

\* Handle: a pod that matches gets the waiting init container, in front of
\* its own.
CreatePod(p) ==
    /\ Changed
    /\ phase[p] = "none"
    /\ phase' = [phase EXCEPT ![p] = IF FindMatchingResource THEN "init" ELSE "running"]
    /\ polls' = [polls EXCEPT ![p] = 0]
    /\ UNCHANGED <<resource, daemonVars, status>>

DeletePod(p) ==
    /\ Changed
    /\ phase[p] # "none"
    /\ phase' = [phase EXCEPT ![p] = "none"]
    /\ UNCHANGED <<resource, polls, daemonVars, status>>

-----------------------------------------------------------------------------
(* The daemons                                                               *)

\* The process dies, and its sessions with it; the kubelet starts it again.
Crash(n) ==
    /\ up[n] /\ faults < MaxFaults
    /\ faults' = faults + 1
    /\ up' = [up EXCEPT ![n] = FALSE]
    /\ session' = [p \in Pods |-> IF p \in On(n) THEN None ELSE session[p]]
    /\ UNCHANGED <<kind, nodeOf, resource, podVars, pass, status, changes, history>>

Start(n) ==
    /\ ~up[n]
    /\ up' = [up EXCEPT ![n] = TRUE]
    /\ UNCHANGED <<kind, nodeOf, resource, podVars, session, pass, status, bounds, history>>

\* The daemon has installed the session's watches or marks.
Registered(p) ==
    /\ session[p] # None /\ ~session[p].ready
    /\ session' = [session EXCEPT ![p].ready = TRUE]
    /\ UNCHANGED <<kind, nodeOf, resource, podVars, up, pass, status, bounds, history>>

\* A call answered, with its effect on the sessions.
Answered(n, sessions) ==
    /\ up[n]
    /\ session' = sessions
    /\ UNCHANGED faults

\* A call that ends in an error: nobody there, lost on the way, or done and
\* the answer lost.
Unanswered(n, sessions) ==
    \/ ~up[n] /\ UNCHANGED <<session, faults>>
    \/ /\ up[n] /\ faults < MaxFaults
       /\ faults' = faults + 1
       /\ session' \in {session, sessions}

Created(p, spec) ==
    IF session[p] # None THEN session
    ELSE [session EXCEPT ![p] = [spec |-> spec, ready |-> FALSE]]

Destroyed(p) == [session EXCEPT ![p] = None]

-----------------------------------------------------------------------------
(* The init container                                                        *)

\* query_guard_state: connect, ask for this guard's sessions, look for the
\* pod's.
QueryGuardState(p) ==
    IF ~up[nodeOf[p]] \/ ToolApi \notin ServedApis THEN "error"
    ELSE IF session[p] = None THEN "none"
    ELSE IF session[p].ready THEN "ready" ELSE "waiting"

\* query_watch_state.
QueryWatchState(p) ==
    IF ~up[nodeOf[p]] \/ ToolApi \notin ServedApis THEN "error"
    ELSE IF session[p] = None THEN "none"
    ELSE IF session[p].ready THEN "ready" ELSE "waiting"

WaitForGuardForever(p) ==
    /\ kind = "guard"
    /\ IF QueryGuardState(p) = "ready"
       THEN phase' = [phase EXCEPT ![p] = "running"] /\ UNCHANGED polls
       ELSE polls' = [polls EXCEPT ![p] = @ + 1] /\ UNCHANGED phase

\* wait_for_guard: ask until the marks are registered or the time is up.
WaitForGuard(p) ==
    /\ kind = "guard" /\ polls[p] < MaxPolls
    /\ IF QueryGuardState(p) = "ready"
       THEN phase' = [phase EXCEPT ![p] = "running"] /\ UNCHANGED polls
       ELSE polls' = [polls EXCEPT ![p] = @ + 1] /\ UNCHANGED phase

\* wait_for_watcher.
WaitForWatcher(p) ==
    /\ kind = "watch" /\ polls[p] < MaxPolls
    /\ IF QueryWatchState(p) = "ready"
       THEN phase' = [phase EXCEPT ![p] = "running"] /\ UNCHANGED polls
       ELSE polls' = [polls EXCEPT ![p] = @ + 1] /\ UNCHANGED phase

\* main: exit 1 after the time is up; the kubelet runs the container again.
WaitGivesUp(p) ==
    /\ polls[p] >= MaxPolls
    /\ polls' = [polls EXCEPT ![p] = 0]
    /\ UNCHANGED phase

InitContainer(p) ==
    /\ phase[p] = "init"
    /\ WaitForGuard(p) \/ WaitForWatcher(p) \/ WaitGivesUp(p)
    /\ UNCHANGED <<kind, nodeOf, resource, daemonVars, pass, status, bounds, history>>

-----------------------------------------------------------------------------
(* A pass of the reconciler                                                  *)

\* The daemons and the resource as a pass leaves them: a pod is seen once it
\* has a session.
PassStep ==
    /\ seen' = (IF pass'.at = "idle" THEN {} ELSE seen \cup {p \in Pods : session'[p] # None})
    /\ UNCHANGED <<kind, nodeOf, podVars, up, changes>>

\* Reconcile: fetch the resource.  A pass is due after every change and at
\* the latest after DefaultRequeueAfter.
Reconcile ==
    /\ pass.at = "idle" /\ Exists(resource)
    /\ pass' = [Idle EXCEPT !.at = "fetched", !.res = resource]
    /\ UNCHANGED <<resource, session, status, faults, left>>
    /\ PassStep

\* Update with the fetched copy: refused if it is stale, and the pass is
\* retried.
Update(new) ==
    /\ resource' = IF resource = pass.res THEN new ELSE resource
    /\ pass' = Idle

AddFinalizer ==
    /\ pass.at = "fetched" /\ ~pass.res.deleting /\ ~pass.res.finalizer
    /\ Update([pass.res EXCEPT !.finalizer = TRUE])
    /\ UNCHANGED <<session, status, faults, left>>
    /\ PassStep

\* Only a watcher.
SkipPaused ==
    /\ pass.at = "fetched" /\ ~pass.res.deleting /\ pass.res.finalizer
    /\ kind = "watch" /\ pass.res.spec.paused
    /\ pass' = Idle
    /\ UNCHANGED <<resource, session, status, faults, left>>
    /\ PassStep

FindMatchingPods ==
    /\ pass.at = "fetched" /\ ~pass.res.deleting /\ pass.res.finalizer
    /\ ~(kind = "watch" /\ pass.res.spec.paused)
    /\ pass' = [pass EXCEPT !.at = "nodes", !.listed = Running, !.todo = Running]
    /\ UNCHANGED <<resource, session, status, faults, left>>
    /\ PassStep

\* The list fails: the pass is retried.
FindMatchingPodsFails ==
    /\ pass.at = "fetched" /\ ~pass.res.deleting /\ pass.res.finalizer
    /\ ~(kind = "watch" /\ pass.res.spec.paused)
    /\ faults < MaxFaults /\ faults' = faults + 1
    /\ pass' = Idle
    /\ UNCHANGED <<resource, session, status, left>>
    /\ PassStep

\* A node that cannot be read, or has no address, is left out of this pass.
SkipNode(n) ==
    /\ pass.at = "nodes" /\ pass.todo \cap On(n) # {}
    /\ faults < MaxFaults /\ faults' = faults + 1
    /\ pass' = [pass EXCEPT !.todo = @ \ On(n)]
    /\ UNCHANGED <<resource, session, status, left>>
    /\ PassStep

QueryFailsAsMatching(n) ==
    /\ pass.at = "nodes" /\ pass.todo \cap On(n) # {}
    /\ Unanswered(n, session)
    /\ pass' = [pass EXCEPT !.at = "node", !.todo = @ \ On(n),
                            !.counted = @ \cup (pass.todo \cap On(n))]
    /\ UNCHANGED <<resource, status, left>>
    /\ PassStep

\* Get{Guard,Watch}State of the next node with pods.  Without an answer,
\* everything is created.
QueryFails(n) ==
    /\ pass.at = "nodes" /\ pass.todo \cap On(n) # {}
    /\ Unanswered(n, session)
    /\ pass' = [pass EXCEPT !.at = "node", !.todo = @ \ On(n), !.here = pass.todo \cap On(n)]
    /\ UNCHANGED <<resource, status, left>>
    /\ PassStep

QueryNode(n) ==
    LET actual == {p \in On(n) : session[p] # None}
    IN /\ pass.at = "nodes" /\ pass.todo \cap On(n) # {}
       /\ Answered(n, session)
       /\ pass' = [pass EXCEPT !.at = "node", !.todo = @ \ On(n), !.here = pass.todo \cap On(n),
                               !.actual = [p \in actual |-> session[p].spec],
                               !.orphans = actual \ pass.listed]
       /\ UNCHANGED <<resource, status, left>>
       /\ PassStep

\* {guard,watch}ConfigMatches compares the spec, not the containers.
ConfigMatches(p) == p \in DOMAIN pass.actual /\ pass.actual[p] = pass.res.spec

Synced(p, ok) ==
    pass' = [pass EXCEPT !.here = @ \ {p}, !.counted = IF ok THEN @ \cup {p} ELSE @]

SkipMatching(p) ==
    /\ pass.at = "node" /\ p \in pass.here /\ ConfigMatches(p)
    /\ Synced(p, TRUE)
    /\ UNCHANGED <<resource, session, status, faults, left>>
    /\ PassStep

\* Create or update: the daemon refuses to create what it has.
CreateSession(p) ==
    /\ pass.at = "node" /\ p \in pass.here /\ ~ConfigMatches(p)
    /\ \/ Answered(nodeOf[p], Created(p, pass.res.spec)) /\ Synced(p, session[p] = None)
       \/ Unanswered(nodeOf[p], Created(p, pass.res.spec)) /\ Synced(p, FALSE)
    /\ UNCHANGED <<resource, status, left>>
    /\ PassStep

\* A pod whose container IDs are not known yet.
SkipPod(p) ==
    /\ pass.at = "node" /\ p \in pass.here
    /\ faults < MaxFaults /\ faults' = faults + 1
    /\ Synced(p, FALSE)
    /\ UNCHANGED <<resource, session, status, left>>
    /\ PassStep

DestroyOrphanSkipped(p) ==
    /\ pass.at = "node" /\ pass.here = {} /\ p \in pass.orphans
    /\ pass' = [pass EXCEPT !.orphans = @ \ {p}]
    /\ UNCHANGED <<resource, session, faults, status, left>>
    /\ PassStep

\* What the daemon has and the list has not, as far as this node was asked.
DestroyOrphan(p) ==
    /\ pass.at = "node" /\ pass.here = {} /\ p \in pass.orphans
    /\ Answered(nodeOf[p], Destroyed(p)) \/ Unanswered(nodeOf[p], Destroyed(p))
    /\ pass' = [pass EXCEPT !.orphans = @ \ {p}]
    /\ UNCHANGED <<resource, status, left>>
    /\ PassStep

NodeDone ==
    /\ pass.at = "node" /\ pass.here = {} /\ pass.orphans = {}
    /\ pass' = [pass EXCEPT !.at = "nodes", !.actual = <<>>]
    /\ UNCHANGED <<resource, session, status, faults, left>>
    /\ PassStep

\* The status is written unless the resource has changed since it was fetched.
WriteStatus ==
    /\ pass.at = "nodes" /\ pass.todo = {}
    /\ status' = IF resource = pass.res
                 THEN [observable |-> Cardinality(pass.listed),
                       counted |-> Cardinality(pass.counted)]
                 ELSE status
    /\ pass' = Idle
    /\ UNCHANGED <<resource, session, faults, left>>
    /\ PassStep

-----------------------------------------------------------------------------
(* handleDeletion                                                            *)

ListForDeletion ==
    /\ pass.at = "fetched" /\ pass.res.deleting
    /\ pass' = [pass EXCEPT !.at = "destroy", !.listed = Running, !.todo = Running]
    /\ left' = Pods \ Running
    /\ UNCHANGED <<resource, session, status, faults>>
    /\ PassStep

\* A failed list is logged and the deletion goes on.
ListForDeletionFails ==
    /\ pass.at = "fetched" /\ pass.res.deleting
    /\ faults < MaxFaults /\ faults' = faults + 1
    /\ pass' = [pass EXCEPT !.at = "destroy"]
    /\ left' = Pods
    /\ UNCHANGED <<resource, session, status>>
    /\ PassStep

\* Errors are logged and the deletion goes on.
DestroyListed(p) ==
    /\ pass.at = "destroy" /\ p \in pass.todo
    /\ \/ Answered(nodeOf[p], Destroyed(p)) /\ UNCHANGED left
       \/ Unanswered(nodeOf[p], Destroyed(p)) /\ left' = left \cup {p}
    /\ pass' = [pass EXCEPT !.todo = @ \ {p}]
    /\ UNCHANGED <<resource, status>>
    /\ PassStep

RemoveFinalizerFirst ==
    /\ pass.at = "destroy"
    /\ Update(Absent)
    /\ UNCHANGED <<session, status, faults, left>>
    /\ PassStep

\* The resource goes with its last finalizer.
RemoveFinalizer ==
    /\ pass.at = "destroy" /\ pass.todo = {}
    /\ Update(Absent)
    /\ UNCHANGED <<session, status, faults, left>>
    /\ PassStep

-----------------------------------------------------------------------------

Pass ==
    \/ Reconcile \/ AddFinalizer \/ SkipPaused \/ FindMatchingPods \/ NodeDone \/ WriteStatus
    \/ FindMatchingPodsFails \/ ListForDeletion \/ ListForDeletionFails \/ RemoveFinalizer
    \/ \E n \in Hosts : QueryNode(n) \/ QueryFails(n) \/ SkipNode(n)
    \/ \E p \in Pods :
         SkipPod(p) \/ SkipMatching(p) \/ CreateSession(p) \/ DestroyOrphan(p) \/ DestroyListed(p)

Cluster ==
    \/ \E paused \in BOOLEAN : Apply(paused) \/ Edit(paused)
    \/ Delete
    \/ \E p \in Pods : CreatePod(p) \/ DeletePod(p)
    \/ \E n \in Hosts : Crash(n)

RolloutNext ==
    \/ Pass
    \/ Cluster
    \/ \E n \in Hosts : Start(n)
    \/ \E p \in Pods : Registered(p) \/ InitContainer(p)

\* The work queue keeps running passes, the kubelet restarts the daemons and
\* the waiting containers, the daemons get their watches and marks installed.
Fairness ==
    /\ WF_rolloutVars(Pass)
    /\ \A n \in Hosts : WF_rolloutVars(Start(n))
    /\ \A p \in Pods : WF_rolloutVars(Registered(p)) /\ WF_rolloutVars(InitContainer(p))

RolloutSpec == RolloutInit /\ [][RolloutNext]_rolloutVars /\ Fairness

-----------------------------------------------------------------------------
(* Properties                                                                *)

RolloutTypeOK ==
    /\ kind \in Kinds /\ nodeOf \in [Pods -> Hosts]
    /\ Exists(resource) => /\ resource.spec \in Specs
                           /\ resource.deleting => resource.finalizer
    /\ phase \in [Pods -> {"none", "init", "running"}]
    /\ polls \in [Pods -> 0..MaxPolls]
    /\ up \in [Hosts -> BOOLEAN]
    /\ \A p \in Pods : session[p] = None \/ (up[nodeOf[p]] /\ session[p].spec \in Specs)
    /\ pass.counted \subseteq pass.listed
    /\ status.counted <= status.observable

\* The status counts a pod as guarded (watched) only if its node's daemon had
\* a session for it at some moment of the pass: a crash, a lost answer or a
\* failed query never makes the operator report a pod it has no guard for.
StatusHonest == pass.counted \subseteq seen

\* Once the finalizer is gone, the only sessions left are those of pods the
\* deletion did not list and those whose destroy call failed; "JanusGuard
\* deleted and guards cleaned up" is true of all others, whatever was created
\* or edited while the deletion was on its way.
DeletionCleansUp ==
    ~Exists(resource) => \A p \in Pods : session[p] # None => p \in left

\* A resource that is there to stay, and is reconciled.
Live == Exists(resource) /\ ~resource.deleting /\ ~(kind = "watch" /\ resource.spec.paused)

\* Every running pod that matches comes to have a session again and again,
\* after daemon crashes, lost calls and edits, and a session of a pod that is
\* gone goes too as long as another matching pod runs on its node.
Converges ==
    []<>(Live => /\ \A p \in Running : session[p] # None
                 /\ \A p \in Pods \ Running :
                        (\E q \in Running : nodeOf[q] = nodeOf[p]) => session[p] = None)

\* tools/watcher-wait/src/main.rs:31-43: an injected pod's own containers
\* start once its watches (marks) are in place.
InjectedPodsStart == \A p \in Pods : phase[p] = "init" ~> phase[p] # "init"

=============================================================================
