---------------------------- MODULE JanusdService ----------------------------
(***************************************************************************)
(* The guard daemon's gRPC service in fanotify mode (janusd/src/service.rs *)
(* over common/src/session.rs and common/src/metrics.rs).                  *)
(*                                                                         *)
(* Each client runs one handler at a time; a handler is a sequence of      *)
(* steps separated by the awaits at which tokio may run another task.      *)
(* Every CreateGuard that gets as far as inserting a session allocates a   *)
(* new incarnation, so that a session replaced or removed from the map can *)
(* still be spoken of: its Arc lives on in handlers and tasks.             *)
(***************************************************************************)
EXTENDS Integers, FiniteSets

CONSTANTS
    Keys,             \* session keys "name:namespace:pod"
    Names,            \* guard names
    NameOf,           \* the guard name in a key
    Clients,          \* concurrent gRPC calls
    Cancellable,      \* the clients that may give up on a call
    Policies,         \* contents of a guard's first subject
    MaxPids,          \* bound on the PIDs a request resolves to
    MaxGuards,        \* max_guards
    StateClient,      \* whether anybody calls GetGuardState
    StreamCapacity,   \* the GetGuardState channel, 100 in the code
    MaxIncarnations   \* bound on the sessions ever created

ASSUME ConstantsAssumption ==
    /\ NameOf \in [Keys -> Names]
    /\ Cancellable \subseteq Clients
    /\ IsFiniteSet(Clients) /\ Clients # {}
    /\ IsFiniteSet(Keys) /\ Keys # {} /\ Policies # {}
    /\ MaxPids \in Nat /\ MaxGuards \in Nat /\ MaxIncarnations \in Nat
    /\ StateClient \in BOOLEAN /\ StreamCapacity \in Nat \ {0}

VARIABLES
    sessions,      \* the SessionMap: the incarnation of each key, 0 if absent
    created,       \* incarnations allocated so far
    heap,          \* the Session behind each incarnation
    collectors,    \* MetricsAggregator.collectors, counted per guard name
    guards,        \* incarnations whose Guard (fanotify group) is open
    config,        \* the policy baked into each Guard
    marks,         \* the mounts each Guard has marked
    loops,         \* incarnations whose event loop task runs
    guardRunning,  \* Guard.running, the flag the loop tests
    streaming, left, buffered,  \* GetGuardState: lock held, to send, in channel
    pc, req, inc   \* per client: next step, its request, its incarnation

serviceVars == <<sessions, created, heap, collectors>>
guardVars == <<guards, config, marks, loops, guardRunning>>
streamVars == <<streaming, left, buffered>>
clientVars == <<pc, req, inc>>
vars == <<serviceVars, guardVars, streamVars, clientVars>>

Incarnations == 1..MaxIncarnations
Actions == {"pause", "resume", "policy"}
CreateSteps == {"exists", "insert", "register", "setup", "ready"}
Steps == CreateSteps \cup {"idle", "remove", "stop", "unregister", "update"}
Requests == [key : Keys, paused : BOOLEAN, pids : 0..MaxPids,
             policy : Policies, action : Actions]
NoRequest == CHOOSE r \in Requests : TRUE
Session == [key : Keys, paused : BOOLEAN, running : BOOLEAN, ready : BOOLEAN,
            pids : 0..MaxPids, mounts : 0..MaxPids, policy : Policies]

Present == {k \in Keys : sessions[k] # 0}
InFlightCreates == {c \in Clients : pc[c] \in {"exists", "insert"}}
Goto(c, s) == pc' = [pc EXCEPT ![c] = s]
Call(c, s, r) == Goto(c, s) /\ req' = [req EXCEPT ![c] = r] /\ UNCHANGED inc
Return(c) ==
    /\ Goto(c, "idle")
    /\ req' = [req EXCEPT ![c] = NoRequest]
    /\ inc' = [inc EXCEPT ![c] = 0]

TypeOK ==
    /\ sessions \in [Keys -> 0..MaxIncarnations]
    /\ created \in 0..MaxIncarnations
    /\ heap \in [Incarnations -> Session]
    /\ collectors \in [Names -> Nat]
    /\ guards \subseteq Incarnations /\ loops \subseteq Incarnations
    /\ config \in [Incarnations -> Policies]
    /\ marks \in [Incarnations -> 0..MaxPids]
    /\ guardRunning \in [Incarnations -> BOOLEAN]
    /\ streaming \in BOOLEAN /\ left \in Nat /\ buffered \in 0..StreamCapacity
    /\ pc \in [Clients -> Steps]
    /\ req \in [Clients -> Requests]
    /\ inc \in [Clients -> 0..MaxIncarnations]

\* JanusdServiceImpl::new: an empty session map, no metrics, no guards.  What
\* an unallocated incarnation or an idle client holds is immaterial: CHOOSE fixes it.
Init ==
    /\ sessions = [k \in Keys |-> 0]
    /\ created = 0
    /\ heap = [i \in Incarnations |-> CHOOSE s \in Session : TRUE]
    /\ collectors = [n \in Names |-> 0]
    /\ guards = {} /\ loops = {}
    /\ config = [i \in Incarnations |-> CHOOSE p \in Policies : TRUE]
    /\ marks = [i \in Incarnations |-> 0]
    /\ guardRunning = [i \in Incarnations |-> FALSE]
    /\ streaming = FALSE /\ left = 0 /\ buffered = 0
    /\ pc = [c \in Clients |-> "idle"]
    /\ req = [c \in Clients |-> NoRequest]
    /\ inc = [c \in Clients |-> 0]

-----------------------------------------------------------------------------
(* create_guard *)

CreateCountUnchecked(c, k, paused, pids, policy) ==
    /\ pc[c] = "idle"
    /\ created + Cardinality(InFlightCreates) < MaxIncarnations
    /\ Call(c, "exists", [NoRequest EXCEPT !.key = k, !.paused = paused,
                                           !.pids = pids, !.policy = policy])
    /\ UNCHANGED <<serviceVars, guardVars, streamVars>>

\* count() against max_sessions(): refuse, or go on with the request.
CreateCount(c, k, paused, pids, policy) ==
    /\ pc[c] = "idle"
    /\ created + Cardinality(InFlightCreates) < MaxIncarnations
    /\ \/ Cardinality(Present) >= MaxGuards /\ UNCHANGED clientVars
       \/ /\ Cardinality(Present) < MaxGuards
          /\ Call(c, "exists", [NoRequest EXCEPT !.key = k, !.paused = paused,
                                                 !.pids = pids, !.policy = policy])
    /\ UNCHANGED <<serviceVars, guardVars, streamVars>>

\* exists(&key): AlreadyExists, or resolve the PIDs and build the Session.
CreateExists(c) ==
    /\ pc[c] = "exists"
    /\ \/ req[c].key \in Present /\ Return(c)
       \/ req[c].key \notin Present /\ Goto(c, "insert") /\ UNCHANGED <<req, inc>>
    /\ UNCHANGED <<serviceVars, guardVars, streamVars>>

NewSession(r) ==
    [key |-> r.key, paused |-> r.paused, running |-> TRUE, ready |-> FALSE,
     pids |-> r.pids, mounts |-> 0, policy |-> r.policy]

InsertSession(c) ==
    /\ created' = created + 1
    /\ heap' = [heap EXCEPT ![created'] = NewSession(req[c])]
    /\ sessions' = [sessions EXCEPT ![req[c].key] = created']
    /\ inc' = [inc EXCEPT ![c] = created']
    /\ Goto(c, "register")
    /\ UNCHANGED <<collectors, req, guardVars, streamVars>>

CreateInsertUnlocked(c) == pc[c] = "insert" /\ InsertSession(c)

\* sessions.insert under the write lock, whatever the map holds by now.
CreateInsert(c) == pc[c] = "insert" /\ ~streaming /\ InsertSession(c)

\* metrics.register and the forwarding task; a paused guard is done here.
CreateRegister(c) ==
    /\ pc[c] = "register"
    /\ collectors' = [collectors EXCEPT ![NameOf[req[c].key]] = @ + 1]
    /\ \/ req[c].paused /\ Return(c)
       \/ ~req[c].paused /\ Goto(c, "setup") /\ UNCHANGED <<req, inc>>
    /\ UNCHANGED <<sessions, created, heap, guardVars, streamVars>>

\* Guard::new and register_fanotify_marks succeed with m mounts marked.
OpenGuard(c, policy, m) ==
    /\ guards' = guards \cup {inc[c]}
    /\ config' = [config EXCEPT ![inc[c]] = policy]
    /\ marks' = [marks EXCEPT ![inc[c]] = m]
    /\ Goto(c, "ready")
    /\ UNCHANGED <<heap, req, inc>>

SetupFrame == UNCHANGED <<sessions, created, collectors, loops, guardRunning, streamVars>>

CreateSetupFromRequest(c) ==
    /\ pc[c] = "setup"
    /\ \E m \in 0..req[c].pids : OpenGuard(c, req[c].policy, m) /\ (m > 0 \/ req[c].pids = 0)
    /\ SetupFrame

CreateSetupTolerant(c) ==
    /\ pc[c] = "setup"
    /\ \E m \in 0..heap[inc[c]].pids : OpenGuard(c, heap[inc[c]].policy, m)
    /\ SetupFrame

\* Read the session's PIDs and policy, make the Guard, mark the mounts.  The
\* call fails if the Guard cannot be made or if no mount of a nonempty list of
\* PIDs can be marked; the session then stays in the map, not running.
CreateSetup(c) ==
    /\ pc[c] = "setup"
    /\ \/ \E m \in 0..heap[inc[c]].pids :
            /\ m > 0 \/ heap[inc[c]].pids = 0
            /\ OpenGuard(c, heap[inc[c]].policy, m)
       \/ /\ heap' = [heap EXCEPT ![inc[c]].running = FALSE]
          /\ Return(c)
          /\ UNCHANGED <<guards, config, marks>>
    /\ SetupFrame

\* Record readiness in the session, spawn the event loop, reply.
CreateReady(c) ==
    /\ pc[c] = "ready"
    /\ heap' = [heap EXCEPT ![inc[c]].ready = TRUE, ![inc[c]].mounts = marks[inc[c]]]
    /\ loops' = loops \cup {inc[c]}
    /\ guardRunning' = [guardRunning EXCEPT ![inc[c]] = TRUE]
    /\ Return(c)
    /\ UNCHANGED <<sessions, created, collectors, guards, config, marks, streamVars>>

-----------------------------------------------------------------------------
(* destroy_guard: SessionManager::remove, then unregister by guard name *)

DestroyGuard(c, k) ==
    /\ pc[c] = "idle"
    /\ Call(c, "remove", [NoRequest EXCEPT !.key = k])
    /\ UNCHANGED <<serviceVars, guardVars, streamVars>>

DestroyRemove(c) ==
    /\ pc[c] = "remove"
    /\ ~streaming
    /\ \/ /\ req[c].key \notin Present       \* NotFound
          /\ Return(c)
          /\ UNCHANGED sessions
       \/ /\ req[c].key \in Present
          /\ inc' = [inc EXCEPT ![c] = sessions[req[c].key]]
          /\ sessions' = [sessions EXCEPT ![req[c].key] = 0]
          /\ Goto(c, "stop")
          /\ UNCHANGED req
    /\ UNCHANGED <<created, heap, collectors, guardVars, streamVars>>

\* s.lock().await.stop(): clears the session's flag.
DestroyStop(c) ==
    /\ pc[c] = "stop"
    /\ heap' = [heap EXCEPT ![inc[c]].running = FALSE]
    /\ Goto(c, "unregister")
    /\ UNCHANGED <<sessions, created, collectors, guardVars, streamVars, req, inc>>

DestroyUnregisterAll(c) ==
    /\ pc[c] = "unregister"
    /\ collectors' = [collectors EXCEPT ![NameOf[heap[inc[c]].key]] = 0]
    /\ Return(c)
    /\ UNCHANGED <<sessions, created, heap, guardVars, streamVars>>

\* unregister removes the first collector of that name, if there is one.
DestroyUnregister(c) ==
    /\ pc[c] = "unregister"
    /\ LET name == NameOf[heap[inc[c]].key] IN
         collectors' = [collectors EXCEPT ![name] = IF @ > 0 THEN @ - 1 ELSE 0]
    /\ Return(c)
    /\ UNCHANGED <<sessions, created, heap, guardVars, streamVars>>

-----------------------------------------------------------------------------
(* update_guard and update_policy: get the session's Arc, then lock it *)

UpdateGet(c, k, action, policy) ==
    /\ pc[c] = "idle"
    /\ k \in Present                         \* otherwise NotFound
    /\ Goto(c, "update")
    /\ req' = [req EXCEPT ![c] = [NoRequest EXCEPT !.key = k, !.action = action,
                                                   !.policy = policy]]
    /\ inc' = [inc EXCEPT ![c] = sessions[k]]
    /\ UNCHANGED <<serviceVars, guardVars, streamVars>>

\* Pause clears the session's running flag.
UpdatePause(c) ==
    /\ pc[c] = "update" /\ req[c].action = "pause"
    /\ heap' = IF heap[inc[c]].paused        \* FailedPrecondition
                 THEN heap
                 ELSE [heap EXCEPT ![inc[c]].paused = TRUE, ![inc[c]].running = FALSE]
    /\ Return(c)
    /\ UNCHANGED <<sessions, created, collectors, guardVars, streamVars>>

\* Resume fails either way: not paused, or unimplemented.
UpdateResume(c) ==
    /\ pc[c] = "update" /\ req[c].action = "resume"
    /\ Return(c)
    /\ UNCHANGED <<serviceVars, guardVars, streamVars>>

\* update_policy stores the new patterns in the session.
UpdatePolicy(c) ==
    /\ pc[c] = "update" /\ req[c].action = "policy"
    /\ \/ heap' = [heap EXCEPT ![inc[c]].policy = req[c].policy]
       \/ UNCHANGED heap                     \* no patterns given, or no subject
    /\ Return(c)
    /\ UNCHANGED <<sessions, created, collectors, guardVars, streamVars>>

-----------------------------------------------------------------------------
(* get_guard_state: a task streams the sessions under the read lock *)

StateStreamOpen ==
    /\ StateClient /\ ~streaming /\ buffered = 0
    /\ streaming' = TRUE
    /\ left' \in 0..Cardinality(Present)     \* those the filter lets through
    /\ UNCHANGED <<buffered, serviceVars, guardVars, clientVars>>

\* tx.send(state).await: waits for room in the channel.
StateStreamSend ==
    /\ streaming /\ left > 0
    /\ buffered < StreamCapacity
    /\ left' = left - 1
    /\ buffered' = buffered + 1
    /\ UNCHANGED <<streaming, serviceVars, guardVars, clientVars>>

StateStreamDoneKeepsLock ==
    /\ streaming /\ left = 0
    /\ UNCHANGED vars

\* The loop ends and the read lock is dropped.
StateStreamDone ==
    /\ streaming /\ left = 0
    /\ streaming' = FALSE
    /\ UNCHANGED <<left, buffered, serviceVars, guardVars, clientVars>>

\* The client takes a state from the stream ...
StateStreamRead ==
    /\ buffered > 0
    /\ buffered' = buffered - 1
    /\ UNCHANGED <<streaming, left, serviceVars, guardVars, clientVars>>

\* ... or hangs up, and the task's next send fails and ends it.
StateStreamHangup ==
    /\ streaming /\ left > 0
    /\ streaming' = FALSE /\ left' = 0 /\ buffered' = 0
    /\ UNCHANGED <<serviceVars, guardVars, clientVars>>
-----------------------------------------------------------------------------
(* The event loop of a guard (guard.rs), and tonic *)

\* One iteration: test Guard.running, then decide what events there are by the
\* Guard's own policy, config[i] (GuardPipeline has the detail).
GuardLoop(i) ==
    /\ i \in loops
    /\ loops' = {j \in loops : j # i \/ guardRunning[i]}
    /\ guards' = {j \in guards : j # i \/ guardRunning[i]}
    /\ UNCHANGED <<config, marks, guardRunning, serviceVars, streamVars, clientVars>>

\* The client gives up: tonic drops the handler at the await it is suspended
\* in, and with it the Guard that has not been moved to a task yet.
Cancel(c) ==
    /\ c \in Cancellable /\ pc[c] # "idle"
    /\ guards' = IF pc[c] = "ready" THEN guards \ {inc[c]} ELSE guards
    /\ Return(c)
    /\ UNCHANGED <<config, marks, loops, guardRunning, serviceVars, streamVars>>

WriteLocked(c) == CreateInsert(c) \/ DestroyRemove(c)
Handler(c) ==
    \/ CreateExists(c) \/ CreateRegister(c) \/ CreateSetup(c) \/ CreateReady(c)
    \/ DestroyStop(c) \/ DestroyUnregister(c)
    \/ UpdatePause(c) \/ UpdateResume(c) \/ UpdatePolicy(c)
StateStream == StateStreamSend \/ StateStreamDone

Next ==
    \/ \E c \in Clients, k \in Keys :
         \/ \E paused \in BOOLEAN, n \in 0..MaxPids, p \in Policies : CreateCount(c, k, paused, n, p)
         \/ \E a \in Actions, p \in Policies : UpdateGet(c, k, a, p)
         \/ DestroyGuard(c, k)
    \/ \E c \in Clients : WriteLocked(c) \/ Handler(c) \/ Cancel(c)
    \/ StateStreamOpen \/ StateStream \/ StateStreamRead \/ StateStreamHangup
    \/ \E i \in Incarnations : GuardLoop(i)

Spec == Init /\ [][Next]_vars

\* tokio runs every task that can proceed; its RwLock queues fairly, so a
\* waiting writer is not starved by readers; a stream's client keeps reading.
Fairness ==
    /\ \A c \in Clients : WF_vars(Handler(c)) /\ SF_vars(WriteLocked(c))
    /\ WF_vars(StateStream) /\ WF_vars(StateStreamRead)
    /\ \A i \in Incarnations : WF_vars(GuardLoop(i))

FairSpec == Spec /\ Fairness

-----------------------------------------------------------------------------
(* Properties *)

\* create_guard tests the limit and inserts under different locks, so the map
\* may overshoot max_guards, but sessions and creates past the test together
\* stay below max_guards plus the number of concurrent calls: each overshooting
\* insert is paid for by a create that was in flight when the limit was tested.
BoundedOvershoot ==
    Cardinality(Present) + Cardinality(InFlightCreates) < MaxGuards + Cardinality(Clients)

\* A session that reports marks_registered has an open fanotify group with at
\* least one marked mount unless its PID list was empty, whatever other calls
\* did to it between the marks and the report.
ReadyMeansMarked ==
    \A i \in Incarnations : heap[i].ready /\ i <= created =>
        i \in guards /\ (heap[i].pids > 0 => marks[i] > 0) /\ heap[i].mounts = marks[i]

\* A Guard is opened with the policy its session has at that moment: an
\* update_policy that found the session between its insertion and the opening
\* of its Guard is not lost.
GuardOpensWithSessionPolicy ==
    [][\A i \in guards' \ guards : config'[i] = heap[i].policy]_vars

\* The service never loses track of sessions in its metrics: with no call in
\* flight and none cancelled, every name has a collector for each of its
\* sessions in the map, even if one collector was unregistered for another.
MetricsCoverSessions ==
    (\A c \in Clients : pc[c] = "idle") =>
        \A n \in Names : Cardinality({k \in Present : NameOf[k] = n}) <= collectors[n]

\* A GetGuardState stream is a snapshot: the map does not change between its
\* first and its last message.
StreamIsSnapshot ==
    [][streaming => UNCHANGED sessions]_vars

\* Every call returns, writers included, while state streams come and go.
HandlersReturn == \A c \in Clients : pc[c] # "idle" ~> pc[c] = "idle"

\* destroy_guard: "Stops the fanotify monitoring and removes the guard
\* configuration."
DestroyStopsGuard ==
    \A i \in Incarnations :
        (i \in loops /\ i \notin {sessions[k] : k \in Keys} /\ ~heap[i].running)
            ~> i \notin loops
=============================================================================
