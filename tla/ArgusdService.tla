---------------------------- MODULE ArgusdService ----------------------------
(***************************************************************************)
(* The watch daemon's gRPC service in inotify mode (argusd/src/service.rs  *)
(* over common/src/session.rs, common/src/metrics.rs and the locking side  *)
(* of argusd/src/notify.rs).                                               *)
(*                                                                         *)
(* Each client runs one handler at a time, as the steps between its        *)
(* awaits.  Three kinds of lock are held across awaits: the read lock of   *)
(* the session map (get_watch_state), the mutex of a session (update_watch *)
(* and destroy_watch) and the mutex of a watcher (its event loop, and a    *)
(* resuming update_watch).  Who holds them follows from where the clients  *)
(* and the loops are.                                                      *)
(***************************************************************************)
EXTENDS Integers, FiniteSets

CONSTANTS
    Keys,             \* session keys "name:namespace:pod"
    Clients,          \* concurrent gRPC calls
    Cancellable,      \* the clients that may give up on a call
    MaxContainers,    \* bound on the containers of a pod
    MaxSessions,      \* max_watches, also the limit on sessions
    LoopErrors,       \* whether event loops may fail by themselves
    ChannelSize,      \* the channel from a loop to its forwarder, 1000 in the code
    MaxIncarnations,  \* bound on the sessions ever created
    MaxCollectors     \* bound on the collectors of a watch id

ASSUME ConstantsAssumption ==
    /\ IsFiniteSet(Clients) /\ IsFiniteSet(Keys) /\ Keys # {}
    /\ Cancellable \subseteq Clients
    /\ MaxContainers \in Nat /\ MaxSessions \in Nat
    /\ MaxIncarnations \in Nat /\ MaxCollectors \in Nat
    /\ ChannelSize \in Nat /\ LoopErrors \in BOOLEAN

VARIABLES
    sessions,    \* the SessionMap: the incarnation of each key, 0 if absent
    created,     \* incarnations allocated so far
    heap,        \* the Session behind each incarnation
    collectors,  \* MetricsAggregator.collectors, counted per watch id
    made,        \* watchers made so far
    owner,       \* the session a watcher belongs to
    watched,     \* the watcher has inotify watches
    running,     \* Watcher.running, the flag its loop tests
    task,        \* the event loop task of each watcher
    queued,      \* events between a loop and its forwarding task
    pc, req,     \* per client: next step, its request
    inc, cur,    \* per client: its session, the watcher it is making
    todo, scan,  \* per client: containers to watch, sessions to report
    answer       \* what the last step answered, and to whom

serviceVars == <<sessions, created, heap, collectors>>
watcherVars == <<made, owner, watched, running, task, queued>>
localVars == <<inc, cur, todo, scan>>
clientVars == <<pc, req, localVars>>
vars == <<serviceVars, watcherVars, clientVars, answer>>

Incarnations == 1..MaxIncarnations
Watchers == 1..(MaxIncarnations * MaxContainers)
Actions == {"pause", "resume", "unspecified"}
Creating == {"exists", "register", "insert"}
Created == {"open", "ready", "store"}
Removed == {"stop", "claim", "stopWatcher", "unregister"}
Reading == {"get", "lock", "pauseWatcher", "resumeWatcher", "resuming", "scan", "states"}
Steps == {"idle", "remove"} \cup Creating \cup Created \cup Removed \cup Reading
Requests == [key : Keys, paused : BOOLEAN, containers : 0..MaxContainers, action : Actions]
NoRequest == CHOOSE r \in Requests : TRUE
Session == [key : Keys, paused : BOOLEAN, ready : BOOLEAN, watcher : Nat]
NoSession == [key |-> NoRequest.key, paused |-> FALSE, ready |-> FALSE, watcher |-> 0]
Replies == {"ok", "exists", "exhausted", "notfound", "failed", "cancelled"}
NoAnswer == [reply |-> "none"]

Present == {k \in Keys : sessions[k] # 0}

\* The locks held across awaits: the steps at which a session is locked, ...
HoldsSessionAfterStop == {"pauseWatcher", "resumeWatcher", "resuming", "claim", "stopWatcher", "unregister"}
HoldsSession == {"pauseWatcher", "resumeWatcher", "resuming", "stopWatcher", "unregister"}
SessionFree(i) == \A c \in Clients : pc[c] \in HoldsSession => inc[c] # i
WatcherFree(w) ==
    /\ task[w] # "running"
    /\ \A c \in Clients : pc[c] = "resuming" => heap[inc[c]].watcher # w
MapWritable == \A c \in Clients : pc[c] # "states"
\* tokio's RwLock is fair: a reader queues behind a waiting writer.
MapReadable == MapWritable \/ \A c \in Clients : pc[c] \notin {"insert", "remove"}

TypeOK ==
    /\ sessions \in [Keys -> Nat] /\ created \in Nat
    /\ heap \in [Incarnations -> Session]
    /\ collectors \in [Keys -> Nat]
    /\ made \in Nat /\ owner \in [Watchers -> Nat]
    /\ watched \in [Watchers -> BOOLEAN] /\ running \in [Watchers -> BOOLEAN]
    /\ task \in [Watchers -> {"none", "spawned", "running", "ended"}]
    /\ queued \in [Watchers -> 0..ChannelSize]
    /\ pc \in [Clients -> Steps] /\ req \in [Clients -> Requests]
    /\ inc \in [Clients -> Nat] /\ cur \in [Clients -> Nat]
    /\ todo \in [Clients -> 0..MaxContainers]
    /\ scan \in [Clients -> SUBSET Nat]
    /\ answer = NoAnswer \/ answer \in [reply : Replies, client : Clients]

\* ArgusdServiceImpl::new.
Init ==
    /\ sessions = [k \in Keys |-> 0]
    /\ created = 0 /\ made = 0
    /\ heap = [i \in Incarnations |-> NoSession]
    /\ collectors = [k \in Keys |-> 0]
    /\ owner = [w \in Watchers |-> 0]
    /\ watched = [w \in Watchers |-> FALSE] /\ running = [w \in Watchers |-> FALSE]
    /\ task = [w \in Watchers |-> "none"]
    /\ queued = [w \in Watchers |-> 0]
    /\ pc = [c \in Clients |-> "idle"] /\ req = [c \in Clients |-> NoRequest]
    /\ inc = [c \in Clients |-> 0] /\ cur = [c \in Clients |-> 0]
    /\ todo = [c \in Clients |-> 0] /\ scan = [c \in Clients |-> {}]
    /\ answer = NoAnswer

Goto(c, s) == pc' = [pc EXCEPT ![c] = s] /\ answer' = NoAnswer
Call(c, s, r) ==
    /\ pc[c] = "idle" /\ Goto(c, s)
    /\ req' = [req EXCEPT ![c] = r]
    /\ UNCHANGED localVars
Return(c, r) ==
    /\ pc' = [pc EXCEPT ![c] = "idle"] /\ req' = [req EXCEPT ![c] = NoRequest]
    /\ inc' = [inc EXCEPT ![c] = 0] /\ cur' = [cur EXCEPT ![c] = 0]
    /\ todo' = [todo EXCEPT ![c] = 0] /\ scan' = [scan EXCEPT ![c] = {}]
    /\ answer' = [reply |-> r, client |-> c]

-----------------------------------------------------------------------------
(* create_watch *)

InFlightCreates == {c \in Clients : pc[c] \in Creating}

CreateWatch(c, k, paused, n) ==
    /\ created + Cardinality(InFlightCreates) < MaxIncarnations
    /\ collectors[k] + Cardinality(InFlightCreates) < MaxCollectors
    /\ Call(c, "exists", [NoRequest EXCEPT !.key = k, !.paused = paused, !.containers = n])
    /\ UNCHANGED <<serviceVars, watcherVars>>

\* exists(&watch_id).
CreateExists(c) ==
    /\ pc[c] = "exists" /\ MapReadable
    /\ \/ req[c].key \in Present /\ Return(c, "exists")
       \/ /\ req[c].key \notin Present
          /\ Goto(c, "register") /\ UNCHANGED <<req, localVars>>
    /\ UNCHANGED <<serviceVars, watcherVars>>

\* metrics.register, before it is known whether there will be a session.
CreateRegister(c) ==
    /\ pc[c] = "register"
    /\ collectors' = [collectors EXCEPT ![req[c].key] = @ + 1]
    /\ Goto(c, "insert")
    /\ UNCHANGED <<sessions, created, heap, watcherVars, req, localVars>>

InsertSession(c) ==
    /\ created' = created + 1
    /\ heap' = [heap EXCEPT ![created'] =
         [key |-> req[c].key, paused |-> req[c].paused, ready |-> FALSE, watcher |-> 0]]
    /\ sessions' = [sessions EXCEPT ![req[c].key] = created']
    /\ inc' = [inc EXCEPT ![c] = created']
    /\ todo' = [todo EXCEPT ![c] = IF req[c].paused THEN 0 ELSE req[c].containers]
    /\ Goto(c, "open")
    /\ UNCHANGED <<collectors, watcherVars, req, cur, scan>>

CreateInsertUnchecked(c) ==
    /\ pc[c] = "insert" /\ MapWritable
    /\ InsertSession(c)

\* SessionManager::insert tests and inserts under one write lock; every error
\* is answered with ResourceExhausted.
CreateInsert(c) ==
    /\ pc[c] = "insert" /\ MapWritable
    /\ \/ /\ Cardinality(Present) >= MaxSessions \/ req[c].key \in Present
          /\ Return(c, "exhausted")
          /\ UNCHANGED <<serviceVars, watcherVars>>
       \/ /\ Cardinality(Present) < MaxSessions /\ req[c].key \notin Present
          /\ InsertSession(c)

\* A container's watch configuration or watcher cannot be made: a warning.
CreateSkip(c) ==
    /\ pc[c] = "open" /\ todo[c] > 0
    /\ todo' = [todo EXCEPT ![c] = @ - 1]
    /\ answer' = NoAnswer
    /\ UNCHANGED <<serviceVars, watcherVars, pc, req, inc, cur, scan>>

\* Read the session's metrics, make the watcher, add its watches: they are
\* all registered, or add_watches fails at one of them, keeping those it had
\* added, and that is a warning.
CreateOpen(c) ==
    /\ pc[c] = "open" /\ todo[c] > 0 /\ SessionFree(inc[c])
    /\ made' = made + 1
    /\ owner' = [owner EXCEPT ![made'] = inc[c]]
    /\ cur' = [cur EXCEPT ![c] = made']
    /\ todo' = [todo EXCEPT ![c] = @ - 1]
    /\ \E ok \in BOOLEAN, some \in BOOLEAN :
         /\ watched' = [watched EXCEPT ![made'] = ok \/ some]
         /\ Goto(c, IF ok THEN "ready" ELSE "store")
    /\ UNCHANGED <<serviceVars, running, task, queued, req, inc, scan>>

\* register_watches_synchronously marks the session ready.
CreateReady(c) ==
    /\ pc[c] = "ready" /\ SessionFree(inc[c])
    /\ heap' = [heap EXCEPT ![inc[c]].ready = TRUE]
    /\ Goto(c, "store")
    /\ UNCHANGED <<sessions, created, collectors, watcherVars, req, localVars>>

\* Store the watcher in the session, in place of an earlier container's, and
\* spawn the forwarding task and the event loop.
CreateStore(c) ==
    /\ pc[c] = "store" /\ SessionFree(inc[c])
    /\ heap' = [heap EXCEPT ![inc[c]].watcher = cur[c]]
    /\ task' = [task EXCEPT ![cur[c]] = "spawned"]
    /\ Goto(c, "open")
    /\ UNCHANGED <<sessions, created, collectors, made, owner, watched, running, queued,
                   req, localVars>>

CreateReply(c) ==
    /\ pc[c] = "open" /\ todo[c] = 0
    /\ Return(c, "ok")
    /\ UNCHANGED <<serviceVars, watcherVars>>

-----------------------------------------------------------------------------
(* destroy_watch *)

DestroyWatch(c, k) ==
    /\ Call(c, "remove", [NoRequest EXCEPT !.key = k])
    /\ UNCHANGED <<serviceVars, watcherVars>>

\* SessionManager::remove takes the session out under the write lock ...
DestroyRemove(c) ==
    /\ pc[c] = "remove" /\ MapWritable
    /\ \/ /\ req[c].key \notin Present       \* a warning
          /\ Return(c, "ok")
          /\ UNCHANGED sessions
       \/ /\ req[c].key \in Present
          /\ inc' = [inc EXCEPT ![c] = sessions[req[c].key]]
          /\ sessions' = [sessions EXCEPT ![req[c].key] = 0]
          /\ Goto(c, "stop")
          /\ UNCHANGED <<req, cur, todo, scan>>
    /\ UNCHANGED <<created, heap, collectors, watcherVars>>

\* ... and then locks it to clear Session.running, which nothing reads.
DestroyStop(c) ==
    /\ pc[c] = "stop" /\ SessionFree(inc[c])
    /\ Goto(c, "claim")
    /\ UNCHANGED <<serviceVars, watcherVars, req, localVars>>

\* The handler locks the session for the rest of the call.
DestroyClaim(c) ==
    /\ pc[c] = "claim" /\ SessionFree(inc[c])
    /\ Goto(c, IF heap[inc[c]].watcher # 0 THEN "stopWatcher" ELSE "unregister")
    /\ UNCHANGED <<serviceVars, watcherVars, req, localVars>>

DestroyStopWatcher(c) ==
    /\ pc[c] = "stopWatcher" /\ WatcherFree(heap[inc[c]].watcher)
    /\ running' = [running EXCEPT ![heap[inc[c]].watcher] = FALSE]
    /\ Goto(c, "unregister")
    /\ UNCHANGED <<serviceVars, made, owner, watched, task, queued, req, localVars>>

DestroyUnregisterAll(c) ==
    /\ pc[c] = "unregister"
    /\ collectors' = [collectors EXCEPT ![req[c].key] = 0]
    /\ Return(c, "ok")
    /\ UNCHANGED <<sessions, created, heap, watcherVars>>

\* unregister removes the first collector of that name, if there is one.
DestroyUnregister(c) ==
    /\ pc[c] = "unregister"
    /\ collectors' = [collectors EXCEPT ![req[c].key] = IF @ > 0 THEN @ - 1 ELSE 0]
    /\ Return(c, "ok")
    /\ UNCHANGED <<sessions, created, heap, watcherVars>>

-----------------------------------------------------------------------------
(* update_watch *)

UpdateWatch(c, k, action) ==
    /\ Call(c, "get", [NoRequest EXCEPT !.key = k, !.action = action])
    /\ UNCHANGED <<serviceVars, watcherVars>>

UpdateGet(c) ==
    /\ pc[c] = "get" /\ MapReadable
    /\ \/ req[c].key \notin Present /\ Return(c, "notfound")
       \/ /\ req[c].key \in Present
          /\ inc' = [inc EXCEPT ![c] = sessions[req[c].key]]
          /\ Goto(c, "lock")
          /\ UNCHANGED <<req, cur, todo, scan>>
    /\ UNCHANGED <<serviceVars, watcherVars>>

\* Lock the session and test its state.
UpdateRefused(c) ==
    /\ pc[c] = "lock" /\ SessionFree(inc[c])
    /\ \/ req[c].action = "pause" /\ heap[inc[c]].paused
       \/ req[c].action = "resume" /\ (~heap[inc[c]].paused \/ heap[inc[c]].watcher = 0)
       \/ req[c].action = "unspecified"
    /\ Return(c, "failed")
    /\ UNCHANGED <<serviceVars, watcherVars>>

PauseWithoutWatcher(c) ==
    /\ pc[c] = "lock" /\ SessionFree(inc[c]) /\ req[c].action = "pause"
    /\ ~heap[inc[c]].paused /\ heap[inc[c]].watcher = 0
    /\ heap' = [heap EXCEPT ![inc[c]].paused = TRUE]
    /\ Return(c, "ok")
    /\ UNCHANGED <<sessions, created, collectors, watcherVars>>

UpdateLock(c) ==
    /\ pc[c] = "lock" /\ SessionFree(inc[c]) /\ heap[inc[c]].watcher # 0
    /\ \/ req[c].action = "pause" /\ ~heap[inc[c]].paused /\ Goto(c, "pauseWatcher")
       \/ req[c].action = "resume" /\ heap[inc[c]].paused /\ Goto(c, "resumeWatcher")
    /\ UNCHANGED <<serviceVars, watcherVars, req, localVars>>

\* Watcher::pause, under both mutexes.
PauseWatcher(c) ==
    /\ pc[c] = "pauseWatcher" /\ WatcherFree(heap[inc[c]].watcher)
    /\ running' = [running EXCEPT ![heap[inc[c]].watcher] = FALSE]
    /\ watched' = [watched EXCEPT ![heap[inc[c]].watcher] = FALSE]
    /\ heap' = [heap EXCEPT ![inc[c]].paused = TRUE]
    /\ Return(c, "ok")
    /\ UNCHANGED <<sessions, created, collectors, made, owner, task, queued>>

\* Watcher::resume adds the watches again and runs the event loop itself, under
\* both mutexes, ...
ResumeWatcher(c) ==
    /\ pc[c] = "resumeWatcher" /\ WatcherFree(heap[inc[c]].watcher)
    /\ \/ /\ Return(c, "failed")             \* inotify or one of the watches fails
          /\ \E some \in BOOLEAN : watched' = [watched EXCEPT ![heap[inc[c]].watcher] = some]
          /\ UNCHANGED running
       \/ /\ watched' = [watched EXCEPT ![heap[inc[c]].watcher] = TRUE]
          /\ running' = [running EXCEPT ![heap[inc[c]].watcher] = TRUE]
          /\ Goto(c, "resuming")
          /\ UNCHANGED <<req, localVars>>
    /\ UNCHANGED <<serviceVars, made, owner, task, queued>>

\* ... and the session counts as resumed when that loop ends.
ResumeEnds(c) ==
    /\ pc[c] = "resuming"
    /\ running[heap[inc[c]].watcher] => LoopErrors
    /\ \/ Return(c, "failed") /\ UNCHANGED heap
       \/ Return(c, "ok") /\ heap' = [heap EXCEPT ![inc[c]].paused = FALSE]
    /\ UNCHANGED <<sessions, created, collectors, watcherVars>>

-----------------------------------------------------------------------------
(* get_watch_state: visits the sessions under the map's read lock *)

GetWatchState(c) ==
    /\ Call(c, "scan", NoRequest)
    /\ UNCHANGED <<serviceVars, watcherVars>>

StatesOpen(c) ==
    /\ pc[c] = "scan" /\ MapReadable
    /\ scan' = [scan EXCEPT ![c] = {sessions[k] : k \in Present}]
    /\ Goto(c, "states")
    /\ UNCHANGED <<serviceVars, watcherVars, req, inc, cur, todo>>

StatesNext(c, i) ==
    /\ pc[c] = "states" /\ i \in scan[c] /\ SessionFree(i)
    /\ scan' = [scan EXCEPT ![c] = @ \ {i}]
    /\ answer' = NoAnswer
    /\ UNCHANGED <<serviceVars, watcherVars, pc, req, inc, cur, todo>>

StatesReply(c) ==
    /\ pc[c] = "states" /\ scan[c] = {}
    /\ Return(c, "ok")
    /\ UNCHANGED <<serviceVars, watcherVars>>

-----------------------------------------------------------------------------
(* The tasks of a watcher, and tonic *)

\* spawn_watcher_event_loop: lock the watcher for as long as the loop runs;
\* run_event_loop sets the flag whatever was done to it before.
LoopStart(w) ==
    /\ task[w] = "spawned" /\ WatcherFree(w)
    /\ task' = [task EXCEPT ![w] = "running"]
    /\ running' = [running EXCEPT ![w] = TRUE]
    /\ answer' = NoAnswer
    /\ UNCHANGED <<serviceVars, made, owner, watched, queued, clientVars>>

LoopEnds(w) ==
    /\ task[w] = "running"
    /\ running[w] => LoopErrors
    /\ task' = [task EXCEPT ![w] = "ended"]
    /\ answer' = NoAnswer
    /\ UNCHANGED <<serviceVars, made, owner, watched, running, queued, clientVars>>

\* The loop, or a resuming call, sends an event ...
LoopEvent(w) ==
    /\ ~WatcherFree(w) /\ watched[w] /\ queued[w] < ChannelSize
    /\ queued' = [queued EXCEPT ![w] = @ + 1]
    /\ answer' = NoAnswer
    /\ UNCHANGED <<serviceVars, made, owner, watched, running, task, clientVars>>

\* ... and the forwarding task locks the session to read what it broadcasts.
Forward(w) ==
    /\ queued[w] > 0 /\ SessionFree(owner[w])
    /\ queued' = [queued EXCEPT ![w] = @ - 1]
    /\ answer' = NoAnswer
    /\ UNCHANGED <<serviceVars, made, owner, watched, running, task, clientVars>>

\* The client gives up: tonic drops the handler at the await it is suspended
\* in, with the locks and the watcher it has.
Cancel(c) ==
    /\ c \in Cancellable /\ pc[c] # "idle"
    /\ watched' = [w \in Watchers |-> watched[w] /\ ~(pc[c] \in {"ready", "store"} /\ w = cur[c])]
    /\ Return(c, "cancelled")
    /\ UNCHANGED <<serviceVars, made, owner, running, task, queued>>

Handler(c) ==
    \/ CreateRegister(c) \/ CreateSkip(c) \/ CreateReply(c)
    \/ DestroyUnregister(c) \/ StatesReply(c) \/ ResumeEnds(c)
Locking(c) ==
    \/ CreateExists(c) \/ CreateInsert(c) \/ DestroyRemove(c) \/ UpdateGet(c) \/ StatesOpen(c)
    \/ CreateOpen(c) \/ CreateReady(c) \/ CreateStore(c)
    \/ DestroyStop(c) \/ DestroyClaim(c) \/ DestroyStopWatcher(c)
    \/ UpdateRefused(c) \/ PauseWithoutWatcher(c) \/ UpdateLock(c)
    \/ PauseWatcher(c) \/ ResumeWatcher(c)
    \/ \E i \in Incarnations : StatesNext(c, i)

Next ==
    \/ \E c \in Clients, k \in Keys :
         \/ \E paused \in BOOLEAN, n \in 0..MaxContainers : CreateWatch(c, k, paused, n)
         \/ \E a \in Actions : UpdateWatch(c, k, a)
         \/ DestroyWatch(c, k)
    \/ \E c \in Clients : GetWatchState(c) \/ Handler(c) \/ Locking(c) \/ Cancel(c)
    \/ \E w \in Watchers : LoopStart(w) \/ LoopEnds(w) \/ LoopEvent(w) \/ Forward(w)

Spec == Init /\ [][Next]_vars

\* tokio runs every task that can proceed, and its locks are granted in the
\* order they were asked for.
Fairness ==
    /\ \A c \in Clients : WF_vars(Handler(c)) /\ SF_vars(Locking(c))
    /\ \A w \in Watchers : SF_vars(LoopStart(w)) /\ SF_vars(Forward(w))

FairSpec == Spec /\ Fairness

-----------------------------------------------------------------------------
(* Properties *)

PhaseOf(s) ==
    CASE s \in Creating -> "creating"
      [] s \in Created -> "created"
      [] s = "remove" -> "removing"
      [] s \in Removed -> "removed"
      [] s \in Reading -> "reading"

Calls ==
    [c \in Clients |-> IF pc[c] = "idle" THEN [phase |-> "idle"]
                      ELSE [phase |-> PhaseOf(pc[c]), key |-> req[c].key]]

Registry == INSTANCE SessionRegistry WITH live <- Present, call <- Calls

\* However calls interleave, the service is a bounded registry of sessions: no
\* more than max_sessions, a session is never replaced, a create answers
\* AlreadyExists or ResourceExhausted only if that was so during the call, and
\* only calls that took effect answer Ok.
ImplementsRegistry == Registry!Spec

\* No session in the map is without its collector, although destroy_watch
\* unregisters by name, after others may have created the watch again.
MetricsCoverWatches ==
    \A k \in Present : collectors[k] > 0

\* A call waits for an event loop: for the mutex of a watcher its own loop
\* holds, or, resuming, for the end of the loop it runs itself.
BlockedByLoop(c) ==
    \/ pc[c] = "resuming"
    \/ /\ pc[c] \in {"pauseWatcher", "resumeWatcher", "stopWatcher"}
       /\ ~WatcherFree(heap[inc[c]].watcher)

\* Nobody waits on anybody for ever for any other reason: unless some call is
\* blocked by an event loop for good, every call returns and a loop whose
\* channel is full gets room again, whatever locks are held across awaits.
OnlyLoopsBlock ==
    <>[](\A c \in Clients : ~BlockedByLoop(c)) =>
        /\ \A c \in Clients : pc[c] # "idle" ~> pc[c] = "idle"
        /\ \A w \in Watchers : queued[w] = ChannelSize ~> queued[w] < ChannelSize
=============================================================================
