----------------------------- MODULE MCPipelines -----------------------------
(* The two event loops on kernel queues, one per scene: the guard of janusd   *)
(* on fanotify, where secret is denied and other matches no pattern, and the  *)
(* watcher of argusd on inotify, where d/t is expected in d, t may hold s and *)
(* x, which never exists, is skipped.                                         *)
EXTENDS GuardPipeline

CONSTANTS secret, other, MaxWatches, MaxQueued, MaxChanges, MaxWd

VARIABLES
    scene,
    exists, changes, onInode, mask, lastWd, unread, watches, path_to_wd, proxy_watches, pending,
    running, state, at, agenda, toDispatch, open, counters, movesReported, discarded, excused,
    leftover

MCKeys == {secret, other}
MCDeny == {secret}

Watched == {<<"d">>, <<"d", "t">>, <<"t">>, <<"t", "s">>}

N == INSTANCE NotifyWatcher WITH
    Paths <- Watched, Dirs <- Watched,
    Config <- <<[path |-> <<"d", "t">>, skip |-> FALSE], [path |-> <<"t">>, skip |-> FALSE],
                [path |-> <<"x">>, skip |-> TRUE]>>,
    Flags <- {"delete", "moved_from"}, Recursive <- TRUE, MaxDepth <- 1, OwnPaths <- {},
    MoveTimeout <- 0,
    queue <- unread, pc <- at, batch <- toDispatch, reported <- movesReported

watcherVars == <<exists, changes, onInode, mask, lastWd, unread, watches, path_to_wd,
                 proxy_watches, pending, running, state, at, agenda, toDispatch, open, counters,
                 movesReported, discarded, excused, leftover>>

MCInit ==
    /\ scene \in {"fanotify", "inotify"}
    /\ Init
    /\ IF scene = "inotify" THEN exists = {} /\ N!Init
       ELSE /\ exists = 0 /\ changes = 0 /\ onInode = 0 /\ mask = 0 /\ lastWd = 0 /\ unread = 0
            /\ watches = 0 /\ path_to_wd = 0 /\ proxy_watches = 0 /\ pending = 0 /\ running = 0
            /\ state = 0 /\ at = 0 /\ agenda = 0 /\ toDispatch = 0 /\ open = 0 /\ counters = 0
            /\ movesReported = 0 /\ discarded = 0 /\ excused = 0 /\ leftover = 0

MCNext ==
    /\ scene' = scene
    /\ \/ scene = "fanotify" /\ Next /\ UNCHANGED watcherVars
       \/ scene = "inotify" /\ N!Next /\ UNCHANGED vars

MCSpec ==
    /\ MCInit /\ [][MCNext]_<<scene, vars, watcherVars>>
    /\ WF_vars(scene = "fanotify" /\ GuardLoop) /\ WF_vars(scene = "fanotify" /\ Forward)
    /\ WF_watcherVars(scene = "inotify" /\ (N!Registration \/ N!Loop))
    /\ WF_watcherVars(scene = "inotify" /\ N!Tick)

-----------------------------------------------------------------------------
(* Properties of the watcher, stated in its module                           *)

\* The types of both loops, their buffers' and the watcher's limit included.
TypesOK == TypeOK /\ (scene = "inotify" => N!TypeOK)

\* A target that exists is watched, and one that does not is waited for; the
\* gauge of watches is never below the watches there are (add_watch,
\* check_proxy_promotion, handle_watch_removed).
TargetsFollowed == scene = "inotify" => N!TargetsFollowed /\ N!GaugeCoversWatches

\* No move is reported twice (emit_expired_moves).
MovesReportedOnce == scene = "inotify" => N!MovesReportedOnce

\* Every half of a move is reported, matched or thrown away in the end
\* (run_event_loop).
PendingMovesSettle == []<>(scene = "inotify" => N!Settled)
=============================================================================
