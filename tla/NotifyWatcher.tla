---------------------------- MODULE NotifyWatcher ----------------------------
(***************************************************************************)
(* The inotify watcher of argusd (notify.rs): registration of the watches  *)
(* of a configuration, proxy watches on the nearest ancestor of a path     *)
(* that does not exist, their promotion, move pairing, recovery from a     *)
(* queue overflow, pause and resume, and the watcher's counters            *)
(* (metrics.rs), against a file system that changes between any two system *)
(* calls and a kernel queue of bounded length.                             *)
(*                                                                         *)
(* A path is a sequence of names below the container's root <<>>.  What    *)
(* registration still has to do is an agenda, a stack of calls; the calls  *)
(* that look at the file system and the ones that add a watch are separate *)
(* items, as they are separate system calls.  A path's kind is fixed: it   *)
(* is a directory whenever it exists if it is in Dirs.                     *)
(***************************************************************************)
EXTENDS Naturals, Sequences, SequencesExt, FiniteSets

CONSTANTS
    Paths,         \* what may exist below the root
    Dirs,          \* the directories among them
    Config,        \* WatchConfig.paths with skip_if_missing, in order
    Flags,         \* events_to_flags(WatchConfig.events)
    Recursive,     \* WatchConfig.recursive
    MaxDepth,      \* WatchConfig.max_depth, 0 for none
    OwnPaths,      \* paths whose names also exist in the daemon's own root
    MaxWatches,    \* Watcher.max_watches
    MaxQueued,     \* fs.inotify.max_queued_events
    MoveTimeout,   \* MOVE_PAIR_TIMEOUT_MS, in ticks
    MaxChanges,    \* bound: changes of the file system
    MaxWd          \* bound: watch descriptors of one inotify instance

VARIABLES
    exists,        \* the paths that exist
    changes,       \* how many changes there have been
    onInode,       \* kernel: the watch on what is at a path, 0 for none
    mask,          \* kernel: the mask of each watch
    lastWd,        \* kernel: the last descriptor handed out
    queue,         \* kernel: events not read
    watches,       \* Watcher.watches: descriptor to path
    path_to_wd,    \* Watcher.path_to_wd
    proxy_watches, \* Watcher.proxy_watches: descriptor to targets
    pending,       \* MovePairTracker.pending: cookie to path and age
    running,       \* Watcher.running
    state,         \* Watcher.state
    pc,            \* where the task that owns the watcher is
    agenda,        \* what registration has to do yet
    batch,         \* events read and not dispatched
    open,          \* the channel's receiver is alive
    counters,      \* WatcherMetrics
    reported,      \* history: MovedFrom events sent, per cookie
    discarded,     \* history: pending moves thrown away by a clear
    excused,       \* history: targets whose watching is not owed
    leftover       \* history: a batch went on after the overflow in it

fsVars == <<exists, changes>>
kernelVars == <<onInode, mask, lastWd, queue>>
tableVars == <<watches, path_to_wd, proxy_watches>>
moveVars == <<pending, reported, discarded>>
loopVars == <<running, state, pc, agenda, batch>>
vars == <<fsVars, kernelVars, tableVars, moveVars, loopVars, open, counters, excused, leftover>>

Root == <<>>
Everywhere == Paths \cup {Root}
Parent(p) == Front(p)
Above(a, p) == IsStrictPrefix(a, p)
Exists(p) == p = Root \/ p \in exists
IsDir(p) == Exists(p) /\ (p = Root \/ p \in Dirs)
Children(d) == {p \in exists : Parent(p) = d}
ConfigPaths == {Config[i].path : i \in 1..Len(Config)}
Cookies == 1..MaxChanges
Zero == [active |-> 0, overflows |-> 0, matched |-> 0, timeouts |-> 0]

PutIn(f, k, v) == [x \in DOMAIN f \cup {k} |-> IF x = k THEN v ELSE f[x]]
Without(f, k) == [x \in DOMAIN f \ {k} |-> f[x]]

Event(kind, wd, name, cookie) ==
    [kind |-> kind, wd |-> wd, name |-> name, cookie |-> cookie]

TypeOK ==
    /\ exists \subseteq Paths /\ \A p \in exists : Exists(Parent(p))
    /\ changes \in 0..MaxChanges
    /\ onInode \in [Everywhere -> 0..MaxWd] /\ lastWd \in 0..MaxWd
    /\ DOMAIN mask \subseteq 1..lastWd
    /\ Len(queue) <= MaxQueued + 1
    /\ Cardinality(DOMAIN watches) <= MaxWatches
    /\ \A w \in DOMAIN watches : w \in 1..lastWd /\ watches[w] \in Everywhere
    /\ \A p \in DOMAIN path_to_wd : path_to_wd[p] \in 1..lastWd
    /\ \A w \in DOMAIN proxy_watches : w \in 1..lastWd /\ proxy_watches[w] # <<>>
    /\ DOMAIN pending \subseteq Cookies
    /\ running \in BOOLEAN /\ open \in BOOLEAN
    /\ state \in {"Running", "Paused", "Stopped"}
    /\ pc \in {"new", "register", "resume", "registered", "loop", "read", "dispatch", "promote",
               "process", "overflow", "paused", "stopped", "failed"}

\* Watcher::with_metrics; anything may exist.
Init ==
    /\ exists \in {s \in SUBSET Paths : \A p \in s : Parent(p) = Root \/ Parent(p) \in s}
    /\ changes = 0
    /\ onInode = [p \in Everywhere |-> 0] /\ mask = <<>> /\ lastWd = 0
    /\ queue = <<>>
    /\ watches = <<>> /\ path_to_wd = <<>> /\ proxy_watches = <<>>
    /\ pending = <<>> /\ reported = [c \in Cookies |-> 0] /\ discarded = {}
    /\ running = FALSE /\ state = "Stopped" /\ pc = "new"
    /\ agenda = <<>> /\ batch = <<>>
    /\ open = TRUE /\ counters = Zero /\ excused = {} /\ leftover = FALSE

-----------------------------------------------------------------------------
(* The file system and the kernel's half of inotify. *)

\* An event that finds the queue full leaves one overflow event behind.
Overflow == Event("overflow", 0, "", 0)
Enqueue(q, e) ==
    CASE Len(q) < MaxQueued -> Append(q, e)
      [] Len(q) >= MaxQueued /\ Contains(q, Overflow) -> q
      [] OTHER -> Append(q, Overflow)

\* What a change of kind k at path p tells the watch on its directory, ...
AtParent(k, p, cookie) ==
    LET w == onInode[Parent(p)] IN
    IF w > 0 /\ k \in mask[w] THEN <<Event(k, w, Last(p), cookie)>> ELSE <<>>
\* ... and its removal the watch on the path itself.
AtSelf(p) == IF onInode[p] > 0 THEN <<Event("ignored", onInode[p], "", 0)>> ELSE <<>>

Change(evs) ==
    /\ changes < MaxChanges /\ changes' = changes + 1
    /\ queue' = FoldLeft(Enqueue, queue, evs)
    /\ UNCHANGED <<lastWd, tableVars, moveVars, loopVars, open, counters, leftover>>

Under(p) == {t \in ConfigPaths : t = p \/ Above(p, t)}
\* The target of the watch about to be added: its look-up is behind it.
Undecided == IF agenda # <<>> /\ Head(agenda).do = "watch" THEN {Head(agenda).target} ELSE {}

Appear(p, how) ==
    /\ ~Exists(p) /\ IsDir(Parent(p))
    /\ exists' = exists \cup {p}
    /\ Change(AtParent(how, p, changes + 1))
    /\ excused' = excused \cup (Under(p) \cap Undecided)
    /\ UNCHANGED <<onInode, mask>>

Vanish(p, how) ==
    /\ p \in exists /\ Children(p) = {}
    /\ exists' = exists \ {p}
    /\ Change(AtParent(how, p, changes + 1) \o (IF how = "delete" THEN AtSelf(p) ELSE <<>>))
    /\ onInode' = [onInode EXCEPT ![p] = 0]
    /\ mask' = IF how = "delete" THEN Without(mask, onInode[p]) ELSE mask
    /\ excused' = excused \cup Under(p)

\* A watch stays with what it watches.
Rename(p, q) ==
    /\ p \in exists /\ Children(p) = {} /\ ~Exists(q) /\ IsDir(Parent(q))
    /\ ~Above(p, q) /\ (p \in Dirs <=> q \in Dirs)
    /\ exists' = (exists \ {p}) \cup {q}
    /\ Change(AtParent("moved_from", p, changes + 1) \o AtParent("moved_to", q, changes + 1))
    /\ onInode' = [onInode EXCEPT ![p] = 0, ![q] = onInode[p]]
    /\ excused' = excused \cup Under(p) \cup (Under(q) \cap Undecided)
    /\ UNCHANGED mask

-----------------------------------------------------------------------------
(* add_watch *)

FullLate == Cardinality(DOMAIN watches) > MaxWatches
Full == Cardinality(DOMAIN watches) >= MaxWatches

\* inotify_add_watch gives a watched inode its old descriptor and replaces
\* the mask; a new inode gets the next descriptor.
Descriptor(p) == IF onInode[p] > 0 THEN onInode[p] ELSE lastWd + 1

AddWatch(p, flags) ==
    LET w == Descriptor(p) IN
    /\ w <= MaxWd
    /\ ~Full /\ Exists(p)
    /\ onInode' = [onInode EXCEPT ![p] = w]
    /\ lastWd' = IF w > lastWd THEN w ELSE lastWd
    /\ mask' = PutIn(mask, w, flags)
    /\ watches' = PutIn(watches, w, p)
    /\ path_to_wd' = PutIn(path_to_wd, p, w)
    /\ counters' = [counters EXCEPT !.active = @ + 1]
    /\ UNCHANGED queue

NoWatch == UNCHANGED <<kernelVars, watches, path_to_wd, counters>>

-----------------------------------------------------------------------------
(* Registration: the agenda. *)

PathItem(c) == [do |-> "path", target |-> c.path, skip |-> c.skip]
PromoteItem(t, anc, name) == [do |-> "promote", target |-> t, anc |-> anc, name |-> name]
WatchItem(p, t) == [do |-> "watch", path |-> p, target |-> t]
TreeItem(d, depth) == [do |-> "tree", dir |-> d, depth |-> depth]
EntriesItem(left, depth) == [do |-> "entries", left |-> left, depth |-> depth]

\* A target awaited at an ancestor, and the name that brings it closer.
ProxyTarget(t, anc) == [target |-> t, child |-> t[Len(anc) + 1]]

WholeConfig == [i \in 1..Len(Config) |-> PathItem(Config[i])]
TreeOf(t) == IF Recursive THEN <<TreeItem(t, 0)>> ELSE <<>>
Registering == pc \in {"register", "resume", "overflow", "promote"}
Do(what) == Registering /\ agenda # <<>> /\ Head(agenda).do = what
Then(items) == agenda' = items \o Tail(agenda)

\* The rest of the agenda from the next configured path or promotion on.
NextJob ==
    LET starts == {i \in 2..Len(agenda) : agenda[i].do \in {"path", "promote"}} IN
    IF starts = {} THEN <<>> ELSE SubSeq(agenda, Min(starts), Len(agenda))

Targets(items) == {items[i].target : i \in {j \in 1..Len(items) : "target" \in DOMAIN items[j]}}

NearestAncestor(t) ==
    CHOOSE a \in Everywhere : /\ Above(a, t) /\ IsDir(a)
                              /\ \A b \in Everywhere : Above(b, t) /\ IsDir(b) => Len(b) <= Len(a)

\* add_watch_for_path and add_watch_or_proxy, up to the choice of what to watch.
LookUp ==
    LET t == Head(agenda).target IN
    /\ Do("path")
    /\ \/ /\ Exists(t) /\ Then(<<WatchItem(t, t)>> \o TreeOf(t))
          /\ UNCHANGED excused
       \/ /\ ~Exists(t) /\ Head(agenda).skip
          /\ Then(TreeOf(t)) /\ excused' = excused \cup {t}
       \/ /\ ~Exists(t) /\ ~Head(agenda).skip
          /\ Then(<<WatchItem(NearestAncestor(t), t)>> \o TreeOf(t))
          /\ UNCHANGED excused
    /\ UNCHANGED <<fsVars, kernelVars, tableVars, moveVars, running, state, pc, batch, open, counters, leftover>>

\* check_proxy_promotion, up to the choice of what to watch.  The ancestor's
\* path is canonical: below /proc/PID/root it loses that prefix where the
\* daemon's own root has the same names, and is then no prefix of the target.
Promote ==
    LET i == Head(agenda)
        child == Append(i.anc, i.name)
        advances == IsDir(child) /\ i.anc \notin OwnPaths /\ Above(child, i.target)
    IN
    /\ Do("promote")
    /\ \/ Exists(i.target) /\ Then(<<WatchItem(i.target, i.target)>> \o TreeOf(i.target))
       \/ ~Exists(i.target) /\ advances /\ Then(<<WatchItem(child, i.target)>>)
       \/ ~Exists(i.target) /\ ~advances /\ Then(<<>>)
    /\ UNCHANGED <<fsVars, kernelVars, tableVars, moveVars, running, state, pc, batch, open, counters, excused, leftover>>

AddTargetReplacing ==
    LET i == Head(agenda)
        proxied == i.path # i.target
        w == Descriptor(i.path)
        proxy == ProxyTarget(i.target, i.path)
    IN
    /\ Do("watch")
    /\ AddWatch(i.path, IF proxied THEN Flags \cup {"create", "moved_to"} ELSE Flags)
    /\ proxy_watches' =
         IF ~proxied THEN proxy_watches
         ELSE PutIn(proxy_watches, w, <<proxy>>)
    /\ Then(<<>>)
    /\ UNCHANGED <<fsVars, moveVars, running, state, pc, batch, open, excused, leftover>>

\* The watch on the target, or on the directory it is expected to appear in.
AddTarget ==
    LET i == Head(agenda)
        proxied == i.path # i.target
        w == Descriptor(i.path)
        proxy == ProxyTarget(i.target, i.path)
    IN
    /\ Do("watch")
    /\ AddWatch(i.path, IF proxied THEN Flags \cup {"create", "moved_to"} ELSE Flags)
    /\ proxy_watches' =
         IF ~proxied THEN proxy_watches
         ELSE PutIn(proxy_watches, w,
                IF w \in DOMAIN proxy_watches THEN Append(proxy_watches[w], proxy) ELSE <<proxy>>)
    /\ Then(<<>>)
    /\ UNCHANGED <<fsVars, moveVars, running, state, pc, batch, open, excused, leftover>>

\* That add_watch fails: the first registration ends there with an error, the
\* one after an overflow goes on, and a promotion drops its target.
TargetFails ==
    /\ Do("watch")
    /\ Full \/ ~Exists(Head(agenda).path)
    /\ NoWatch
    /\ agenda' = CASE pc \in {"register", "resume"} -> <<>>
                   [] pc = "overflow" -> Tail(agenda)
                   [] pc = "promote" -> NextJob
    /\ excused' = excused \cup (IF pc \in {"register", "resume"} THEN Targets(agenda)
                                ELSE {Head(agenda).target})
    /\ pc' = CASE pc = "register" -> "registered"
               [] pc = "resume" -> "stopped"
               [] OTHER -> pc
    /\ UNCHANGED <<fsVars, proxy_watches, moveVars, running, state, batch, open, leftover>>

\* add_recursive_watches: read a directory that is there and not too deep, ...
ReadDir ==
    LET i == Head(agenda)
        listed == IsDir(i.dir) /\ (MaxDepth = 0 \/ i.depth < MaxDepth)
    IN
    /\ Do("tree")
    /\ Then(IF listed THEN <<EntriesItem(Children(i.dir), i.depth)>> ELSE <<>>)
    /\ UNCHANGED <<fsVars, kernelVars, tableVars, moveVars, running, state, pc, batch, open, counters, excused, leftover>>

\* ... and watch and descend into each entry that is still a directory.
AddEntry ==
    LET i == Head(agenda) IN
    /\ Do("entries")
    /\ \/ i.left = {} /\ Then(<<>>) /\ NoWatch
       \/ \E p \in i.left :
            LET rest == EntriesItem(i.left \ {p}, i.depth) IN
            \/ ~IsDir(p) /\ Then(<<rest>>) /\ NoWatch
            \/ IsDir(p) /\ AddWatch(p, Flags) /\ Then(<<TreeItem(p, i.depth + 1), rest>>)
    /\ UNCHANGED <<fsVars, proxy_watches, moveVars, running, state, pc, batch, open, excused, leftover>>

\* A limit stops the recursion: an error for the first registration, nothing
\* for the others.
EntryFails ==
    /\ Do("entries") /\ Full /\ \E p \in Head(agenda).left : IsDir(p)
    /\ NoWatch
    /\ agenda' = IF pc \in {"register", "resume"} THEN <<>> ELSE NextJob
    /\ excused' = excused \cup (IF pc \in {"register", "resume"} THEN Targets(agenda) ELSE {})
    /\ pc' = CASE pc = "register" -> "registered"
               [] pc = "resume" -> "stopped"
               [] OTHER -> pc
    /\ UNCHANGED <<fsVars, proxy_watches, moveVars, running, state, batch, open, leftover>>

Discard ==
    /\ pending' = <<>>
    /\ discarded' = discarded \cup DOMAIN pending
    /\ UNCHANGED reported

\* A new inotify instance: the kernel forgets the watches and the queue.
Reinitialize ==
    /\ onInode' = [p \in Everywhere |-> 0] /\ mask' = <<>> /\ lastWd' = 0 /\ queue' = <<>>

ClearTables == watches' = <<>> /\ path_to_wd' = <<>> /\ proxy_watches' = <<>>

\* add_watches, called once with the configuration.
AddWatches ==
    /\ pc = "new" /\ pc' = "register"
    /\ agenda' = WholeConfig
    /\ UNCHANGED <<fsVars, kernelVars, tableVars, moveVars, running, state, batch, open, counters, excused, leftover>>

\* The end of add_watches and of the registration in watch: the gauge is set,
\* and watch goes on into its loop.
Registered ==
    /\ pc \in {"register", "resume"} /\ agenda = <<>>
    /\ counters' = [counters EXCEPT !.active = Cardinality(DOMAIN watches)]
    /\ \/ pc = "register" /\ pc' = "registered" /\ UNCHANGED <<running, state>>
       \/ pc = "resume" /\ pc' = "loop" /\ running' = TRUE /\ state' = "Running"
    /\ UNCHANGED <<fsVars, kernelVars, tableVars, moveVars, agenda, batch, open, excused, leftover>>

\* run_event_loop: the spawned task gets the watcher's lock, paused or not.
RunEventLoop ==
    /\ pc \in {"registered", "paused"} /\ ~running
    /\ pc' = "loop" /\ running' = TRUE /\ state' = "Running"
    /\ UNCHANGED <<fsVars, kernelVars, tableVars, moveVars, agenda, batch, open, counters, excused, leftover>>

\* pause, by a call that has the lock: every watch is removed.  What was read
\* belongs to a loop that is over.
Pause ==
    /\ pc \in {"registered", "stopped"}
    /\ running' = FALSE /\ state' = "Paused" /\ pc' = "paused"
    /\ onInode' = [p \in Everywhere |-> 0] /\ mask' = <<>>
    /\ queue' = FoldLeft(Enqueue, queue,
                  SetToSeq({Event("ignored", w, "", 0) : w \in DOMAIN watches \cap DOMAIN mask}))
    /\ ClearTables /\ Discard
    /\ excused' = ConfigPaths
    /\ UNCHANGED <<fsVars, lastWd, agenda, batch, open, counters, leftover>>

\* resume: a new instance, and watch with the stored configuration.
Resume ==
    /\ pc = "paused" /\ pc' = "resume"
    /\ Reinitialize
    /\ agenda' = WholeConfig /\ excused' = {} /\ leftover' = FALSE
    /\ UNCHANGED <<fsVars, tableVars, moveVars, running, state, batch, open, counters>>

-----------------------------------------------------------------------------
(* event_loop_inner *)

Expired == {c \in DOMAIN pending : pending[c].age > MoveTimeout}

EmitExpiredMovesKeeping ==
    /\ pc = "loop" /\ running /\ (open \/ Expired = {})
    /\ UNCHANGED pending
    /\ reported' = [c \in Cookies |-> IF c \in Expired THEN reported[c] + 1 ELSE reported[c]]
    /\ counters' = [counters EXCEPT !.timeouts = @ + Cardinality(Expired)]
    /\ pc' = "read"
    /\ UNCHANGED <<fsVars, kernelVars, tableVars, discarded, running, state, agenda, batch, open, excused, leftover>>

\* drain_expired takes the expired moves out, emit_expired_moves sends them.
EmitExpiredMoves ==
    /\ pc = "loop" /\ running /\ (open \/ Expired = {})
    /\ pending' = [c \in DOMAIN pending \ Expired |-> pending[c]]
    /\ reported' = [c \in Cookies |-> IF c \in Expired THEN reported[c] + 1 ELSE reported[c]]
    /\ counters' = [counters EXCEPT !.timeouts = @ + Cardinality(Expired)]
    /\ pc' = "read"
    /\ UNCHANGED <<fsVars, kernelVars, tableVars, discarded, running, state, agenda, batch, open, excused, leftover>>

\* The channel is closed: the loop ends with an error, its state unchanged,
\* and the expired moves are gone, one of them counted.
ExpiredMovesFail ==
    /\ pc = "loop" /\ running /\ ~open /\ Expired # {}
    /\ pending' = [c \in DOMAIN pending \ Expired |-> pending[c]]
    /\ discarded' = discarded \cup Expired
    /\ counters' = [counters EXCEPT !.timeouts = @ + 1]
    /\ pc' = "failed"
    /\ UNCHANGED <<fsVars, kernelVars, tableVars, reported, running, state, agenda, batch, open, excused, leftover>>

ReadNothingAgain ==
    /\ pc = "read" /\ queue = <<>> /\ pc' = "read"
    /\ UNCHANGED <<fsVars, kernelVars, tableVars, moveVars, running, state, agenda, batch, open, counters, excused, leftover>>

\* read_events: nothing there (or an error, which is counted), ...
ReadNothing ==
    /\ pc = "read" /\ queue = <<>> /\ pc' = "loop"
    /\ UNCHANGED <<fsVars, kernelVars, tableVars, moveVars, running, state, agenda, batch, open, counters, excused, leftover>>

\* ... or as many events as the buffer holds.
ReadEvents ==
    /\ pc = "read" /\ queue # <<>> /\ pc' = "dispatch"
    /\ \E n \in 1..Len(queue) :
         /\ batch' = SubSeq(queue, 1, n)
         /\ queue' = SubSeq(queue, n + 1, Len(queue))
    /\ UNCHANGED <<fsVars, onInode, mask, lastWd, tableVars, moveVars, running, state, agenda, open, counters, excused, leftover>>

BatchDone ==
    /\ pc = "dispatch" /\ batch = <<>> /\ pc' = "loop"
    /\ UNCHANGED <<fsVars, kernelVars, tableVars, moveVars, running, state, agenda, batch, open, counters, excused, leftover>>

\* The events that are about a name, by the type mask_to_event_type gives them.
Regular == {"create", "delete", "moved_from", "moved_to"}

Dispatching(kinds) == pc = "dispatch" /\ batch # <<>> /\ Head(batch).kind \in kinds

\* handle_overflow, up to the new registration.
HandleOverflow ==
    /\ Dispatching({"overflow"})
    /\ Reinitialize /\ ClearTables /\ Discard
    /\ counters' = [counters EXCEPT !.overflows = @ + 1]
    /\ pc' = "overflow" /\ agenda' = WholeConfig /\ batch' = Tail(batch)
    /\ excused' = {} /\ leftover' = (Tail(batch) # <<>>)
    /\ UNCHANGED <<fsVars, running, state, open>>

\* No descriptor for a new instance: the loop ends with an error.
OverflowFails ==
    /\ Dispatching({"overflow"}) /\ pc' = "failed"
    /\ counters' = [counters EXCEPT !.overflows = @ + 1]
    /\ UNCHANGED <<fsVars, kernelVars, tableVars, moveVars, running, state, agenda, batch, open, excused, leftover>>

OverflowHandled ==
    /\ pc = "overflow" /\ agenda = <<>> /\ pc' = "dispatch"
    /\ counters' = [counters EXCEPT !.active = Cardinality(DOMAIN watches)]
    /\ UNCHANGED <<fsVars, kernelVars, tableVars, moveVars, running, state, agenda, batch, open, excused, leftover>>

HandleWatchRemovedCounted ==
    LET w == Head(batch).wd IN
    /\ Dispatching({"ignored"})
    /\ watches' = Without(watches, w)
    /\ path_to_wd' = IF w \in DOMAIN watches THEN Without(path_to_wd, watches[w]) ELSE path_to_wd
    /\ counters' = [counters EXCEPT !.active = @ - 1]
    /\ batch' = Tail(batch)
    /\ UNCHANGED <<fsVars, kernelVars, proxy_watches, moveVars, running, state, pc, agenda, open, excused, leftover>>

\* The counter is decremented only for a watch that was in the table.
HandleWatchRemoved ==
    LET w == Head(batch).wd IN
    /\ Dispatching({"ignored"})
    /\ watches' = Without(watches, w)
    /\ path_to_wd' = IF w \in DOMAIN watches THEN Without(path_to_wd, watches[w]) ELSE path_to_wd
    /\ counters' = IF w \in DOMAIN watches THEN [counters EXCEPT !.active = @ - 1] ELSE counters
    /\ batch' = Tail(batch)
    /\ UNCHANGED <<fsVars, kernelVars, proxy_watches, moveVars, running, state, pc, agenda, open, excused, leftover>>

\* check_proxy_promotion: the proxies waiting for this name leave the table.
CheckProxyPromotion ==
    LET e == Head(batch)
        proxies == IF e.wd \in DOMAIN proxy_watches /\ e.kind \in {"create", "moved_to"}
                   THEN proxy_watches[e.wd] ELSE <<>>
        Waiting(x) == x.child = e.name
        Other(x) == x.child # e.name
        anc == IF e.wd \in DOMAIN watches THEN watches[e.wd] ELSE <<"unknown">>
        promoted == SelectSeq(proxies, Waiting)
        left == SelectSeq(proxies, Other)
    IN
    /\ Dispatching(Regular)
    /\ proxy_watches' = IF promoted = <<>> THEN proxy_watches
                        ELSE IF left = <<>> THEN Without(proxy_watches, e.wd)
                        ELSE PutIn(proxy_watches, e.wd, left)
    /\ agenda' = [i \in 1..Len(promoted) |-> PromoteItem(promoted[i].target, anc, e.name)]
    /\ pc' = "promote"
    /\ UNCHANGED <<fsVars, kernelVars, watches, path_to_wd, moveVars, running, state, batch, open, counters, excused, leftover>>

Promoted ==
    /\ pc = "promote" /\ agenda = <<>> /\ pc' = "process"
    /\ UNCHANGED <<fsVars, kernelVars, tableVars, moveVars, running, state, agenda, batch, open, counters, excused, leftover>>

\* Sending to a closed channel ends the loop.
Sent ==
    /\ batch' = IF open THEN Tail(batch) ELSE <<>>
    /\ pc' = IF open THEN "dispatch" ELSE "stopped"
    /\ running' = open /\ state' = IF open THEN state ELSE "Stopped"
Unsent == batch' = Tail(batch) /\ pc' = "dispatch" /\ UNCHANGED <<running, state>>

RecordMovedFrom(cookie, path) ==
    pending' = PutIn(pending, cookie, [path |-> path, age |-> 0])
MatchMovedTo(cookie) == pending' = Without(pending, cookie)

\* process_event and the sends of dispatch_single_event.
ProcessEvent ==
    LET e == Head(batch)
        known == e.wd \in DOMAIN watches
        paired == e.kind = "moved_to" /\ e.cookie \in DOMAIN pending
    IN
    /\ pc = "process"
    /\ \/ /\ ~known /\ Unsent /\ UNCHANGED <<moveVars, counters>>
       \/ /\ known /\ e.kind = "moved_from" /\ Unsent
          /\ RecordMovedFrom(e.cookie, Append(watches[e.wd], e.name))
          /\ UNCHANGED <<reported, discarded, counters>>
       \/ /\ known /\ paired /\ Sent
          /\ MatchMovedTo(e.cookie)
          /\ reported' = [reported EXCEPT ![e.cookie] = IF open THEN @ + 1 ELSE @]
          /\ discarded' = IF open THEN discarded ELSE discarded \cup {e.cookie}
          /\ counters' = [counters EXCEPT !.matched = @ + 1]
       \/ /\ known /\ ~paired /\ e.kind # "moved_from" /\ Sent
          /\ UNCHANGED <<moveVars, counters>>
    /\ UNCHANGED <<fsVars, kernelVars, tableVars, agenda, open, excused, leftover>>

-----------------------------------------------------------------------------

\* The receiver of the channel goes away.
CloseChannel ==
    /\ open /\ open' = FALSE
    /\ UNCHANGED <<fsVars, kernelVars, tableVars, moveVars, loopVars, counters, excused, leftover>>

Tick ==
    /\ \E c \in DOMAIN pending : pending[c].age <= MoveTimeout
    /\ pending' = [c \in DOMAIN pending |->
                     [pending[c] EXCEPT !.age = IF @ > MoveTimeout THEN @ ELSE @ + 1]]
    /\ UNCHANGED <<fsVars, kernelVars, tableVars, reported, discarded, loopVars, open, counters, excused, leftover>>

FileSystem ==
    \/ \E p \in Paths, how \in {"create", "moved_to"} : Appear(p, how)
    \/ \E p \in Paths, how \in {"delete", "moved_from"} : Vanish(p, how)
    \/ \E p, q \in Paths : Rename(p, q)
Registration == LookUp \/ Promote \/ AddTarget \/ TargetFails \/ ReadDir \/ AddEntry \/ EntryFails
Loop ==
    \/ EmitExpiredMoves \/ ExpiredMovesFail \/ ReadNothing \/ ReadEvents \/ BatchDone
    \/ HandleOverflow \/ OverflowHandled \/ HandleWatchRemoved
    \/ CheckProxyPromotion \/ Promoted \/ ProcessEvent
Calls == AddWatches \/ Registered \/ RunEventLoop \/ Pause \/ Resume

Next == FileSystem \/ Registration \/ Loop \/ Calls \/ OverflowFails \/ CloseChannel \/ Tick
Spec == Init /\ [][Next]_vars

\* A task that can run is polled, and time passes.
FairSpec == Spec /\ WF_vars(Registration \/ Loop) /\ WF_vars(Tick)

-----------------------------------------------------------------------------
(* Properties *)

Quiet == pc \in {"loop", "read"} /\ running /\ queue = <<>> /\ batch = <<>>
DirectlyWatched(t) == onInode[t] \in DOMAIN watches
Awaited(t) ==
    LET a == NearestAncestor(t)
        w == onInode[a]
    IN  /\ w \in DOMAIN proxy_watches /\ {"create", "moved_to"} \subseteq mask[w]
        /\ Contains(proxy_watches[w], ProxyTarget(t, a))

Followed ==
    Quiet => \A t \in ConfigPaths \ excused :
               IF Exists(t) THEN DirectlyWatched(t) ELSE Awaited(t)

\* Once every event has been handled, a configured path that exists is watched
\* itself, and one that does not is awaited at its nearest ancestor: through
\* creations at any level, promotions, overflows and resumes.  Not owed are
\* targets that vanished, that appeared between the look and the watch, or
\* whose watch could not be added, and any after a batch that went on beyond
\* an overflow.
TargetsFollowed == leftover \/ Followed

\* The gauge of active watches is never below the number of watches held, and
\* so never wraps below zero.
GaugeCoversWatches ==
    pc \notin {"register", "resume"} => counters.active >= Cardinality(DOMAIN watches)

\* The first half of a move is reported at most once.
MovesReportedOnce ==
    \A c \in Cookies :
        reported[c] <= 1 /\ (reported[c] = 1 => c \notin DOMAIN pending \cup discarded)

Settled == pending = <<>> \/ pc \in {"failed", "stopped"}

\* No move waits for its second half for ever: while the loop runs it is
\* reported, paired or alone, or thrown away with the instance it came from.
PendingMovesSettle == []<>Settled
=============================================================================
