------------------------------ MODULE MCParts ------------------------------
(* The parts of a daemon that work on their own, one per scene: the policy   *)
(* evaluator, the counters of a session, the records of accesses, the hooks  *)
(* of the kernel programs, the resolution of containers and the start of     *)
(* the process.  The variables of the parts that are not on stage are idle.  *)
EXTENDS PolicyEvaluator, TLC

CONSTANTS Tasks, Recorders, None, NoFile

VARIABLES
    scene,
    collector, counters, types, doing, recording, snap, started, finished,
    process, name, logger, sequence, pc, event, info, events, drawn, records, streamed, dropped,
    enabled, prefixes, deny_paths, buffer, filled, verdict,
    service, sockets, runtime, life, pid, file, at, asked, todo, session, target, owner,
    daemon, config, hostIs, step, mode, audit, loaded

Metrics == INSTANCE EventMetrics WITH Daemons <- {"argusd", "janusd"}, MaxEvents <- 2

\* Two tasks and one pid, of a process whose name looks like the end of one.
Records == INSTANCE AccessRecords WITH
    Pids <- {1}, Comms <- {<<")", " ", "(">>}, MaxProcesses <- 2, MaxEvents <- 2, SeqLimit <- 2

\* Files of up to three names, of one letter and of three, the last cut off.
FileNames == {<<2>>, <<3, 4, 5>>}
Filter == INSTANCE KernelFilter WITH
    MAX_PATH_LEN <- 5, MAX_DEPTH <- 2, MAX_NAME <- 2, PREFIX_KEY_LEN <- 4, PrefixLens <- {4, 2},
    Names <- FileNames, Files <- UNION {[1..n -> FileNames] : n \in 0..3},
    Listed <- {<<1, 2>>, <<1, 2, 1, 2>>, <<1, 2, 1>>}

\* Two runtimes that know the same ID, and an ID that is refused.
Targets == INSTANCE ContainerTargets WITH
    Containers <- {[runtime |-> "containerd", id |-> "a"], [runtime |-> "cri-o", id |-> "a"],
                   [runtime |-> "containerd", id |-> "?"]},
    BadIds <- {"?"}, Pids <- {1, 2}, Services <- {"argusd", "argusd_ebpf", "janusd", "janusd_ebpf"}

\* Words of eight bits.
Start == INSTANCE DaemonStart WITH
    Kernels <- {<<>>, <<5, 6>>, <<5, 7>>, <<6, 1>>}, FdLimits <- {100, 255},
    Configured <- {1, 3, 250}, PerGuard <- 100, WordLimit <- 256,
    Margin <- [d \in {"argusd", "janusd"} |-> IF d = "argusd" THEN 10 ELSE 40]

metricsVars == <<collector, counters, types, doing, recording, snap, started, finished>>
recordsVars == <<process, name, logger, sequence, pc, event, info, events, drawn, records,
                 streamed, dropped>>
filterVars == <<enabled, prefixes, deny_paths, buffer, filled, verdict>>
targetsVars == <<service, sockets, runtime, life, pid, file, at, asked, todo, session, target,
                 owner>>
startVars == <<daemon, config, hostIs, step, mode, audit, loaded>>

MCInit ==
    /\ scene \in {"policy", "metrics", "records", "filter", "targets", "start"}
    /\ policy \in IF scene = "policy" THEN Policies ELSE {CHOOSE p \in Policies : TRUE}
    /\ Init
    /\ IF scene = "metrics" THEN Metrics!Init
       ELSE /\ collector = 0 /\ counters = 0 /\ types = 0 /\ doing = 0 /\ recording = 0
            /\ snap = 0 /\ started = 0 /\ finished = 0
    /\ IF scene = "records" THEN Records!Init
       ELSE /\ process = 0 /\ name = 0 /\ logger = 0 /\ sequence = 0 /\ pc = 0
            /\ event = 0 /\ info = 0 /\ events = 0 /\ drawn = 0 /\ records = 0
            /\ streamed = 0 /\ dropped = 0
    /\ IF scene = "filter" THEN Filter!Init
       ELSE /\ enabled = 0 /\ prefixes = 0 /\ deny_paths = 0 /\ buffer = 0 /\ filled = 0
            /\ verdict = 0
    /\ IF scene = "targets" THEN Targets!Init
       ELSE /\ service = 0 /\ sockets = 0 /\ runtime = 0 /\ life = 0 /\ pid = 0
            /\ file = 0 /\ at = 0 /\ asked = 0 /\ todo = 0 /\ session = 0 /\ target = 0
            /\ owner = 0
    /\ IF scene = "start" THEN Start!Init
       ELSE /\ daemon = 0 /\ config = 0 /\ hostIs = 0 /\ step = 0 /\ mode = 0 /\ audit = 0
            /\ loaded = 0

MCNext ==
    /\ scene' = scene
    /\ IF scene = "policy" THEN Next ELSE UNCHANGED vars
    /\ IF scene = "metrics" THEN Metrics!Next ELSE UNCHANGED metricsVars
    /\ IF scene = "records" THEN Records!Next ELSE UNCHANGED recordsVars
    /\ IF scene = "filter" THEN Filter!Next ELSE UNCHANGED filterVars
    /\ IF scene = "targets" THEN Targets!Next ELSE UNCHANGED targetsVars
    /\ IF scene = "start" THEN Start!Next ELSE UNCHANGED startVars

MCSpec ==
    MCInit /\ [][MCNext]_<<scene, vars, metricsVars, recordsVars, filterVars, targetsVars,
                           startVars>>

-----------------------------------------------------------------------------
(* Properties of the parts, stated in their modules                          *)

\* The types of the parts.
TypesOK ==
    CASE scene = "policy" -> TypeOK [] scene = "metrics" -> Metrics!TypeOK
      [] scene = "records" -> Records!TypeOK [] scene = "filter" -> Filter!TypeOK
      [] scene = "targets" -> Targets!TypeOK [] scene = "start" -> Start!TypeOK

\* No event is lost or counted twice by the loops of a watch, and a snapshot has
\* all recordings that ended before it and none that began after it
\* (record_event_typed, DaemonMetrics::snapshot).
CountersExact == scene = "metrics" => Metrics!CountsSettle /\ Metrics!SnapshotBracketed

\* A record of an access is of the process that made it or of later ones, in
\* the order of the reads, and any name is parsed out of a stat line
\* (get_process_info, parse_stat).
AccessesAttributed == scene = "records" => Records!AttributedInOrder /\ Records!NamesParsed

\* Every access is streamed once and audited at most once, whatever fails, and
\* audit records share a number only when the counter went round
\* (spawn_event_forwarding_task, send_message).
AccessesRecorded == scene = "records" => Records!StreamedOnce /\ Records!NumbersDistinct

\* The path in an event is its file's, and it passes the filter when it begins
\* with a listed string of one of the lengths looked up
\* (extract_path_from_dentry, should_emit_event).
PathsFiltered == scene = "filter" => Filter!PathIsTheFiles /\ Filter!FilterIsByLength

\* No live container's session is put on another's files, and every running
\* container of a request is watched, within what the daemon detected
\* (resolve_container_pid, resolve_container_pids).
TargetsRight == scene = "targets" => Targets!TargetsAreTheirs /\ Targets!RunningAreWatched

\* A daemon that serves has open files for all its sessions, and one that chose
\* eBPF can load its programs (validate_resource_limits, is_ebpf_supported).
StartsSound == scene = "start" => Start!FilesSuffice /\ Start!EbpfLoads

Interchangeable == Permutations(Paths) \cup Permutations(Callers) \cup Permutations(Tasks)
=============================================================================
