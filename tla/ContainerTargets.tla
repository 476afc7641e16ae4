-------------------------- MODULE ContainerTargets --------------------------
(***************************************************************************)
(* From the container IDs of a request to the file systems that get        *)
(* watched: common/src/container_runtime.rs and its callers in the four    *)
(* services.  A container ID names its runtime in a prefix; the runtime    *)
(* keeps the PID of the container's first process in a file; the           *)
(* container's files are under /proc/<pid>/root.                           *)
(*                                                                         *)
(* The daemon detects one runtime when it starts.  argusd resolves an ID   *)
(* through the runtime its prefix names, janusd through the detected one.  *)
(* argusd, and janusd in eBPF mode, resolve every ID twice, for the PIDs   *)
(* of the session and for the paths.  Containers end, and PIDs are reused, *)
(* between any two steps.                                                  *)
(***************************************************************************)
EXTENDS Naturals, FiniteSets

CONSTANTS
    Containers,      \* [runtime |-> the prefix, id |-> the rest of the ID]
    BadIds,          \* IDs with characters validate_container_id refuses
    Pids,
    Services         \* of "argusd", "argusd_ebpf", "janusd", "janusd_ebpf"

VARIABLES
    service,
    sockets,         \* runtimes whose socket exists
    runtime,         \* detected by the daemon, "none" before and without one
    life,            \* per container: "new", "running", "ended"
    pid,             \* per container, of its first process
    file,            \* per container, the PID file: a PID or 0
    at,              \* the daemon: "start", "idle", "pids", "paths"
    asked,           \* the containers of the request
    todo,            \* containers this step has yet to do
    session,         \* per container, the PID in the session, or 0
    target,          \* per container, the PID whose root is watched, or 0
    owner            \* history: per container, who had that PID then

host == <<sockets, life, pid, file>>
request == <<at, asked, todo, session, target, owner>>
vars == <<service, sockets, runtime, life, pid, file, at, asked, todo, session, target,
          owner>>

Runtimes == {"containerd", "cri-o"}
Nobody == [runtime |-> "none", id |-> "none"]
InUse == {pid[c] : c \in {d \in Containers : life[d] = "running"}}

Init ==
    /\ service \in Services
    /\ sockets \in SUBSET Runtimes
    /\ runtime = "none"
    /\ life \in [Containers -> {"new", "ended"}]
    /\ pid = [c \in Containers |-> 0]
    /\ file = [c \in Containers |-> 0]
    /\ at = "start" /\ asked = {} /\ todo = {}
    /\ session = [c \in Containers |-> 0]
    /\ target = [c \in Containers |-> 0]
    /\ owner = [c \in Containers |-> Nobody]

-----------------------------------------------------------------------------
(* The runtimes                                                              *)

RuntimeStarts(r) ==
    /\ r \notin sockets
    /\ sockets' = sockets \cup {r}
    /\ UNCHANGED <<service, runtime, life, pid, file, request>>

ContainerStarts(c, p) ==
    /\ life[c] = "new" /\ p \notin InUse
    /\ c.runtime \in Runtimes => c.runtime \in sockets
    /\ life' = [life EXCEPT ![c] = "running"]
    /\ pid' = [pid EXCEPT ![c] = p]
    /\ file' = [file EXCEPT ![c] = p]
    /\ UNCHANGED <<service, sockets, runtime, request>>

\* The process is gone before its PID file is.
ContainerEnds(c) ==
    /\ life[c] = "running"
    /\ life' = [life EXCEPT ![c] = "ended"]
    /\ UNCHANGED <<service, sockets, runtime, pid, file, request>>

PidFileRemoved(c) ==
    /\ life[c] = "ended" /\ file[c] # 0
    /\ file' = [file EXCEPT ![c] = 0]
    /\ UNCHANGED <<service, sockets, runtime, life, pid, request>>

-----------------------------------------------------------------------------
(* Resolving an ID                                                           *)

\* detect_runtime: containerd before CRI-O, by their sockets.
DetectRuntime ==
    IF "containerd" \in sockets THEN "containerd"
    ELSE IF "cri-o" \in sockets THEN "cri-o" ELSE "none"

ValidateNothing(id) == TRUE

\* validate_container_id.
ValidateContainerId(id) == id \notin BadIds

\* pid_file_path and the read: the file of this runtime for an ID.
ReadPidFile(r, id) ==
    LET c == [runtime |-> r, id |-> id]
    IN IF c \in Containers THEN file[c] ELSE 0

ContainerdResolvePidAnyPrefix(c) ==
    IF ValidateContainerId(c.id) THEN ReadPidFile("containerd", c.id) ELSE 0

\* ContainerdRuntime::resolve_pid; 0 is every error.
ContainerdResolvePid(c) ==
    IF c.runtime = "containerd" /\ ValidateContainerId(c.id)
    THEN ReadPidFile("containerd", c.id) ELSE 0

\* CriORuntime::resolve_pid.
CriOResolvePid(c) ==
    IF c.runtime = "cri-o" /\ ValidateContainerId(c.id)
    THEN ReadPidFile("cri-o", c.id) ELSE 0

ResolvePid(r, c) ==
    CASE r = "containerd" -> ContainerdResolvePid(c)
      [] r = "cri-o" -> CriOResolvePid(c)
      [] r = "none" -> 0

\* detect_runtime_type goes by the prefix of the ID, and runtime_for_container
\* makes that runtime, whether its socket is there or not.
DetectRuntimeType(c) == IF c.runtime \in Runtimes THEN c.runtime ELSE "none"
RuntimeForContainer(c) == DetectRuntimeType(c)

ResolveContainerPidDetected(c) == ResolvePid(runtime, c)

\* argusd's resolve_container_pid: the runtime of the prefix, else the
\* detected one.
ResolveContainerPid(c) ==
    IF RuntimeForContainer(c) # "none" THEN ResolvePid(RuntimeForContainer(c), c)
    ELSE ResolvePid(runtime, c)

\* janusd's resolve_container_pids: the detected runtime only.
ResolveContainerPids(c) == ResolvePid(runtime, c)

-----------------------------------------------------------------------------
(* A request                                                                 *)

Argusd == service \in {"argusd", "argusd_ebpf"}

\* The service is made once.
StartService ==
    /\ at = "start"
    /\ runtime' = DetectRuntime
    /\ at' = "idle"
    /\ UNCHANGED <<service, host, asked, todo, session, target, owner>>

\* A request names containers that Kubernetes has seen running.
Request(cs) ==
    /\ at = "idle"
    /\ cs # {} /\ \A c \in cs : life[c] # "new"
    /\ at' = "pids" /\ asked' = cs /\ todo' = cs
    /\ session' = [c \in Containers |-> 0]
    /\ target' = [c \in Containers |-> 0]
    /\ owner' = [c \in Containers |-> Nobody]
    /\ UNCHANGED <<service, host, runtime>>

\* The PIDs of the session; a container that cannot be resolved is left out.
SessionPid(c) ==
    /\ at = "pids" /\ c \in todo
    /\ session' = [session EXCEPT ![c] = IF Argusd THEN ResolveContainerPid(c)
                                         ELSE ResolveContainerPids(c)]
    /\ todo' = todo \ {c}
    /\ UNCHANGED <<service, host, runtime, at, asked, target, owner>>

SessionMade ==
    /\ at = "pids" /\ todo = {}
    /\ at' = "paths" /\ todo' = asked
    /\ UNCHANGED <<service, host, runtime, asked, session, target, owner>>

\* Who lives under /proc/<p>/root.
OwnerOf(p) ==
    IF p \in InUse THEN CHOOSE c \in Containers : life[c] = "running" /\ pid[c] = p ELSE Nobody

\* build_watch_config and, in eBPF mode, build_prefixes of argusd: only with
\* some runtime detected, and the ID is resolved anew.
BuildWatchConfig(c) == IF runtime = "none" THEN 0 ELSE ResolveContainerPid(c)
BuildWatchPrefixes(c) == IF runtime = "none" THEN 0 ELSE ResolveContainerPid(c)

\* build_prefixes of janusd in eBPF mode resolves anew as well.
BuildPrefixes(c) == ResolveContainerPids(c)

\* register_fanotify_marks uses the PIDs of the session, if the root is there.
RegisterFanotifyMarks(c) == IF session[c] \in InUse THEN session[c] ELSE 0

WatchRoot(c) ==
    LET p == CASE service = "argusd" -> BuildWatchConfig(c)
               [] service = "argusd_ebpf" -> BuildWatchPrefixes(c)
               [] service = "janusd_ebpf" -> BuildPrefixes(c)
               [] service = "janusd" -> RegisterFanotifyMarks(c)
    IN /\ at = "paths" /\ c \in todo
       /\ target' = [target EXCEPT ![c] = p]
       /\ owner' = [owner EXCEPT ![c] = OwnerOf(p)]
       /\ todo' = todo \ {c}
       /\ UNCHANGED <<service, host, runtime, at, asked, session>>

RequestDone ==
    /\ at = "paths" /\ todo = {}
    /\ at' = "idle"
    /\ UNCHANGED <<service, host, runtime, asked, todo, session, target, owner>>

-----------------------------------------------------------------------------

Next ==
    \/ \E r \in Runtimes : RuntimeStarts(r)
    \/ \E c \in Containers : \/ \E p \in Pids : ContainerStarts(c, p)
                             \/ ContainerEnds(c) \/ PidFileRemoved(c)
                             \/ SessionPid(c) \/ WatchRoot(c)
    \/ StartService
    \/ \E cs \in SUBSET Containers : Request(cs)
    \/ SessionMade \/ RequestDone

Spec == Init /\ [][Next]_vars

-----------------------------------------------------------------------------
(* Properties                                                                *)

TypeOK ==
    /\ runtime \in Runtimes \cup {"none"}
    /\ todo \subseteq asked /\ asked \subseteq Containers
    /\ \A c \in Containers :
           /\ life[c] \in {"new", "running", "ended"}
           /\ {pid[c], file[c], session[c], target[c]} \subseteq Pids \cup {0}
           /\ c.id \in BadIds => session[c] = 0 /\ target[c] = 0

\* What is watched or guarded for a container is that container's file
\* system, unless the container had ended by then: neither two runtimes that
\* know the same ID nor the reuse of PIDs puts a live container's watch on
\* another's files.
TargetsAreTheirs ==
    \A c \in Containers : target[c] # 0 /\ life[c] = "running" => owner[c] = c

\* A request over, every container it names that still runs is watched: by
\* argusd whichever runtime it detected, if any; by janusd if it is of the
\* one runtime the daemon detected when it started.
RunningAreWatched ==
    at = "idle" =>
        \A c \in asked :
            (/\ life[c] = "running" /\ c.id \notin BadIds /\ c.runtime \in Runtimes
             /\ IF Argusd THEN runtime # "none" ELSE runtime = c.runtime)
            => target[c] = pid[c]

=============================================================================
