------------------------------ MODULE EbpfNode ------------------------------
(***************************************************************************)
(* What the eBPF modes of janusd and argusd share: the maps of the kernel  *)
(* programs, which belong to the node and not to a session (loader.rs,     *)
(* maps.rs); the way of an event from a hook over the ring buffer and the  *)
(* event loop to the forwarder; the session map (session.rs); the          *)
(* broadcast ring and a stream of it (broadcast.rs, grpc.rs).  JanusdEbpf  *)
(* and ArgusdEbpf have the handlers, MCEbpf puts the three together.       *)
(*                                                                         *)
(* A path is a sequence, so that one may begin with another; KernelFilter  *)
(* has the bytes.  Handlers run concurrently, a step from one await to the *)
(* next.  The loader's lock is kept over a step only while the programs    *)
(* are loaded, and a session's lock is taken in the step that first needs  *)
(* it.  The files are opened by one process: its program is a number that  *)
(* grows with every exec, and with every reuse of its pid.                 *)
(***************************************************************************)
EXTENDS Naturals, Sequences, FiniteSets, Functions

CONSTANTS
    Clients,         \* handlers in progress
    Keys,            \* session keys
    None,
    Files,           \* paths of the files the hooks see
    PrefixLens,      \* the lengths should_emit_event looks up
    MaxSessions,     \* max_guards, max_watches
    MapSize,         \* 256 and 1024 in the code
    RingSize,        \* events that fit the ring buffer
    ChannelSize,     \* 1024 in the code
    Capacity,        \* of the broadcast ring, 10000 in the code
    MaxCalls,        \* bound on the handlers started
    MaxAccesses,     \* bound on file accesses
    MaxPrograms      \* bound on program changes

\* A path is a sequence of names, here numbers.
Path == Seq(Nat)
StartsWith(path, prefix) == Len(prefix) <= Len(path) /\ SubSeq(path, 1, Len(prefix)) = prefix

ASSUME NodeConstants ==
    /\ IsFiniteSet(Clients)
    /\ None \notin Clients \cup Nat
    /\ {MapSize, RingSize, ChannelSize, Capacity, MaxCalls, MaxAccesses} \subseteq Nat
    /\ MaxPrograms \in Nat \ {0}

VARIABLES
    loader,          \* "none", "attached" (being loaded) or "ready"
    enabled,         \* FILTER_ENABLED
    prefix_map,      \* GUARDED_PREFIXES or WATCHED_PREFIXES
    deny_map,        \* DENY_PATHS
    traced,          \* attached tracepoints: "none", "exec" or "both"
    program,         \* the process's program
    cached,          \* its entry in PROCESS_CACHE, 0 when there is none
    ring,            \* EVENTS
    channel,         \* the loader's channel to the forwarder
    accesses,        \* file accesses so far
    sessions,        \* the session map: per key an index into sess, or None
    sess,            \* the session objects, in the order they were made
    call,            \* the handlers in progress
    calls,           \* how many were started
    active,          \* MetricsAggregator::active_sessions
    fwd,             \* the forwarder
    log,             \* all that was broadcast; the ring is its end
    stream,          \* one subscriber
    spoilt           \* history: what has come between sessions and maps

kernel == <<enabled, prefix_map, deny_map, traced>>
process == <<program, cached>>
events == <<ring, channel, accesses>>
service == <<sessions, sess, call, calls, active, spoilt>>
out == <<log, stream>>
vars == <<loader, enabled, prefix_map, deny_map, traced, program, cached, ring, channel,
          accesses, sessions, sess, call, calls, active, fwd, log, stream, spoilt>>

Idle == [pc |-> "idle"]
Registered == {s \in DOMAIN sess : sessions[sess[s].key] = s}

NodeInit ==
    /\ loader = "none"
    /\ enabled = FALSE
    /\ prefix_map = {}
    /\ deny_map = {}
    /\ traced = "none"
    /\ program = 1
    /\ cached = 0
    /\ ring = <<>>
    /\ channel = <<>>
    /\ accesses = 0
    /\ sessions = [k \in Keys |-> None]
    /\ sess = <<>>
    /\ call = [c \in Clients |-> Idle]
    /\ calls = 0
    /\ active = 0
    /\ fwd = [at |-> "off"]
    /\ log = <<>>
    /\ stream = [at |-> "off", first |-> 1, next |-> 1, got |-> <<>>]
    /\ spoilt = {}

-----------------------------------------------------------------------------
(* The maps.  A list of keys is added or removed one by one under the        *)
(* loader's lock and the first failure ends it: an insert fails when the map *)
(* is full, a removal when the key is not there, or not there any more.      *)

InsertAll(map, ps) ==
    LET done == {i \in DOMAIN ps : Cardinality(map \cup {ps[j] : j \in 1..i}) <= MapSize}
    IN [map |-> map \cup {ps[i] : i \in done}, ok |-> done = DOMAIN ps]

RemoveAll(map, ps) ==
    LET done == {i \in DOMAIN ps : \A j \in 1..i : ps[j] \in map \ {ps[k] : k \in 1 .. j - 1}}
    IN [map |-> map \ {ps[i] : i \in done}, ok |-> done = DOMAIN ps]

-----------------------------------------------------------------------------
(* ensure_ebpf_initialized, under the loader's lock.                         *)

\* load_with_programs attaches the hooks; filtering is still off.
StartLoading ==
    /\ loader = "none"
    /\ loader' = "attached"
    /\ UNCHANGED <<kernel, process, events, fwd, out>>

FinishLoadingOnly ==
    /\ loader = "attached"
    /\ loader' = "ready"
    /\ enabled' = TRUE
    /\ traced' \in {"none", "exec", "both"}
    /\ UNCHANGED <<prefix_map, deny_map, process, events, fwd, out>>

\* set_filter_enabled; the tracepoints, of which the second or both may fail
\* to attach; start_event_loop; then the lock is released and the forwarder
\* started.
FinishLoading ==
    /\ loader = "attached"
    /\ loader' = "ready"
    /\ enabled' = TRUE
    /\ traced' \in {"none", "exec", "both"}
    /\ fwd' = [at |-> "recv"]
    /\ UNCHANGED <<prefix_map, deny_map, process, events, out>>

\* An error drops the loader, and with it programs and maps.
LoadingFails ==
    /\ loader = "attached"
    /\ loader' = "none"
    /\ ring' = <<>>
    /\ UNCHANGED <<kernel, process, channel, accesses, fwd, out>>

-----------------------------------------------------------------------------
(* The kernel programs and the process they watch.                           *)

\* should_emit_event.
Emits(path) ==
    \/ ~enabled
    \/ \E n \in PrefixLens : n <= Len(path) /\ SubSeq(path, 1, n) \in prefix_map

FileAccessUnbounded(path) ==
    /\ loader # "none"
    /\ accesses < MaxAccesses
    /\ accesses' = accesses + 1
    /\ ring' = IF Emits(path) THEN Append(ring, [path |-> path, program |-> program]) ELSE ring
    /\ UNCHANGED <<loader, kernel, process, channel, service, fwd, out>>

\* A hook of either program: the event goes into the ring buffer if it passes
\* the filter and there is room.
FileAccess(path) ==
    /\ loader # "none"
    /\ accesses < MaxAccesses
    /\ accesses' = accesses + 1
    /\ ring' = IF Emits(path) /\ Len(ring) < RingSize
               THEN Append(ring, [path |-> path, program |-> program])
               ELSE ring
    /\ UNCHANGED <<loader, kernel, process, channel, service, fwd, out>>

\* sched_process_exec: the cache has the new program.
Exec ==
    /\ program < MaxPrograms
    /\ program' = program + 1
    /\ cached' = IF traced = "none" THEN cached ELSE program + 1
    /\ UNCHANGED <<loader, kernel, events, service, fwd, out>>

ExitKeeping ==
    /\ program < MaxPrograms
    /\ program' = program + 1
    /\ UNCHANGED cached
    /\ UNCHANGED <<loader, kernel, events, service, fwd, out>>

\* sched_process_exit of the thread group leader, and a forked process that
\* takes over its pid.
Exit ==
    /\ program < MaxPrograms
    /\ program' = program + 1
    /\ cached' = IF traced = "both" THEN 0 ELSE cached
    /\ UNCHANGED <<loader, kernel, events, service, fwd, out>>

\* PROCESS_CACHE evicts its least recently used entry.
Evict ==
    /\ cached # 0
    /\ cached' = 0
    /\ UNCHANGED program
    /\ UNCHANGED <<loader, kernel, events, service, fwd, out>>

\* start_event_loop's task: blocking_send waits for room in the channel.
EventLoop ==
    /\ loader = "ready"
    /\ ring # <<>>
    /\ Len(channel) < ChannelSize
    /\ ring' = Tail(ring)
    /\ channel' = Append(channel, Head(ring))
    /\ UNCHANGED <<loader, kernel, process, accesses, service, fwd, out>>

-----------------------------------------------------------------------------
(* The forwarder.                                                            *)

\* rx.recv().
Receive ==
    /\ fwd.at = "recv"
    /\ channel # <<>>
    /\ channel' = Tail(channel)
    /\ fwd' = [at |-> "lookup", event |-> Head(channel)]
    /\ UNCHANGED <<loader, kernel, process, ring, accesses, service, out>>

\* get_cached_process.
GetCachedProcess ==
    /\ fwd.at = "lookup"
    /\ fwd' = [at |-> "sessions", event |-> fwd.event, exe |-> cached]
    /\ UNCHANGED <<loader, kernel, process, events, service, out>>

\* sessions.read(), held until every session was looked at.
ReadSessions ==
    /\ fwd.at = "sessions"
    /\ fwd' = [at |-> "each", event |-> fwd.event, exe |-> fwd.exe, todo |-> Registered]
    /\ UNCHANGED <<loader, kernel, process, events, service, out>>

Forwarded ==
    /\ fwd.at = "each"
    /\ fwd.todo = {}
    /\ fwd' = [at |-> "recv"]
    /\ UNCHANGED <<loader, kernel, process, events, service, out>>

\* One session, under its lock: an event under one of its prefixes is
\* broadcast with the daemon's response to it.
ForwardTo(s, response) ==
    /\ fwd.at = "each"
    /\ s \in fwd.todo
    /\ sess[s].lock = None
    /\ fwd' = [fwd EXCEPT !.todo = @ \ {s}]
    /\ log' = IF \E i \in DOMAIN sess[s].prefixes : StartsWith(fwd.event.path, sess[s].prefixes[i])
              THEN Append(log, [event |-> fwd.event, to |-> s, exe |-> fwd.exe,
                                response |-> response])
              ELSE log
    /\ UNCHANGED <<loader, kernel, process, events, service, stream>>

-----------------------------------------------------------------------------
(* A stream: the subscriber's place in the broadcast ring, and what it       *)
(* handed to its client.                                                     *)

Streaming == UNCHANGED <<loader, kernel, process, events, service, fwd, log>>

\* subscribe.
Subscribe ==
    /\ stream.at = "off"
    /\ stream' = [stream EXCEPT !.at = "on", !.first = Len(log) + 1, !.next = Len(log) + 1]
    /\ Streaming

\* The oldest event the ring still has.
Oldest == IF Len(log) > Capacity THEN Len(log) - Capacity + 1 ELSE 1

StreamResubscribes ==
    /\ stream.at = "on"
    /\ stream.next < Oldest
    /\ stream' = [stream EXCEPT !.next = Len(log) + 1]
    /\ Streaming

\* rx.recv(): Lagged.  The stream goes on with what the ring still has.
StreamLagged ==
    /\ stream.at = "on"
    /\ stream.next < Oldest
    /\ stream' = [stream EXCEPT !.next = Oldest]
    /\ Streaming

\* rx.recv(): an event that passes the filter, one of passing in the log, is sent
\* to the client.
StreamEvent(passing) ==
    /\ stream.at = "on"
    /\ stream.next \in Oldest..Len(log)
    /\ stream' = [stream EXCEPT !.next = @ + 1,
                                !.got = IF stream.next \in passing THEN Append(@, stream.next)
                                        ELSE @]
    /\ Streaming

\* The client has left: the task ends when it next has something to send.
StreamEnds(passing) ==
    /\ stream.at = "on"
    /\ stream.next \in passing \cap (Oldest..Len(log))
    /\ stream' = [stream EXCEPT !.at = "ended"]
    /\ Streaming

-----------------------------------------------------------------------------
(* The handlers' side of the session map.  An insert or a removal waits for  *)
(* the forwarder's read lock.                                                *)

Unlocked == fwd.at # "each"
Count == Cardinality(Registered)
Ends(c) == call' = [call EXCEPT ![c] = Idle]
Goes(c, pc) == call' = [call EXCEPT ![c].pc = pc]
Starts(c, r) ==
    /\ call[c] = Idle
    /\ calls < MaxCalls
    /\ calls' = calls + 1
    /\ call' = [call EXCEPT ![c] = r]

Mine(c) == sess[call[c].sid]
Free(c) == Mine(c).lock \in {None, c}
Locked(c) == [sess EXCEPT ![call[c].sid].lock = c]
Released(c) == [sess EXCEPT ![call[c].sid].lock = None]

\* The sessions that are registered, and those a handler is still working on.
Before == {"idle", "check", "init", "load", "insert", "inserting"}
Live == Registered \cup {call[c].sid : c \in {c \in Clients : call[c].pc \notin Before}}

PrefixesOf(s) == Range(sess[s].prefixes)
DeniesOf(s) == Range(sess[s].deny)

\* The reasons recorded in spoilt: a list has an entry twice, or one that
\* another session has; the session has left the map; the list did not fit.
Shared(list, theirs) == ~IsInjective(list) \/ Range(list) \cap theirs # {}
When(condition, reason) == IF condition THEN {reason} ELSE {}
Reasons(c, ok) == When(call[c].sid \notin Registered, "raced") \cup When(~ok, "full")

\* tonic drops the handler of a client that has gone, at any await.
Cancel(c) ==
    /\ call[c].pc \notin {"idle", "load"}
    /\ Ends(c)
    /\ sess' = [s \in DOMAIN sess |-> IF sess[s].lock = c THEN [sess[s] EXCEPT !.lock = None]
                                      ELSE sess[s]]
    /\ spoilt' = spoilt \cup When(call[c].pc \notin Before, "cancelled")
    /\ UNCHANGED <<loader, kernel, process, events, sessions, calls, active, fwd, out>>

\* ensure_ebpf_initialized, called by a create.
EnsureInit(c) ==
    /\ call[c].pc = "init"
    /\ UNCHANGED <<sessions, sess, calls, active, spoilt>>
    /\ \/ loader = "ready" /\ Goes(c, "insert") /\ UNCHANGED <<loader, kernel, process, events, fwd, out>>
       \/ StartLoading /\ Goes(c, "load")

Load(c) ==
    /\ call[c].pc = "load"
    /\ UNCHANGED <<sessions, sess, calls, active, spoilt>>
    /\ \/ FinishLoading /\ Goes(c, "insert")
       \/ LoadingFails /\ Ends(c)

-----------------------------------------------------------------------------

TypeOK ==
    /\ loader \in {"none", "attached", "ready"}
    /\ enabled \in BOOLEAN
    /\ Cardinality(prefix_map) <= MapSize
    /\ Cardinality(deny_map) <= MapSize
    /\ traced \in {"none", "exec", "both"}
    /\ program \in 1..MaxPrograms
    /\ cached \in 0..program
    /\ ring \in Seq([path : Files, program : 1..program]) /\ Len(ring) <= RingSize
    /\ channel \in Seq([path : Files, program : 1..program]) /\ Len(channel) <= ChannelSize
    /\ accesses \in 0..MaxAccesses
    /\ sessions \in [Keys -> DOMAIN sess \cup {None}]
    /\ \A s \in DOMAIN sess : sess[s].lock \in Clients \cup {None}
    /\ calls \in 0..MaxCalls
    /\ active \in Nat
    /\ spoilt \subseteq {"shared", "full", "raced", "partial", "unasked", "cancelled"}

Quiescent == \A c \in Clients : call[c] = Idle

\* The program an event is attributed to is never one that its process had
\* left before the access: the forwarder asks for it later, and gets what the
\* process runs then, or nothing.  Only without the exit tracepoint, which
\* attach_process_tracepoints may fail to attach after the exec one, may the
\* program be an older one (get_cached_process; sched_process_exit).
ProgramNotOlder ==
    traced # "exec" =>
      \A i \in DOMAIN log : log[i].exe = 0 \/ log[i].exe >= log[i].event.program

\* A stream hands out events in the order they were broadcast, only ones that
\* pass its filter, and misses only what the ring had overwritten by then
\* (filtered_broadcast_stream, stream_access_events).
StreamIsComplete(passing) ==
    LET due == passing \cap (stream.first .. stream.next - 1)
    IN /\ \A i \in 1 .. Len(stream.got) - 1 : stream.got[i] < stream.got[i + 1]
       /\ Range(stream.got) \subseteq due
       /\ \A i \in due \ Range(stream.got) : i < Oldest

\* What a hook put into the ring buffer is forwarded: time and again nothing
\* is on its way (start_event_loop, start_event_forwarder).
EventsAreForwarded ==
    []<>(ring = <<>> /\ channel = <<>> /\ fwd.at \in {"off", "recv"})
=============================================================================
