---------------------------- MODULE EventMetrics ----------------------------
(***************************************************************************)
(* The counters of one session: WatcherMetrics of argusd, which the event  *)
(* loops of all containers of a watch share, and GuardMetrics of janusd,   *)
(* to which one forwarding task records (metrics.rs of both daemons).      *)
(* Every counter is an atomic of its own, updated and read with relaxed    *)
(* ordering: a recording is several steps, and a snapshot reads its fields *)
(* one by one in any order.                                                *)
(***************************************************************************)
EXTENDS Naturals, FiniteSets

CONSTANTS
    Recorders,    \* the tasks that record events
    Daemons,      \* "argusd" or "janusd"
    MaxEvents,    \* bound on the events recorded
    None

VARIABLES
    collector,    \* whose collector this is
    counters,     \* the value of each counter that exists
    types,        \* WatcherMetrics.events_by_type: the types that have one
    doing, recording, \* per recorder: its next step and its event
    snap,         \* the snapshot being taken, or the last one
    started,      \* history: recordings begun, per counter they add to
    finished      \* history: and finished

vars == <<collector, counters, types, doing, recording, snap, started, finished>>

Names == {"create", "open_write", "access", "open"}
Responses == {"allowed", "denied", "audited"}
Fields == {"total"} \cup Responses \cup Names

\* The types of events, by FileEventType::as_str and determine_event_type: in
\* eBPF mode an open is an "open_read" or "open_write".
TypesOf(d) == IF d = "argusd" THEN {"create", "open_write"} ELSE {"access", "open", "open_write"}

\* The types record_event_type of GuardMetrics knows: fanotify's names, and so
\* no open of eBPF mode.
GuardTypes == {"access", "open"}

Events(d) == [type : TypesOf(d), response : IF d = "argusd" THEN {None} ELSE Responses]
Everyone(d) == IF d = "argusd" THEN Recorders ELSE {CHOOSE r \in Recorders : TRUE}

\* The counters an event is added to.
AddsTo(d, e) ==
    {"total"} \cup (IF d = "argusd" THEN {e.type} ELSE {e.response} \cup ({e.type} \cap GuardTypes))

Add(f, fields) == [x \in Fields |-> IF x \in fields THEN f[x] + 1 ELSE f[x]]
NoSnapshot == [left |-> {}, got |-> <<>>, least |-> <<>>]

\* WatcherMetrics::new has no counter per type, GuardMetrics::new has them all.
Init ==
    /\ collector \in Daemons
    /\ counters = [x \in Fields |-> 0]
    /\ types = IF collector = "argusd" THEN {} ELSE GuardTypes
    /\ doing = [r \in Recorders |-> "idle"]
    /\ recording = [r \in Recorders |-> None]
    /\ snap = NoSnapshot
    /\ started = [x \in Fields |-> 0]
    /\ finished = [x \in Fields |-> 0]

-----------------------------------------------------------------------------
(* Recording                                                                 *)

Goes(r, to) ==
    /\ doing' = [doing EXCEPT ![r] = to]
    /\ finished' = IF to = "idle" THEN Add(finished, AddsTo(collector, recording[r])) ELSE finished
    /\ UNCHANGED <<collector, recording, snap, started>>

\* The forwarder, or an event loop, has an event to count.
Record(r, e) ==
    /\ doing[r] = "idle"
    /\ started["total"] < MaxEvents
    /\ doing' = [doing EXCEPT ![r] = "total"]
    /\ recording' = [recording EXCEPT ![r] = e]
    /\ started' = Add(started, AddsTo(collector, e))
    /\ UNCHANGED <<collector, counters, types, snap, finished>>

\* events_total.fetch_add, of record_event_typed, record_allowed,
\* record_denied and record_audited.
AddTotal(r) ==
    /\ doing[r] = "total"
    /\ counters' = Add(counters, {"total"})
    /\ Goes(r, IF collector = "argusd" THEN "lookup" ELSE "response")
    /\ UNCHANGED types

\* record_allowed, record_denied or record_audited.
AddResponse(r) ==
    /\ doing[r] = "response"
    /\ counters' = Add(counters, {recording[r].response})
    /\ Goes(r, "type")
    /\ UNCHANGED types

\* record_event_type of GuardMetrics.
RecordEventType(r) ==
    /\ doing[r] = "type"
    /\ counters' = Add(counters, {recording[r].type} \cap GuardTypes)
    /\ Goes(r, "idle")
    /\ UNCHANGED types

\* record_event_typed of WatcherMetrics under the map's read lock: the type
\* has a counter, or not yet.
LookUpType(r) ==
    LET known == recording[r].type \in types
    IN /\ doing[r] = "lookup"
       /\ counters' = IF known THEN Add(counters, {recording[r].type}) ELSE counters
       /\ Goes(r, IF known THEN "idle" ELSE "create")
       /\ UNCHANGED types

CreateTypeFresh(r) ==
    /\ doing[r] = "create"
    /\ snap.left \cap Names = {}
    /\ types' = types \cup {recording[r].type}
    /\ counters' = [counters EXCEPT ![recording[r].type] = 1]
    /\ Goes(r, "idle")

\* Under its write lock, which a snapshot's read lock keeps out: entry finds
\* the counter another loop has made since.
CreateType(r) ==
    /\ doing[r] = "create"
    /\ snap.left \cap Names = {}
    /\ types' = types \cup {recording[r].type}
    /\ counters' = Add(counters, {recording[r].type})
    /\ Goes(r, "idle")

-----------------------------------------------------------------------------
(* snapshot, from get_metrics: one caller takes one after the other          *)

Counted == {"total"} \cup (IF collector = "argusd" THEN {} ELSE Responses) \cup types

SnapshotStartCached ==
    /\ snap.left = {}
    /\ snap' = [left |-> Counted \ DOMAIN snap.got, got |-> snap.got, least |-> finished]
    /\ UNCHANGED <<collector, counters, types, doing, recording, started, finished>>

SnapshotStart ==
    /\ snap.left = {}
    /\ snap' = [left |-> Counted, got |-> <<>>, least |-> finished]
    /\ UNCHANGED <<collector, counters, types, doing, recording, started, finished>>

SnapshotLoad ==
    \E x \in snap.left :
      /\ snap' = [snap EXCEPT !.left = @ \ {x},
                              !.got = [y \in DOMAIN @ \cup {x} |-> IF y = x THEN counters[x] ELSE @[y]]]
      /\ UNCHANGED <<collector, counters, types, doing, recording, started, finished>>

Step(r) == AddTotal(r) \/ AddResponse(r) \/ RecordEventType(r) \/ LookUpType(r) \/ CreateType(r)
Next ==
    \/ \E r \in Everyone(collector) : (\E e \in Events(collector) : Record(r, e)) \/ Step(r)
    \/ SnapshotStart \/ SnapshotLoad
Spec == Init /\ [][Next]_vars

-----------------------------------------------------------------------------
(* Properties                                                                *)

TypeOK ==
    /\ collector \in Daemons
    /\ counters \in [Fields -> 0..MaxEvents]
    /\ types \subseteq Names
    /\ doing \in [Recorders -> {"idle", "total", "response", "type", "lookup", "create"}]
    /\ snap.left \subseteq Fields /\ DOMAIN snap.got \subseteq Fields

\* No event is lost or counted twice, although the loops of a watch race to
\* make the counter of a new type: once they rest, the counters are the events
\* recorded, and argusd's add up by type (record_event_typed).
CountsSettle ==
    (\A r \in Recorders : doing[r] = "idle") => counters = finished

\* A snapshot is not of one moment, but each of its numbers is one the counter
\* went through while it was taken: all recordings that had ended when it began
\* are in it, and none that had not begun when it ended
\* (DaemonMetrics::snapshot, GuardMetrics::snapshot).
SnapshotBracketed ==
    \A x \in DOMAIN snap.got : snap.got[x] \in snap.least[x] .. started[x]
=============================================================================
