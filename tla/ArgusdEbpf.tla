----------------------------- MODULE ArgusdEbpf -----------------------------
(***************************************************************************)
(* The handlers of argusd in eBPF mode (argusd/src/service_ebpf.rs): the   *)
(* watches of a node over the prefix map of EbpfNode.  A request carries   *)
(* the list build_prefixes makes for the containers that were resolved.    *)
(***************************************************************************)
EXTENDS EbpfNode

CONSTANT
    WatchRequests    \* [prefixes, paused]

ASSUME WatchConstants == WatchRequests \subseteq [prefixes : Seq(Path), paused : BOOLEAN]

Argus == <<loader, enabled, deny_map, traced, process, events, fwd, out>>

-----------------------------------------------------------------------------
(* create_watch                                                              *)

CreateWatch(c, k, r) ==
    /\ Starts(c, IF sessions[k] # None THEN Idle
                 ELSE [op |-> "watch", pc |-> "init", key |-> k, req |-> r, sid |-> 0])
    /\ UNCHANGED <<prefix_map, sessions, sess, active, spoilt>>
    /\ UNCHANGED Argus

\* metrics.register comes before the insert.
RegisterWatch(c) ==
    /\ call[c].pc = "insert" /\ call[c].op = "watch"
    /\ active' = active + 1
    /\ Goes(c, "inserting")
    /\ UNCHANGED <<prefix_map, sessions, sess, calls, spoilt>>
    /\ UNCHANGED Argus

\* SessionManager::insert tests limit and key under the map's write lock; an
\* error leaves the collector behind.  A paused watch, or one without
\* prefixes, is done.
InsertWatch(c) ==
    LET k == call[c].key
        r == call[c].req
        s == Len(sess) + 1
    IN /\ call[c].pc = "inserting" /\ call[c].op = "watch"
       /\ Unlocked
       /\ IF Count >= MaxSessions \/ sessions[k] # None
          THEN Ends(c) /\ UNCHANGED <<sess, sessions, spoilt>>
          ELSE /\ sess' = Append(sess, [key |-> k, prefixes |-> r.prefixes, paused |-> r.paused,
                                        ready |-> FALSE, lock |-> None])
               /\ sessions' = [sessions EXCEPT ![k] = s]
               /\ call' = [call EXCEPT ![c] = IF r.paused \/ r.prefixes = <<>> THEN Idle
                                              ELSE [@ EXCEPT !.pc = "prefixes", !.sid = s]]
               /\ spoilt' = spoilt \cup When(Shared(r.prefixes, UNION {PrefixesOf(t) : t \in Live}),
                                             "shared")
       /\ UNCHANGED <<prefix_map, calls, active>>
       /\ UNCHANGED Argus

AddWatchedPrefixesAnyway(c) ==
    LET r == InsertAll(prefix_map, call[c].req.prefixes)
    IN /\ call[c].pc = "prefixes" /\ call[c].op = "watch"
       /\ prefix_map' = r.map
       /\ spoilt' = spoilt \cup Reasons(c, r.ok)
       /\ Goes(c, "ready")
       /\ UNCHANGED <<sessions, sess, calls, active>>
       /\ UNCHANGED Argus

\* add_watched_prefixes: an error is logged and the watch does not get ready.
AddWatchedPrefixes(c) ==
    LET r == InsertAll(prefix_map, call[c].req.prefixes)
    IN /\ call[c].pc = "prefixes" /\ call[c].op = "watch"
       /\ prefix_map' = r.map
       /\ spoilt' = spoilt \cup Reasons(c, r.ok)
       /\ IF r.ok THEN Goes(c, "ready") ELSE Ends(c)
       /\ UNCHANGED <<sessions, sess, calls, active>>
       /\ UNCHANGED Argus

\* watches_ready
WatchReady(c) ==
    /\ call[c].pc = "ready" /\ call[c].op = "watch"
    /\ Free(c)
    /\ sess' = [sess EXCEPT ![call[c].sid].ready = TRUE]
    /\ Ends(c)
    /\ UNCHANGED <<prefix_map, sessions, calls, active, spoilt>>
    /\ UNCHANGED Argus

-----------------------------------------------------------------------------
(* destroy_watch; an absent watch is not an error.                           *)

DestroyUnregistersAnyway(c, k) ==
    /\ Unlocked
    /\ Starts(c, IF sessions[k] = None THEN Idle
                 ELSE [op |-> "unwatch", pc |-> "prefixes", sid |-> sessions[k]])
    /\ sessions' = [sessions EXCEPT ![k] = None]
    /\ active' = IF sessions[k] = None /\ active > 0 THEN active - 1 ELSE active
    /\ UNCHANGED <<prefix_map, sess, spoilt>>
    /\ UNCHANGED Argus

DestroyWatch(c, k) ==
    /\ Unlocked
    /\ Starts(c, IF sessions[k] = None THEN Idle
                 ELSE [op |-> "unwatch", pc |-> "prefixes", sid |-> sessions[k]])
    /\ sessions' = [sessions EXCEPT ![k] = None]
    /\ UNCHANGED <<prefix_map, sess, active, spoilt>>
    /\ UNCHANGED Argus

UnwatchIfReady(c) ==
    /\ call[c].pc = "prefixes" /\ call[c].op = "unwatch"
    /\ Free(c)
    /\ prefix_map' = IF Mine(c).ready THEN RemoveAll(prefix_map, Mine(c).prefixes).map
                     ELSE prefix_map
    /\ sess' = Locked(c)
    /\ Goes(c, "unregister")
    /\ UNCHANGED <<sessions, calls, active, spoilt>>
    /\ UNCHANGED Argus

\* remove_watched_prefixes under the session's lock: an error is logged.
UnwatchPrefixes(c) ==
    /\ call[c].pc = "prefixes" /\ call[c].op = "unwatch"
    /\ Free(c)
    /\ prefix_map' = RemoveAll(prefix_map, Mine(c).prefixes).map
    /\ sess' = Locked(c)
    /\ Goes(c, "unregister")
    /\ UNCHANGED <<sessions, calls, active, spoilt>>
    /\ UNCHANGED Argus

\* metrics.unregister: a collector of the key, if there is one.
UnregisterWatch(c) ==
    /\ call[c].pc = "unregister" /\ call[c].op = "unwatch"
    /\ sess' = Released(c)
    /\ active' = active - 1
    /\ Ends(c)
    /\ UNCHANGED <<prefix_map, sessions, calls, spoilt>>
    /\ UNCHANGED Argus

-----------------------------------------------------------------------------
(* update_watch                                                              *)

UpdateWatch(c, k, action) ==
    /\ Starts(c, IF sessions[k] = None THEN Idle
                 ELSE [op |-> action, pc |-> "prefixes", sid |-> sessions[k]])
    /\ UNCHANGED <<prefix_map, sessions, sess, active, spoilt>>
    /\ UNCHANGED Argus

\* Pause, all under the session's lock: a prefix that is not there is an error.
PauseWatch(c) ==
    LET r == RemoveAll(prefix_map, Mine(c).prefixes)
    IN /\ call[c].pc = "prefixes" /\ call[c].op = "halt"
       /\ Free(c)
       /\ Ends(c)
       /\ IF Mine(c).paused THEN UNCHANGED <<prefix_map, sess, spoilt>>
          ELSE /\ prefix_map' = r.map
               /\ sess' = [sess EXCEPT ![call[c].sid].paused = r.ok]
               /\ spoilt' = spoilt \cup When(~r.ok, "partial")
       /\ UNCHANGED <<sessions, calls, active>>
       /\ UNCHANGED Argus

ResumeWatch(c) ==
    LET r == InsertAll(prefix_map, Mine(c).prefixes)
    IN /\ call[c].pc = "prefixes" /\ call[c].op = "continue"
       /\ Free(c)
       /\ Ends(c)
       /\ IF ~Mine(c).paused THEN UNCHANGED <<prefix_map, sess, spoilt>>
          ELSE /\ prefix_map' = r.map
               /\ sess' = [sess EXCEPT ![call[c].sid].paused = ~r.ok]
               /\ spoilt' = spoilt \cup Reasons(c, r.ok)
       /\ UNCHANGED <<sessions, calls, active>>
       /\ UNCHANGED Argus

-----------------------------------------------------------------------------

ForwardFileEvent == \E s \in DOMAIN sess : ForwardTo(s, "event")

\* StreamFilter::matches, of the filter stream_events makes for a watcher's
\* name; an empty one lets everything pass.
StreamFilterMatches(name, e) == name = None \/ sess[e.to].key = name

WatchStarts ==
    \E c \in Clients, k \in Keys :
      \/ \E r \in WatchRequests : CreateWatch(c, k, r)
      \/ DestroyWatch(c, k)
      \/ \E a \in {"halt", "continue"} : UpdateWatch(c, k, a)

WatchSteps(c) ==
    \/ EnsureInit(c) \/ Load(c) \/ RegisterWatch(c) \/ InsertWatch(c)
    \/ AddWatchedPrefixes(c) \/ WatchReady(c)
    \/ UnwatchPrefixes(c) \/ UnregisterWatch(c)
    \/ PauseWatch(c) \/ ResumeWatch(c)

-----------------------------------------------------------------------------

\* Between handlers, the kernel's map has the prefixes of the watches that are
\* not paused and no other, so nothing is left of one that has gone: as long as no two watches
\* share a prefix, the map is not full, no handler was cancelled or overtaken
\* by another one for the same key (create_watch, destroy_watch, update_watch).
MapFollowsWatches ==
    Quiescent /\ spoilt = {} =>
      prefix_map = UNION {PrefixesOf(s) : s \in {s \in Registered : ~sess[s].paused}}

\* What get_watch_state reports of a watch.
WatchState(s) == [paused |-> sess[s].paused, watches_ready |-> sess[s].ready]

\* A watch that is reported ready and not paused has all of its prefixes in the
\* kernel, even if the map was full for another one or a handler was cancelled
\* before it got there; a pause that fails half-way is the exception
\* (create_watch sets watches_ready only after the last prefix).
ReadyMeansFiltered ==
    \A s \in Registered :
      /\ WatchState(s).watches_ready /\ ~WatchState(s).paused
      /\ spoilt \subseteq {"full"}
      /\ \A c \in Clients : call[c].pc \in Before \/ call[c].sid # s
      => PrefixesOf(s) \subseteq prefix_map

\* active_watches never falls below the watches that there are, whatever is
\* cancelled (create_watch registers before it inserts, destroy_watch
\* unregisters after it removes).
ActiveCoversWatches == Count <= active
=============================================================================
