----------------------------- MODULE JanusdEbpf -----------------------------
(***************************************************************************)
(* The handlers of janusd in eBPF mode (janusd/src/service_ebpf.rs): the   *)
(* guards of a node over the prefix and deny maps of EbpfNode.             *)
(*                                                                         *)
(* A request carries the lists build_prefixes makes for its resolved       *)
(* containers: the allow patterns become guarded prefixes, the deny        *)
(* patterns deny paths.  update_policy's patterns are not resolved.        *)
(***************************************************************************)
EXTENDS EbpfNode

CONSTANTS
    GuardRequests,   \* [prefixes, deny, enforcing, paused]
    DenyPatterns     \* the lists update_policy is called with

ASSUME GuardConstants ==
    /\ GuardRequests \subseteq [prefixes : Seq(Path), deny : Seq(Path), enforcing : BOOLEAN,
                               paused : BOOLEAN]
    /\ DenyPatterns \subseteq Seq(Path)

Janus == <<loader, enabled, traced, process, events, fwd, out>>

-----------------------------------------------------------------------------
(* create_guard                                                              *)

\* The limit is tested against the map's size, and the key in a second read.
CreateGuard(c, k, r) ==
    /\ Starts(c, IF Count >= MaxSessions THEN Idle
                 ELSE [op |-> "guard", pc |-> "check", key |-> k, req |-> r, sid |-> 0])
    /\ UNCHANGED <<prefix_map, deny_map, sessions, sess, active, spoilt>>
    /\ UNCHANGED Janus

GuardExists(c) ==
    /\ call[c].pc = "check" /\ call[c].op = "guard"
    /\ IF sessions[call[c].key] # None THEN Ends(c) ELSE Goes(c, "init")
    /\ UNCHANGED <<prefix_map, deny_map, sessions, sess, calls, active, spoilt>>
    /\ UNCHANGED Janus

\* The insert replaces what another create has put under the key since.
InsertGuard(c) ==
    LET k == call[c].key
        r == call[c].req
        s == Len(sess) + 1
        shared == \/ Shared(r.prefixes, UNION {PrefixesOf(t) : t \in Live})
                  \/ Shared(r.deny, UNION {DeniesOf(t) : t \in Live})
    IN /\ call[c].pc = "insert" /\ call[c].op = "guard"
       /\ Unlocked
       /\ sess' = Append(sess, [key |-> k, prefixes |-> r.prefixes, deny |-> r.deny,
                                enforcing |-> r.enforcing, paused |-> r.paused,
                                ready |-> FALSE, lock |-> None])
       /\ sessions' = [sessions EXCEPT ![k] = s]
       /\ call' = [call EXCEPT ![c].pc = "register", ![c].sid = s]
       /\ spoilt' = spoilt \cup When(shared, "shared") \cup When(sessions[k] # None, "raced")
       /\ UNCHANGED <<prefix_map, deny_map, calls, active>>
       /\ UNCHANGED Janus

RegisterUnlessPaused(c) ==
    /\ call[c].pc = "register" /\ call[c].op = "guard"
    /\ active' = IF call[c].req.paused THEN active ELSE active + 1
    /\ IF call[c].req.paused \/ call[c].req.prefixes = <<>> THEN Ends(c) ELSE Goes(c, "prefixes")
    /\ UNCHANGED <<prefix_map, deny_map, sessions, sess, calls, spoilt>>
    /\ UNCHANGED Janus

\* metrics.register; a paused guard, or one without prefixes, is done.
RegisterGuard(c) ==
    /\ call[c].pc = "register" /\ call[c].op = "guard"
    /\ active' = active + 1
    /\ IF call[c].req.paused \/ call[c].req.prefixes = <<>> THEN Ends(c) ELSE Goes(c, "prefixes")
    /\ UNCHANGED <<prefix_map, deny_map, sessions, sess, calls, spoilt>>
    /\ UNCHANGED Janus

\* add_guarded_prefixes: an error is logged.
AddGuardedPrefixes(c) ==
    LET r == InsertAll(prefix_map, call[c].req.prefixes)
    IN /\ call[c].pc = "prefixes" /\ call[c].op = "guard"
       /\ prefix_map' = r.map
       /\ spoilt' = spoilt \cup Reasons(c, r.ok)
       /\ Goes(c, IF call[c].req.enforcing /\ call[c].req.deny # <<>> THEN "deny" ELSE "ready")
       /\ UNCHANGED <<deny_map, sessions, sess, calls, active>>
       /\ UNCHANGED Janus

\* add_deny_paths: an error is logged.
AddDenyPaths(c) ==
    LET r == InsertAll(deny_map, call[c].req.deny)
    IN /\ call[c].pc = "deny" /\ call[c].op = "guard"
       /\ deny_map' = r.map
       /\ spoilt' = spoilt \cup Reasons(c, r.ok)
       /\ Goes(c, "ready")
       /\ UNCHANGED <<prefix_map, sessions, sess, calls, active>>
       /\ UNCHANGED Janus

\* marks_registered, whatever became of the filters.
GuardReady(c) ==
    /\ call[c].pc = "ready" /\ call[c].op = "guard"
    /\ Free(c)
    /\ sess' = [sess EXCEPT ![call[c].sid].ready = TRUE]
    /\ Ends(c)
    /\ UNCHANGED <<prefix_map, deny_map, sessions, calls, active, spoilt>>
    /\ UNCHANGED Janus

-----------------------------------------------------------------------------
(* destroy_guard                                                             *)

DestroyGuard(c, k) ==
    /\ Unlocked
    /\ Starts(c, IF sessions[k] = None THEN Idle
                 ELSE [op |-> "destroy", pc |-> "prefixes", sid |-> sessions[k]])
    /\ sessions' = [sessions EXCEPT ![k] = None]
    /\ UNCHANGED <<prefix_map, deny_map, sess, active, spoilt>>
    /\ UNCHANGED Janus

DestroyRemovesStrictly(c) ==
    LET r == RemoveAll(prefix_map, Mine(c).prefixes)
    IN /\ call[c].pc = "prefixes" /\ call[c].op = "destroy"
       /\ Free(c)
       /\ prefix_map' = r.map
       /\ sess' = Locked(c)
       /\ IF r.ok THEN Goes(c, "deny") ELSE Goes(c, "unregister")
       /\ UNCHANGED <<deny_map, sessions, calls, active, spoilt>>
       /\ UNCHANGED Janus

\* remove_guarded_prefixes under the session's lock: an error is logged.
DestroyRemovesPrefixes(c) ==
    /\ call[c].pc = "prefixes" /\ call[c].op = "destroy"
    /\ Free(c)
    /\ prefix_map' = RemoveAll(prefix_map, Mine(c).prefixes).map
    /\ sess' = Locked(c)
    /\ Goes(c, "deny")
    /\ UNCHANGED <<deny_map, sessions, calls, active, spoilt>>
    /\ UNCHANGED Janus

\* remove_deny_paths: an error is logged.
DestroyRemovesDeny(c) ==
    /\ call[c].pc = "deny" /\ call[c].op = "destroy"
    /\ deny_map' = RemoveAll(deny_map, Mine(c).deny).map
    /\ Goes(c, "unregister")
    /\ UNCHANGED <<prefix_map, sessions, sess, calls, active, spoilt>>
    /\ UNCHANGED Janus

\* metrics.unregister(key): the collector is registered under the guard's
\* name, so none is found.
UnregisterGuard(c) ==
    /\ call[c].pc = "unregister" /\ call[c].op = "destroy"
    /\ sess' = Released(c)
    /\ Ends(c)
    /\ UNCHANGED <<prefix_map, deny_map, sessions, calls, active, spoilt>>
    /\ UNCHANGED Janus

-----------------------------------------------------------------------------
(* update_guard: the session is looked up, then locked, and locked it stays. *)

UpdateGuard(c, k, action) ==
    /\ Starts(c, IF sessions[k] = None THEN Idle
                 ELSE [op |-> action, pc |-> "prefixes", sid |-> sessions[k]])
    /\ UNCHANGED <<prefix_map, deny_map, sessions, sess, active, spoilt>>
    /\ UNCHANGED Janus

\* Pause: already paused is an error, and so is a prefix that is not there.
PausePrefixes(c) ==
    LET r == RemoveAll(prefix_map, Mine(c).prefixes)
    IN /\ call[c].pc = "prefixes" /\ call[c].op = "pause"
       /\ Free(c)
       /\ IF Mine(c).paused THEN Ends(c) /\ UNCHANGED <<prefix_map, sess, spoilt>>
          ELSE /\ prefix_map' = r.map
               /\ spoilt' = spoilt \cup When(~r.ok, "partial")
               /\ IF r.ok THEN sess' = Locked(c) /\ Goes(c, "deny")
                  ELSE sess' = Released(c) /\ Ends(c)
       /\ UNCHANGED <<deny_map, sessions, calls, active>>
       /\ UNCHANGED Janus

\* remove_deny_paths, of a guard that is only auditing as well, whose paths
\* were never added: the error leaves it unpaused without its prefixes.
PauseDeny(c) ==
    LET r == RemoveAll(deny_map, Mine(c).deny)
    IN /\ call[c].pc = "deny" /\ call[c].op = "pause"
       /\ deny_map' = r.map
       /\ spoilt' = spoilt \cup When(~r.ok, "partial")
       /\ sess' = [Released(c) EXCEPT ![call[c].sid].paused = r.ok]
       /\ Ends(c)
       /\ UNCHANGED <<prefix_map, sessions, calls, active>>
       /\ UNCHANGED Janus

ResumePrefixes(c) ==
    LET r == InsertAll(prefix_map, Mine(c).prefixes)
    IN /\ call[c].pc = "prefixes" /\ call[c].op = "resume"
       /\ Free(c)
       /\ IF ~Mine(c).paused THEN Ends(c) /\ UNCHANGED <<prefix_map, sess, spoilt>>
          ELSE /\ prefix_map' = r.map
               /\ spoilt' = spoilt \cup Reasons(c, r.ok)
               /\ IF r.ok THEN sess' = Locked(c) /\ Goes(c, "deny")
                  ELSE sess' = Released(c) /\ Ends(c)
       /\ UNCHANGED <<deny_map, sessions, calls, active>>
       /\ UNCHANGED Janus

ResumeDenyAlways(c) ==
    LET r == InsertAll(deny_map, Mine(c).deny)
    IN /\ call[c].pc = "deny" /\ call[c].op = "resume"
       /\ deny_map' = r.map
       /\ spoilt' = spoilt \cup Reasons(c, r.ok)
       /\ sess' = [Released(c) EXCEPT ![call[c].sid].paused = ~r.ok]
       /\ Ends(c)
       /\ UNCHANGED <<prefix_map, sessions, calls, active>>
       /\ UNCHANGED Janus

\* add_deny_paths, of an enforcing guard only.
ResumeDeny(c) ==
    LET r == InsertAll(deny_map, IF Mine(c).enforcing THEN Mine(c).deny ELSE <<>>)
    IN /\ call[c].pc = "deny" /\ call[c].op = "resume"
       /\ deny_map' = r.map
       /\ spoilt' = spoilt \cup Reasons(c, r.ok)
       /\ sess' = [Released(c) EXCEPT ![call[c].sid].paused = ~r.ok]
       /\ Ends(c)
       /\ UNCHANGED <<prefix_map, sessions, calls, active>>
       /\ UNCHANGED Janus

-----------------------------------------------------------------------------
(* update_policy with deny patterns; allow patterns only change the subjects *)
(* that get_guard_state reports.                                             *)

UpdatePolicy(c, k, ps) ==
    /\ Starts(c, IF sessions[k] = None THEN Idle
                 ELSE [op |-> "policy", pc |-> "remove", sid |-> sessions[k], deny |-> ps])
    /\ UNCHANGED <<prefix_map, deny_map, sessions, sess, active, spoilt>>
    /\ UNCHANGED Janus

PolicyRemovesDeny(c) ==
    LET r == RemoveAll(deny_map, Mine(c).deny)
    IN /\ call[c].pc = "remove"
       /\ Free(c)
       /\ deny_map' = r.map
       /\ IF r.ok THEN sess' = Locked(c) /\ Goes(c, "add") ELSE sess' = Released(c) /\ Ends(c)
       /\ UNCHANGED <<prefix_map, sessions, calls, active, spoilt>>
       /\ UNCHANGED Janus

\* The patterns are added whether the guard enforces or not, paused or not.
PolicyAddsDeny(c) ==
    LET r == InsertAll(deny_map, call[c].deny)
        unasked == ~Mine(c).enforcing \/ Mine(c).paused \/ ~r.ok
        shared == Shared(call[c].deny, UNION {DeniesOf(t) : t \in Live \ {call[c].sid}})
    IN /\ call[c].pc = "add"
       /\ deny_map' = r.map
       /\ spoilt' = spoilt \cup Reasons(c, r.ok)
                           \cup When(unasked, "unasked") \cup When(shared, "shared")
       /\ sess' = IF r.ok THEN [Released(c) EXCEPT ![call[c].sid].deny = call[c].deny]
                  ELSE Released(c)
       /\ Ends(c)
       /\ UNCHANGED <<prefix_map, sessions, calls, active>>
       /\ UNCHANGED Janus

-----------------------------------------------------------------------------

\* The forwarder's response: by the session's deny paths as they are now.
GuardResponse(s) ==
    IF sess[s].enforcing /\ \E i \in DOMAIN sess[s].deny : StartsWith(fwd.event.path, sess[s].deny[i])
    THEN "deny" ELSE "allow"

ForwardAccess == \E s \in DOMAIN sess : ForwardTo(s, GuardResponse(s))

\* stream_access_events without include_allowed.
NotAllowed(e) == e.response # "allow"

GuardStarts ==
    \E c \in Clients, k \in Keys :
      \/ \E r \in GuardRequests : CreateGuard(c, k, r)
      \/ DestroyGuard(c, k)
      \/ \E a \in {"pause", "resume"} : UpdateGuard(c, k, a)
      \/ \E ps \in DenyPatterns : UpdatePolicy(c, k, ps)

GuardSteps(c) ==
    \/ GuardExists(c) \/ EnsureInit(c) \/ Load(c) \/ InsertGuard(c) \/ RegisterGuard(c)
    \/ AddGuardedPrefixes(c) \/ AddDenyPaths(c) \/ GuardReady(c)
    \/ DestroyRemovesPrefixes(c) \/ DestroyRemovesDeny(c) \/ UnregisterGuard(c)
    \/ PausePrefixes(c) \/ PauseDeny(c) \/ ResumePrefixes(c) \/ ResumeDeny(c)
    \/ PolicyRemovesDeny(c) \/ PolicyAddsDeny(c)

-----------------------------------------------------------------------------

\* What get_guard_state reports of a guard.
GuardState(s) ==
    [paused |-> sess[s].paused, enforcing |-> sess[s].enforcing,
     marks_registered |-> sess[s].ready]

On == {s \in Registered : ~GuardState(s).paused}
Enforced == {s \in On : GuardState(s).enforcing}

\* Between handlers, the kernel's maps are what the guards of the node ask
\* for: the prefixes of the guards that are not paused, and the deny paths of
\* those that enforce.  This is as long as no two guards share an entry, no
\* map is full, no handler was cancelled or overtaken by another one for the
\* same key, no pause failed half-way, and no policy was given to a guard
\* that does not enforce; a guard that is being destroyed counts until it is
\* (create_guard, destroy_guard, update_guard, update_policy).
MapsFollowGuards ==
    Quiescent /\ spoilt = {} =>
      /\ prefix_map = UNION {PrefixesOf(s) : s \in On}
      /\ deny_map \subseteq UNION {DeniesOf(s) : s \in Enforced}
      /\ \A s \in Enforced : GuardState(s).marks_registered => DeniesOf(s) \subseteq deny_map

\* When the last guard has gone nothing of it is left in the kernel, a pause
\* that failed half-way, a full prefix map or a policy for a guard that does
\* not enforce notwithstanding (destroy_guard goes on after an error).
GuardsLeaveNothing ==
    Quiescent /\ Registered = {} /\ spoilt \subseteq {"partial", "unasked"} =>
      prefix_map = {} /\ deny_map = {}

\* active_guards never falls below the guards that there are, create_guard's
\* between its insert and its registration aside, unless it was cancelled there
\* (MetricsAggregator).
ActiveCoversGuards ==
    "cancelled" \notin spoilt => Count <= active + Cardinality({c \in Clients : call[c].pc = "register"})
=============================================================================
