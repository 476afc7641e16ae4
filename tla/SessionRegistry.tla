--------------------------- MODULE SessionRegistry ---------------------------
(***************************************************************************)
(* What SessionManager (common/src/session.rs) promises the callers of a   *)
(* daemon: a map of at most MaxSessions sessions in which every call takes *)
(* effect, or is refused, at one moment between its invocation and its     *)
(* answer.                                                                 *)
(***************************************************************************)
EXTENDS Naturals, FiniteSets

CONSTANTS Keys, Clients, MaxSessions

VARIABLES
    live,    \* the keys of the sessions in the map
    call,    \* per client: the phase of its call and the key it is about
    answer   \* what was answered by the last step, and to whom

vars == <<live, call, answer>>

Idle == [phase |-> "idle"]
NoAnswer == [reply |-> "none"]

Init ==
    /\ live = {}
    /\ call = [c \in Clients |-> Idle]
    /\ answer = NoAnswer

Phase(c, p) == call[c].phase = p
Key(c) == call[c].key
Goto(c, p, k) ==
    /\ call' = [call EXCEPT ![c] = [phase |-> p, key |-> k]]
    /\ answer' = NoAnswer
Answer(c, r) ==
    /\ call' = [call EXCEPT ![c] = Idle]
    /\ answer' = [reply |-> r, client |-> c]

Invoke(c, k) ==
    /\ Phase(c, "idle")
    /\ \E p \in {"creating", "removing", "reading"} : Goto(c, p, k)
    /\ UNCHANGED live

\* A create adds its key if it is absent and there is room, ...
Add(c) ==
    /\ Phase(c, "creating") /\ Key(c) \notin live /\ Cardinality(live) < MaxSessions
    /\ live' = live \cup {Key(c)}
    /\ Goto(c, "created", Key(c))

\* ... or is refused because it is present or because there is none.
Refuse(c) ==
    /\ Phase(c, "creating")
    /\ \/ Key(c) \in live /\ Answer(c, "exists")
       \/ (Key(c) \in live \/ Cardinality(live) >= MaxSessions) /\ Answer(c, "exhausted")
    /\ UNCHANGED live

\* Removing takes the session out of the map; there may be none.
Remove(c) ==
    /\ Phase(c, "removing") /\ Key(c) \in live
    /\ live' = live \ {Key(c)}
    /\ Goto(c, "removed", Key(c))

RemoveNothing(c) ==
    /\ Phase(c, "removing") /\ Key(c) \notin live
    /\ Answer(c, "ok")
    /\ UNCHANGED live

\* A reading call may answer that there is no such session.
Miss(c) ==
    /\ Phase(c, "reading") /\ Key(c) \notin live
    /\ Answer(c, "notfound")
    /\ UNCHANGED live

\* Ok is the answer of calls that took effect only.
Finish(c) ==
    /\ Phase(c, "created") \/ Phase(c, "removed") \/ Phase(c, "reading")
    /\ \E r \in {"ok", "failed"} : Answer(c, r)
    /\ UNCHANGED live

Abandon(c) ==
    /\ ~Phase(c, "idle")
    /\ Answer(c, "cancelled")
    /\ UNCHANGED live

\* A step of the caller's own, or of somebody else, that the registry does
\* not notice.
Proceed == answer' = NoAnswer /\ UNCHANGED <<live, call>>

Next ==
    \/ \E c \in Clients :
         \/ \E k \in Keys : Invoke(c, k)
         \/ Add(c) \/ Refuse(c) \/ Remove(c) \/ RemoveNothing(c)
         \/ Miss(c) \/ Finish(c) \/ Abandon(c)
    \/ Proceed

Spec == Init /\ [][Next]_vars
=============================================================================
