---------------------------- MODULE DaemonClient ----------------------------
(***************************************************************************)
(* The operators' connection manager to the node daemons: a per-node       *)
(* connection cache (client.go) in front of which sits a per-node circuit  *)
(* breaker (circuit.go).  The file is the same in both operators up to the *)
(* daemon's name and port.                                                 *)
(*                                                                         *)
(* Callers are reconciler goroutines.  A caller asks Allow, looks the      *)
(* connection up under the read lock, dials under the write lock, and then *)
(* performs one gRPC call.  Time is counted from the events that matter:   *)
(* age[c] since c was admitted, sinceFailure[n] since n's last failure.    *)
(* Local steps take no time; a call is cut off after RequestTimeout.       *)
(***************************************************************************)
EXTENDS Naturals, FiniteSets

CONSTANTS
    Nodes,           \* node IPs
    Callers,         \* concurrent users of the client
    Threshold,       \* DefaultCircuitThreshold
    ResetTimeout,    \* DefaultCircuitResetTimeout, in ticks
    RequestTimeout,  \* DefaultRequestTimeout, in ticks
    FailureCap       \* where the model's failure counter saturates

ASSUME ThresholdAssumption == Threshold \in Nat \ {0}
ASSUME TimeoutAssumption ==
    /\ ResetTimeout \in Nat
    /\ RequestTimeout \in Nat
    /\ RequestTimeout < ResetTimeout      \* 10s and 30s
ASSUME CapAssumption == FailureCap \in Nat /\ FailureCap >= Threshold

VARIABLES
    state,         \* CircuitBreaker.state per node
    failures,      \* CircuitBreaker.failures per node
    sinceFailure,  \* ticks since CircuitBreaker.lastFailure, saturating
    connections,   \* Client.connections: is there an entry for the node
    live,          \* connections dialled and not closed, per node
    pc, node, op, age   \* per caller: where it is, for which node, what call

circuitVars == <<state, failures, sinceFailure>>
connVars == <<connections, live>>
callerVars == <<pc, node, op, age>>
vars == <<circuitVars, connVars, callerVars>>

Ops == {"health",  \* CheckHealth: records its outcome with the breaker
        "rpc"}     \* CreateGuard, DestroyGuard, GetGuardState, Update...
Lower(a, b) == IF a < b THEN a ELSE b

TypeOK ==
    /\ state \in [Nodes -> {"closed", "open", "halfOpen"}]
    /\ failures \in [Nodes -> 0..FailureCap]
    /\ sinceFailure \in [Nodes -> 0..(ResetTimeout + 1)]
    /\ connections \in [Nodes -> {"none", "open"}]
    /\ live \in [Nodes -> Nat]
    /\ pc \in [Callers -> {"idle", "lookup", "dial", "call"}]
    /\ node \in [Callers -> Nodes]
    /\ op \in [Callers -> Ops]
    /\ age \in [Callers -> 0..RequestTimeout]

\* NewClient; a breaker is created closed on first use (getOrCreateCircuit),
\* its zero lastFailure lying further back than any timeout.
Init ==
    /\ state = [n \in Nodes |-> "closed"]
    /\ failures = [n \in Nodes |-> 0]
    /\ sinceFailure = [n \in Nodes |-> ResetTimeout + 1]
    /\ connections = [n \in Nodes |-> "none"]
    /\ live = [n \in Nodes |-> 0]
    /\ pc = [c \in Callers |-> "idle"]
    /\ node \in [Callers -> Nodes]
    /\ op = [c \in Callers |-> "rpc"]
    /\ age = [c \in Callers |-> 0]

Busy(n) == {c \in Callers : pc[c] # "idle" /\ node[c] = n}

-----------------------------------------------------------------------------
(* circuit.go *)

ResetTimeoutElapsed(n) == sinceFailure[n] > ResetTimeout

RecordSuccessClosesAlways(n) ==
    /\ failures' = [failures EXCEPT ![n] = 0]
    /\ state' = [state EXCEPT ![n] = "closed"]
    /\ UNCHANGED sinceFailure

RecordSuccess(n) ==
    /\ failures' = [failures EXCEPT ![n] = 0]
    /\ state' = [state EXCEPT ![n] = IF @ = "halfOpen" THEN "closed" ELSE @]
    /\ UNCHANGED sinceFailure

RecordFailureKeepsTime(n) ==
    /\ failures' = [failures EXCEPT ![n] = Lower(@ + 1, FailureCap)]
    /\ state' = [state EXCEPT ![n] =
                   IF @ = "halfOpen" \/ failures'[n] >= Threshold THEN "open" ELSE @]
    /\ UNCHANGED sinceFailure

RecordFailureLate(n) ==
    /\ failures' = [failures EXCEPT ![n] = Lower(@ + 1, FailureCap)]
    /\ sinceFailure' = [sinceFailure EXCEPT ![n] = 0]
    /\ state' = [state EXCEPT ![n] =
                   IF @ = "halfOpen" \/ failures'[n] > Threshold THEN "open" ELSE @]

RecordFailure(n) ==
    /\ failures' = [failures EXCEPT ![n] = Lower(@ + 1, FailureCap)]
    /\ sinceFailure' = [sinceFailure EXCEPT ![n] = 0]
    /\ state' = [state EXCEPT ![n] =
                   CASE @ = "closed" -> IF failures'[n] >= Threshold THEN "open" ELSE "closed"
                     [] @ = "halfOpen" -> "open"
                     [] @ = "open" -> "open"]

\* Reset, reached through Client.ResetCircuit.
ResetCircuit(n) ==
    /\ state' = [state EXCEPT ![n] = "closed"]
    /\ failures' = [failures EXCEPT ![n] = 0]
    /\ sinceFailure' = [sinceFailure EXCEPT ![n] = ResetTimeout + 1]
    /\ UNCHANGED <<connVars, callerVars>>

-----------------------------------------------------------------------------
(* client.go *)

Usable(n) == connections[n] = "open"

\* GetConnection up to Allow: the breaker admits the caller ...
Admit(c, n, o) ==
    /\ pc[c] = "idle"
    /\ \/ state[n] \in {"closed", "halfOpen"} /\ UNCHANGED state
       \/ /\ state[n] = "open" /\ ResetTimeoutElapsed(n)
          /\ state' = [state EXCEPT ![n] = "halfOpen"]
    /\ pc' = [pc EXCEPT ![c] = "lookup"]
    /\ node' = [node EXCEPT ![c] = n]
    /\ op' = [op EXCEPT ![c] = o]
    /\ age' = [age EXCEPT ![c] = 0]
    /\ UNCHANGED <<failures, sinceFailure, connVars>>

\* ... or the caller gets ErrCircuitOpen and goes away.
FailFast(c, n) ==
    /\ pc[c] = "idle"
    /\ state[n] = "open" /\ ~ResetTimeoutElapsed(n)
    /\ UNCHANGED vars

\* The lookup under the read lock.
Lookup(c) ==
    /\ pc[c] = "lookup"
    /\ pc' = [pc EXCEPT ![c] = IF Usable(node[c]) THEN "call" ELSE "dial"]
    /\ UNCHANGED <<circuitVars, connVars, node, op, age>>

DialUnchecked(c) ==
    /\ pc[c] = "dial"
    /\ connections' = [connections EXCEPT ![node[c]] = "open"]
    /\ live' = [live EXCEPT ![node[c]] = @ + 1]
    /\ pc' = [pc EXCEPT ![c] = "call"]
    /\ UNCHANGED <<circuitVars, node, op, age>>

\* The double check and grpc.NewClient under the write lock.
Dial(c) ==
    /\ pc[c] = "dial"
    /\ \/ /\ Usable(node[c])
          /\ pc' = [pc EXCEPT ![c] = "call"]
          /\ UNCHANGED <<circuitVars, connVars>>
       \/ /\ ~Usable(node[c])
          /\ connections' = [connections EXCEPT ![node[c]] = "open"]
          /\ live' = [live EXCEPT ![node[c]] = @ + 1]
          /\ pc' = [pc EXCEPT ![c] = "call"]
          /\ UNCHANGED circuitVars
       \/ /\ ~Usable(node[c])
          /\ RecordFailure(node[c])
          /\ pc' = [pc EXCEPT ![c] = "idle"]
          /\ UNCHANGED connVars
    /\ UNCHANGED <<node, op, age>>

\* The call returns: CheckHealth tells the breaker, the other RPCs
\* (guard.go, watch.go) do not.
CallSucceeds(c) ==
    /\ pc[c] = "call"
    /\ pc' = [pc EXCEPT ![c] = "idle"]
    /\ IF op[c] = "health" THEN RecordSuccess(node[c]) ELSE UNCHANGED circuitVars
    /\ UNCHANGED <<connVars, node, op, age>>

\* An error, a status other than SERVING, or the request timeout.
CallFails(c) ==
    /\ pc[c] = "call"
    /\ pc' = [pc EXCEPT ![c] = "idle"]
    /\ IF op[c] = "health" THEN RecordFailure(node[c]) ELSE UNCHANGED circuitVars
    /\ UNCHANGED <<connVars, node, op, age>>

\* CloseConnection, and Close for every node: delete the entry, close it.
CloseConnection(n) ==
    /\ connections[n] = "open"
    /\ connections' = [connections EXCEPT ![n] = "none"]
    /\ live' = [live EXCEPT ![n] = @ - 1]
    /\ UNCHANGED <<circuitVars, callerVars>>

TickWithoutDeadline ==
    /\ \A c \in Callers : pc[c] \in {"idle", "call"}
    /\ age' = [c \in Callers |-> IF pc[c] = "call" THEN age[c] + 1 ELSE age[c]]
    /\ sinceFailure' = [n \in Nodes |-> Lower(sinceFailure[n] + 1, ResetTimeout + 1)]
    /\ UNCHANGED <<state, failures, connVars, pc, node, op>>

\* context.WithTimeout(ctx, DefaultRequestTimeout): no call outlives it.
Tick ==
    /\ \A c \in Callers : \/ pc[c] = "idle"
                          \/ pc[c] = "call" /\ age[c] < RequestTimeout
    /\ age' = [c \in Callers |-> IF pc[c] = "call" THEN age[c] + 1 ELSE age[c]]
    /\ sinceFailure' = [n \in Nodes |-> Lower(sinceFailure[n] + 1, ResetTimeout + 1)]
    /\ UNCHANGED <<state, failures, connVars, pc, node, op>>

Next ==
    \/ \E c \in Callers, n \in Nodes :
         \/ \E o \in Ops : Admit(c, n, o)
         \/ FailFast(c, n)
    \/ \E c \in Callers : Lookup(c) \/ Dial(c) \/ CallSucceeds(c) \/ CallFails(c)
    \/ \E n \in Nodes : ResetCircuit(n) \/ CloseConnection(n)
    \/ Tick

Spec == Init /\ [][Next]_vars

-----------------------------------------------------------------------------
(* Properties *)

\* When a breaker goes from open to half-open, no call admitted before is
\* still in flight, so the verdict of the half-open phase can only come from
\* a probe.  It rests on DefaultRequestTimeout being below
\* DefaultCircuitResetTimeout and on every failure refreshing lastFailure.
HalfOpenStartsClean ==
    [][\A n \in Nodes :
          state[n] = "open" /\ state'[n] = "halfOpen" => Busy(n) = {}]_vars

\* An open breaker closes only through a half-open phase or a manual reset: a
\* late success of a call admitted before the trip never closes it.
OpenRecoversThroughProbe ==
    [][\A n \in Nodes :
          state[n] = "open" /\ state'[n] = "closed" => ResetCircuit(n)]_vars

\* A closed breaker has always counted fewer failures than the threshold, so
\* it opens on exactly the Threshold-th failure in a row.
ClosedBelowThreshold ==
    \A n \in Nodes : state[n] = "closed" => failures[n] < Threshold

\* GetConnection never leaks a connection: however callers race between the
\* lookup and the dial, a dialled connection that is not closed is the one in
\* the map.
NoConnectionLeak ==
    \A n \in Nodes : live[n] = IF Usable(n) THEN 1 ELSE 0
=============================================================================
