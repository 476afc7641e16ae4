------------------------- MODULE DaemonClientProofs -------------------------
(***************************************************************************)
(* Proofs about DaemonClient, for any number of nodes and callers and any  *)
(* threshold and timeouts with RequestTimeout < ResetTimeout.              *)
(***************************************************************************)
EXTENDS DaemonClient, TLAPS

\* A caller that has not reached its call was admitted in this instant, a
\* caller at an open breaker was admitted no later than the breaker's last
\* failure, and a node's dialled connection is the one in the map.
IInv ==
    /\ TypeOK
    /\ ClosedBelowThreshold
    /\ NoConnectionLeak
    /\ \A c \in Callers : state[node[c]] = "open" /\ pc[c] # "idle"
                             => age[c] >= sinceFailure[node[c]]

\* NewClient's breakers and connection map satisfy the inductive invariant.
LEMMA InitIInv == Init => IInv
  BY ThresholdAssumption, TimeoutAssumption, CapAssumption
  DEF Init, IInv, TypeOK, ClosedBelowThreshold, NoConnectionLeak, Usable, Ops

\* RecordFailure keeps the breaker well-formed: the counter saturates, the
\* threshold-th failure opens the breaker, and lastFailure becomes now.
LEMMA RecordFailureFacts ==
    ASSUME TypeOK, ClosedBelowThreshold, NEW n \in Nodes, RecordFailure(n)
    PROVE  /\ state' \in [Nodes -> {"closed", "open", "halfOpen"}]
           /\ failures' \in [Nodes -> 0..FailureCap]
           /\ sinceFailure' \in [Nodes -> 0..(ResetTimeout + 1)]
           /\ ClosedBelowThreshold'
           /\ sinceFailure'[n] = 0
           /\ \A m \in Nodes \ {n} : state'[m] = state[m] /\ sinceFailure'[m] = sinceFailure[m]
           /\ state'[n] # "halfOpen"
           /\ state[n] = "open" => state'[n] = "open"
  BY ThresholdAssumption, TimeoutAssumption, CapAssumption
  DEF TypeOK, ClosedBelowThreshold, RecordFailure, Lower

\* RecordSuccess clears the counter and closes only a half-open breaker.
LEMMA RecordSuccessFacts ==
    ASSUME TypeOK, ClosedBelowThreshold, NEW n \in Nodes, RecordSuccess(n)
    PROVE  /\ state' \in [Nodes -> {"closed", "open", "halfOpen"}]
           /\ failures' \in [Nodes -> 0..FailureCap]
           /\ sinceFailure' = sinceFailure
           /\ ClosedBelowThreshold'
           /\ \A m \in Nodes : state'[m] = "open" <=> state[m] = "open"
           /\ \A m \in Nodes : state'[m] = "halfOpen" => state[m] = "halfOpen"
  BY ThresholdAssumption, TimeoutAssumption, CapAssumption
  DEF TypeOK, ClosedBelowThreshold, RecordSuccess

\* Every step of the client preserves the inductive invariant.
LEMMA NextIInv == IInv /\ [Next]_vars => IInv'
  <1> SUFFICES ASSUME IInv, [Next]_vars PROVE IInv'
    OBVIOUS
  <1> USE ThresholdAssumption, TimeoutAssumption, CapAssumption
  <1>1. ASSUME NEW c \in Callers, NEW n \in Nodes, NEW o \in Ops, Admit(c, n, o)
        PROVE  IInv'
    BY <1>1 DEF IInv, TypeOK, ClosedBelowThreshold, NoConnectionLeak, Usable,
                Admit, connVars, ResetTimeoutElapsed
  <1>2. ASSUME NEW c \in Callers, NEW n \in Nodes, FailFast(c, n)
        PROVE  IInv'
    BY <1>2 DEF IInv, TypeOK, ClosedBelowThreshold, NoConnectionLeak, Usable,
                FailFast, vars, circuitVars, connVars, callerVars
  <1>3. ASSUME NEW c \in Callers, Lookup(c)
        PROVE  IInv'
    BY <1>3 DEF IInv, TypeOK, ClosedBelowThreshold, NoConnectionLeak, Usable,
                Lookup, circuitVars, connVars
  <1>4. ASSUME NEW c \in Callers, Dial(c)
        PROVE  IInv'
    <2>0. node[c] \in Nodes
      BY DEF IInv, TypeOK
    <2>1. CASE Usable(node[c]) /\ UNCHANGED <<circuitVars, connVars>>
      BY <1>4, <2>1 DEF IInv, TypeOK, ClosedBelowThreshold, NoConnectionLeak, Usable,
                  Dial, circuitVars, connVars
    <2>2. CASE /\ ~Usable(node[c])
               /\ connections' = [connections EXCEPT ![node[c]] = "open"]
               /\ live' = [live EXCEPT ![node[c]] = @ + 1]
               /\ UNCHANGED circuitVars
      BY <1>4, <2>0, <2>2 DEF IInv, TypeOK, ClosedBelowThreshold, NoConnectionLeak, Usable,
                  Dial, circuitVars, connVars
    <2>3. CASE RecordFailure(node[c]) /\ UNCHANGED connVars
      <3>1. TypeOK'
        BY <1>4, <2>0, <2>3, RecordFailureFacts DEF IInv, TypeOK, Dial, connVars, circuitVars
      <3>2. ClosedBelowThreshold' /\ NoConnectionLeak'
        BY <1>4, <2>0, <2>3, RecordFailureFacts DEF IInv, NoConnectionLeak, Usable, connVars
      <3>3. ASSUME NEW d \in Callers, state'[node'[d]] = "open", pc'[d] # "idle"
            PROVE  age'[d] >= sinceFailure'[node'[d]]
        <4>1. /\ age' = age /\ node' = node
              /\ pc[d] # "idle"
          BY <1>4, <3>3 DEF Dial, IInv, TypeOK
        <4>2. CASE node[d] = node[c]
          BY <2>0, <2>3, <4>1, <4>2, RecordFailureFacts DEF IInv, TypeOK
        <4>3. CASE node[d] # node[c]
          BY <2>0, <2>3, <3>3, <4>1, <4>3, RecordFailureFacts DEF IInv, TypeOK
        <4> QED BY <4>2, <4>3
      <3> QED BY <3>1, <3>2, <3>3 DEF IInv
    <2> QED BY <1>4, <2>1, <2>2, <2>3 DEF Dial
  <1>5. ASSUME NEW c \in Callers, CallSucceeds(c)
        PROVE  IInv'
    <2>0. node[c] \in Nodes
      BY DEF IInv, TypeOK
    <2>1. CASE UNCHANGED circuitVars
      BY <1>5, <2>0, <2>1 DEF IInv, TypeOK, ClosedBelowThreshold, NoConnectionLeak, Usable,
                  CallSucceeds, circuitVars, connVars
    <2>2. CASE RecordSuccess(node[c])
      <3>1. TypeOK' /\ ClosedBelowThreshold' /\ NoConnectionLeak'
        BY <1>5, <2>0, <2>2, RecordSuccessFacts
        DEF IInv, TypeOK, NoConnectionLeak, Usable, CallSucceeds, connVars
      <3>2. \A d \in Callers : state'[node'[d]] = "open" /\ pc'[d] # "idle"
                             => age'[d] >= sinceFailure'[node'[d]]
        BY <1>5, <2>0, <2>2, RecordSuccessFacts DEF IInv, TypeOK, CallSucceeds
      <3> QED BY <3>1, <3>2 DEF IInv
    <2> QED BY <1>5, <2>1, <2>2 DEF CallSucceeds
  <1>6. ASSUME NEW c \in Callers, CallFails(c)
        PROVE  IInv'
    <2>0. node[c] \in Nodes
      BY DEF IInv, TypeOK
    <2>1. CASE UNCHANGED circuitVars
      BY <1>6, <2>0, <2>1 DEF IInv, TypeOK, ClosedBelowThreshold, NoConnectionLeak, Usable,
                  CallFails, circuitVars, connVars, Lower
    <2>2. CASE RecordFailure(node[c])
      <3>1. TypeOK' /\ ClosedBelowThreshold' /\ NoConnectionLeak'
        BY <1>6, <2>0, <2>2, RecordFailureFacts
        DEF IInv, TypeOK, NoConnectionLeak, Usable, CallFails, connVars, Lower
      <3>2. ASSUME NEW d \in Callers, state'[node'[d]] = "open", pc'[d] # "idle"
            PROVE  age'[d] >= sinceFailure'[node'[d]]
        <4>1. age' = age /\ node' = node /\ pc[d] # "idle"
          BY <1>6, <3>2 DEF CallFails, IInv, TypeOK
        <4>2. CASE node[d] = node[c]
          BY <2>0, <2>2, <4>1, <4>2, RecordFailureFacts DEF IInv, TypeOK
        <4>3. CASE node[d] # node[c]
          BY <2>0, <2>2, <3>2, <4>1, <4>3, RecordFailureFacts DEF IInv, TypeOK
        <4> QED BY <4>2, <4>3
      <3> QED BY <3>1, <3>2 DEF IInv
    <2> QED BY <1>6, <2>1, <2>2 DEF CallFails
  <1>7. ASSUME NEW n \in Nodes, ResetCircuit(n)
        PROVE  IInv'
    BY <1>7 DEF IInv, TypeOK, ClosedBelowThreshold, NoConnectionLeak, Usable,
                ResetCircuit, connVars, callerVars
  <1>8. ASSUME NEW n \in Nodes, CloseConnection(n)
        PROVE  IInv'
    BY <1>8 DEF IInv, TypeOK, ClosedBelowThreshold, NoConnectionLeak, Usable,
                CloseConnection, circuitVars, callerVars
  <1>9. ASSUME Tick
        PROVE  IInv'
    <2>1. TypeOK' /\ ClosedBelowThreshold' /\ NoConnectionLeak'
      BY <1>9 DEF IInv, TypeOK, ClosedBelowThreshold, NoConnectionLeak, Usable,
                  Tick, connVars, Lower
    <2>2. \A c \in Callers : state'[node'[c]] = "open" /\ pc'[c] # "idle"
                             => age'[c] >= sinceFailure'[node'[c]]
      BY <1>9 DEF IInv, TypeOK, Tick, connVars, Lower
    <2> QED BY <2>1, <2>2 DEF IInv
  <1>10. CASE UNCHANGED vars
    BY <1>10 DEF IInv, TypeOK, ClosedBelowThreshold, NoConnectionLeak, Usable,
                 vars, circuitVars, connVars, callerVars
  <1> QED
    BY <1>1, <1>2, <1>3, <1>4, <1>5, <1>6, <1>7, <1>8, <1>9, <1>10 DEF Next

\* In every reachable state of the client the inductive invariant holds.
LEMMA Invariance == Spec => []IInv
  BY InitIInv, NextIInv, PTL DEF Spec

\* Type correctness of the client and its breakers (client.go, circuit.go).
THEOREM TypeCorrect == Spec => []TypeOK
  <1>1. IInv => TypeOK
    BY DEF IInv
  <1> QED BY <1>1, Invariance, PTL

\* A closed breaker is always below the threshold: RecordFailure opens it on
\* exactly the Threshold-th consecutive failure.
THEOREM TripsAtThreshold == Spec => []ClosedBelowThreshold
  <1>1. IInv => ClosedBelowThreshold
    BY DEF IInv
  <1> QED BY <1>1, Invariance, PTL

\* GetConnection's double-checked locking leaks no connection.
THEOREM ConnectionsNotLeaked == Spec => []NoConnectionLeak
  <1>1. IInv => NoConnectionLeak
    BY DEF IInv
  <1> QED BY <1>1, Invariance, PTL

\* No call admitted earlier is in flight when a breaker becomes half-open, for
\* any timeouts with RequestTimeout < ResetTimeout.
THEOREM ProbesDecide == Spec => HalfOpenStartsClean
  <1>1. IInv /\ [Next]_vars =>
          [\A n \in Nodes :
             state[n] = "open" /\ state'[n] = "halfOpen" => Busy(n) = {}]_vars
    <2> SUFFICES ASSUME IInv, Next, NEW n \in Nodes,
                        state[n] = "open", state'[n] = "halfOpen",
                        NEW d \in Callers, pc[d] # "idle", node[d] = n
                 PROVE  FALSE
      BY DEF Busy
    <2>1. sinceFailure[n] > ResetTimeout
      <3>1. ASSUME NEW c \in Callers, NEW m \in Nodes, NEW o \in Ops, Admit(c, m, o)
            PROVE  sinceFailure[n] > ResetTimeout
        BY <3>1 DEF IInv, TypeOK, Admit, ResetTimeoutElapsed
      <3>2. ASSUME NEW c \in Callers, Dial(c) \/ CallFails(c) \/ CallSucceeds(c)
            PROVE  FALSE
        <4>0. node[c] \in Nodes
          BY DEF IInv, TypeOK
        <4>1. \/ UNCHANGED circuitVars
              \/ RecordFailure(node[c])
              \/ RecordSuccess(node[c])
          BY <3>2 DEF Dial, CallFails, CallSucceeds
        <4>2. CASE UNCHANGED circuitVars
          BY <4>2 DEF circuitVars
        <4>3. CASE RecordFailure(node[c])
          BY <4>0, <4>3, RecordFailureFacts DEF IInv
        <4>4. CASE RecordSuccess(node[c])
          BY <4>0, <4>4, RecordSuccessFacts DEF IInv
        <4> QED BY <4>1, <4>2, <4>3, <4>4
      <3>3. ASSUME NEW m \in Nodes, ResetCircuit(m)
            PROVE  FALSE
        BY <3>3 DEF ResetCircuit, IInv, TypeOK
      <3> QED
        BY <3>1, <3>2, <3>3
        DEF Next, FailFast, Lookup, CloseConnection, Tick, vars, circuitVars
    <2>2. age[d] >= sinceFailure[n] /\ age[d] <= RequestTimeout
      BY DEF IInv, TypeOK
    <2> QED BY <2>1, <2>2, TimeoutAssumption DEF IInv, TypeOK
  <1> QED BY <1>1, Invariance, PTL DEF Spec, HalfOpenStartsClean

\* A late success of a call admitted before the trip never closes an open
\* breaker: it closes by a probe or a manual reset (RecordSuccess).
THEOREM ClosesThroughProbe == Spec => OpenRecoversThroughProbe
  <1>1. IInv /\ [Next]_vars =>
          [\A n \in Nodes :
             state[n] = "open" /\ state'[n] = "closed" => ResetCircuit(n)]_vars
    <2> SUFFICES ASSUME IInv, Next, NEW n \in Nodes, state[n] = "open", state'[n] = "closed"
                 PROVE  ResetCircuit(n)
      OBVIOUS
    <2>1. ASSUME NEW c \in Callers, NEW m \in Nodes, NEW o \in Ops, Admit(c, m, o)
          PROVE  FALSE
      BY <2>1 DEF IInv, TypeOK, Admit
    <2>2. ASSUME NEW c \in Callers, Dial(c) \/ CallFails(c) \/ CallSucceeds(c)
          PROVE  FALSE
      <3>0. node[c] \in Nodes
        BY DEF IInv, TypeOK
      <3>1. \/ UNCHANGED circuitVars
            \/ RecordFailure(node[c])
            \/ RecordSuccess(node[c])
        BY <2>2 DEF Dial, CallFails, CallSucceeds
      <3>2. CASE UNCHANGED circuitVars
        BY <3>2 DEF circuitVars
      <3>3. CASE RecordFailure(node[c])
        BY <3>0, <3>3, RecordFailureFacts DEF IInv
      <3>4. CASE RecordSuccess(node[c])
        BY <3>0, <3>4 DEF RecordSuccess, IInv, TypeOK
      <3> QED BY <3>1, <3>2, <3>3, <3>4
    <2>3. ASSUME NEW m \in Nodes, ResetCircuit(m)
          PROVE  m = n
      BY <2>3 DEF ResetCircuit, IInv, TypeOK
    <2> QED
      BY <2>1, <2>2, <2>3
      DEF Next, FailFast, Lookup, CloseConnection, Tick, vars, circuitVars
  <1> QED BY <1>1, Invariance, PTL DEF Spec, OpenRecoversThroughProbe
=============================================================================
