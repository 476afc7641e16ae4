------------------------- MODULE JanusdServiceProofs -------------------------
(***************************************************************************)
(* Proofs about JanusdService for any finite sets of keys and clients, any *)
(* limit and any number of sessions.  Inductive invariants build on each   *)
(* other: typing with the allocation budget, the overshoot bound, the      *)
(* ownership of guards under construction, and the count of collectors.    *)
(***************************************************************************)
EXTENDS JanusdService, FiniteSetTheorems, TLAPS

Owning == {"register", "setup", "ready"}           \* holds a new incarnation
Holding == Owning \cup {"stop", "unregister", "update"}

\* Typing, that incarnations in use are allocated, and that creates in flight
\* have room left to allocate theirs.
TInv ==
    /\ TypeOK
    /\ created + Cardinality(InFlightCreates) <= MaxIncarnations
    /\ \A k \in Keys : sessions[k] <= created
    /\ \A c \in Clients : inc[c] <= created /\ (pc[c] \in Holding => inc[c] >= 1)

\* A guard under construction belongs to one call, is not ready and has no loop;
\* a ready session's guard is open, looping and marked.
RInv ==
    /\ \A c, d \in Clients : pc[c] \in Owning /\ pc[d] \in Owning /\ inc[c] = inc[d] => c = d
    /\ \A c \in Clients : pc[c] \in Owning => heap[inc[c]].ready = FALSE
    /\ \A c \in Clients : pc[c] \in {"register", "setup"} => inc[c] \notin guards
    /\ \A c \in Clients : pc[c] = "ready" =>
         /\ inc[c] \in guards /\ inc[c] \notin loops
         /\ heap[inc[c]].pids > 0 => marks[inc[c]] > 0
    /\ \A i \in loops : i \in guards /\ guardRunning[i] = TRUE
    /\ \A i \in guards : i <= created
    /\ \A i \in Incarnations : i <= created /\ heap[i].ready = TRUE =>
         /\ i \in loops
         /\ heap[i].pids > 0 => marks[i] > 0
         /\ heap[i].mounts = marks[i]

\* Adding and removing one element changes a finite cardinality by at most one.
LEMMA OneElement ==
    ASSUME NEW S, IsFiniteSet(S), NEW x
    PROVE  /\ Cardinality(S) \in Nat
           /\ IsFiniteSet(S \cup {x}) /\ IsFiniteSet(S \ {x})
           /\ Cardinality(S \cup {x}) <= Cardinality(S) + 1
           /\ x \notin S => Cardinality(S \cup {x}) = Cardinality(S) + 1
           /\ Cardinality(S \ {x}) <= Cardinality(S)
           /\ x \in S => Cardinality(S) >= 1 /\ Cardinality(S \ {x}) = Cardinality(S) - 1
  <1>1. Cardinality(S) \in Nat
    BY FS_CardinalityType
  <1>2. /\ IsFiniteSet(S \cup {x})
        /\ Cardinality(S \cup {x}) = IF x \in S THEN Cardinality(S) ELSE Cardinality(S) + 1
    BY FS_AddElement
  <1>3. /\ IsFiniteSet(S \ {x})
        /\ Cardinality(S \ {x}) = IF x \in S THEN Cardinality(S) - 1 ELSE Cardinality(S)
    BY FS_RemoveElement
  <1>4. Cardinality(S \ {x}) \in Nat
    BY <1>3, FS_CardinalityType
  <1> QED BY <1>1, <1>2, <1>3, <1>4

\* The sets of present keys and of creates in flight are finite.
LEMMA Finite ==
    /\ IsFiniteSet(Present) /\ IsFiniteSet(InFlightCreates)
    /\ IsFiniteSet(Present') /\ IsFiniteSet(InFlightCreates')
    /\ Cardinality(Clients) \in Nat /\ Cardinality(Clients) >= 1
    /\ Cardinality(Present) \in Nat /\ Cardinality(Present') \in Nat
    /\ Cardinality(InFlightCreates) \in Nat /\ Cardinality(InFlightCreates') \in Nat
    /\ Cardinality(InFlightCreates) <= Cardinality(Clients)
    /\ Cardinality(InFlightCreates') <= Cardinality(Clients)
  <1>1. Present \subseteq Keys /\ Present' \subseteq Keys
    BY DEF Present
  <1>2. InFlightCreates \subseteq Clients /\ InFlightCreates' \subseteq Clients
    BY DEF InFlightCreates
  <1>3. IsFiniteSet(Clients) /\ IsFiniteSet(Keys) /\ Clients # {}
    BY ConstantsAssumption
  <1>4. IsFiniteSet(Present) /\ IsFiniteSet(Present')
    BY <1>1, <1>3, FS_Subset
  <1>5. /\ IsFiniteSet(InFlightCreates) /\ IsFiniteSet(InFlightCreates')
        /\ Cardinality(InFlightCreates) <= Cardinality(Clients)
        /\ Cardinality(InFlightCreates') <= Cardinality(Clients)
    BY <1>2, <1>3, FS_Subset
  <1>6. Cardinality(Clients) \in Nat /\ Cardinality(Clients) # 0
    BY <1>3, FS_CardinalityType, FS_EmptySet
  <1> QED BY <1>4, <1>5, <1>6, FS_CardinalityType

\* The placeholder request is a request.
LEMMA NoRequestType == NoRequest \in Requests
  <1>1. PICK k \in Keys, p \in Policies : TRUE
    BY ConstantsAssumption
  <1>2. [key |-> k, paused |-> TRUE, pids |-> 0, policy |-> p, action |-> "pause"] \in Requests
    BY <1>1, ConstantsAssumption DEF Requests, Actions
  <1> QED BY <1>2 DEF NoRequest

\* Moving a client to another step moves it in or out of the creates in flight.
LEMMA GotoInFlight ==
    ASSUME TypeOK, NEW c \in Clients, NEW s, Goto(c, s)
    PROVE  InFlightCreates' = IF s \in {"exists", "insert"}
                                THEN InFlightCreates \cup {c} ELSE InFlightCreates \ {c}
  BY DEF TypeOK, Goto, InFlightCreates

\* A step that leaves the map's size and the allocation alone and moves at most
\* one client out of the creates in flight keeps their number bounded.
LEMMA LeaveInFlight ==
    ASSUME TypeOK, NEW c \in Clients, NEW s \in Steps \ {"exists", "insert"}, Goto(c, s)
    PROVE  /\ Cardinality(InFlightCreates') <= Cardinality(InFlightCreates)
           /\ c \in InFlightCreates =>
                Cardinality(InFlightCreates') = Cardinality(InFlightCreates) - 1
  <1>1. InFlightCreates' = InFlightCreates \ {c}
    BY GotoInFlight
  <1> QED BY <1>1, Finite, OneElement

\* Moving a client, returning from a handler and updating a session keep types.
LEMMA GotoType ==
    ASSUME TypeOK, NEW c \in Clients, NEW s \in Steps, Goto(c, s)
    PROVE  pc' \in [Clients -> Steps]
  BY DEF TypeOK, Goto

LEMMA ReturnType ==
    ASSUME TypeOK, NEW c \in Clients, Return(c)
    PROVE  /\ pc' \in [Clients -> Steps]
           /\ req' \in [Clients -> Requests]
           /\ inc' \in [Clients -> 0..MaxIncarnations]
  <1>1. 0 \in 0..MaxIncarnations
    BY ConstantsAssumption
  <1>2. pc' \in [Clients -> Steps]
    BY GotoType DEF Return, Steps
  <1> QED BY <1>1, <1>2, NoRequestType DEF TypeOK, Return

LEMMA SessionUpdates ==
    ASSUME TypeOK, NEW i \in Incarnations
    PROVE  /\ [heap EXCEPT ![i].running = FALSE] \in [Incarnations -> Session]
           /\ [heap EXCEPT ![i].paused = TRUE, ![i].running = FALSE] \in [Incarnations -> Session]
           /\ \A p \in Policies : [heap EXCEPT ![i].policy = p] \in [Incarnations -> Session]
           /\ \A m \in 0..MaxPids :
                [heap EXCEPT ![i].ready = TRUE, ![i].mounts = m] \in [Incarnations -> Session]
  <1>1. heap[i] \in Session
    BY DEF TypeOK
  <1>2. [heap[i] EXCEPT !.running = FALSE] \in Session
    BY <1>1 DEF Session
  <1>3. [heap[i] EXCEPT !.paused = TRUE, !.running = FALSE] \in Session
    BY <1>1 DEF Session
  <1>4. \A p \in Policies : [heap[i] EXCEPT !.policy = p] \in Session
    BY <1>1 DEF Session
  <1>5. \A m \in 0..MaxPids : [heap[i] EXCEPT !.ready = TRUE, !.mounts = m] \in Session
    BY <1>1 DEF Session
  <1> QED BY <1>2, <1>3, <1>4, <1>5 DEF TypeOK

\* The typing invariant holds initially.
LEMMA InitTInv == Init => TInv
  <1> SUFFICES ASSUME Init PROVE TInv
    OBVIOUS
  <1> USE ConstantsAssumption
  <1>1. PICK k \in Keys, p \in Policies : TRUE
    OBVIOUS
  <1>2. [key |-> k, paused |-> TRUE, running |-> TRUE, ready |-> TRUE,
         pids |-> 0, mounts |-> 0, policy |-> p] \in Session
    BY <1>1 DEF Session
  <1>3. (CHOOSE s \in Session : TRUE) \in Session
    BY <1>2
  <1>4. TypeOK
    <2>1. heap \in [Incarnations -> Session] /\ config \in [Incarnations -> Policies]
      BY <1>1, <1>3 DEF Init
    <2>2. /\ sessions \in [Keys -> 0..MaxIncarnations] /\ created \in 0..MaxIncarnations
          /\ collectors \in [Names -> Nat] /\ marks \in [Incarnations -> 0..MaxPids]
          /\ left \in Nat /\ buffered \in 0..StreamCapacity
          /\ inc \in [Clients -> 0..MaxIncarnations]
      BY DEF Init
    <2>3. /\ guards \subseteq Incarnations /\ loops \subseteq Incarnations
          /\ guardRunning \in [Incarnations -> BOOLEAN] /\ streaming \in BOOLEAN
          /\ pc \in [Clients -> Steps] /\ req \in [Clients -> Requests]
      BY NoRequestType DEF Init, Steps
    <2> QED BY <2>1, <2>2, <2>3 DEF TypeOK
  <1>5. InFlightCreates = {}
    BY DEF Init, InFlightCreates
  <1>6. Cardinality(InFlightCreates) = 0
    BY <1>5, FS_EmptySet
  <1> QED BY <1>4, <1>6 DEF Init, TInv, Holding, Owning

\* Every step preserves the typing invariant.
LEMMA NextTInv == TInv /\ [Next]_vars => TInv'
  <1> SUFFICES ASSUME TInv, [Next]_vars PROVE TInv'
    OBVIOUS
  <1> USE ConstantsAssumption
  <1>t. TypeOK
    BY DEF TInv
  <1>e. ASSUME NEW c \in Clients,
               Return(c) \/ (Goto(c, "unregister") /\ inc' = inc /\ inc[c] >= 1),
               TypeOK', Cardinality(InFlightCreates') <= Cardinality(InFlightCreates),
               sessions' = sessions, created' = created
        PROVE  TInv'
    <2>1. created' + Cardinality(InFlightCreates') <= MaxIncarnations
      <3>1. created \in Nat /\ created + Cardinality(InFlightCreates) <= MaxIncarnations
        BY <1>t DEF TInv, TypeOK
      <3>2. Cardinality(InFlightCreates) \in Nat /\ Cardinality(InFlightCreates') \in Nat
        BY Finite
      <3> QED BY <1>e, <3>1, <3>2
    <2>2. \A k \in Keys : sessions'[k] <= created'
      BY <1>e DEF TInv
    <2>3. \A d \in Clients \ {c} : inc'[d] = inc[d] /\ pc'[d] = pc[d]
      BY <1>t, <1>e DEF TypeOK, Return, Goto
    <2>4. inc'[c] <= created' /\ (pc'[c] \in Holding => inc'[c] >= 1)
      <3>1. CASE Return(c)
        <4>1. inc'[c] = 0 /\ pc'[c] = "idle" /\ created' \in Nat
          BY <1>t, <1>e, <3>1 DEF TypeOK, Return, Goto
        <4>2. "idle" \notin Holding
          BY DEF Holding, Owning
        <4> QED BY <4>1, <4>2
      <3>2. CASE inc' = inc /\ inc[c] >= 1
        BY <1>e, <3>2 DEF TInv
      <3> QED BY <1>e, <3>1, <3>2
    <2>5. \A d \in Clients \ {c} : inc'[d] <= created' /\ (pc'[d] \in Holding => inc'[d] >= 1)
      BY <1>e, <2>3 DEF TInv
    <2> QED BY <1>e, <2>1, <2>2, <2>4, <2>5 DEF TInv
  <1>1. ASSUME NEW c \in Clients, NEW k \in Keys, NEW paused \in BOOLEAN,
               NEW n \in 0..MaxPids, NEW p \in Policies, CreateCount(c, k, paused, n, p)
        PROVE  TInv'
    <2>1. CASE UNCHANGED clientVars
      BY <1>1, <2>1 DEF TInv, TypeOK, CreateCount, InFlightCreates, clientVars, serviceVars,
                        guardVars, streamVars
    <2>2. CASE Call(c, "exists", [NoRequest EXCEPT !.key = k, !.paused = paused,
                                                   !.pids = n, !.policy = p])
      <3>1. [NoRequest EXCEPT !.key = k, !.paused = paused, !.pids = n, !.policy = p] \in Requests
        BY NoRequestType DEF Requests
      <3>2. InFlightCreates' = InFlightCreates \cup {c}
        BY <1>t, <2>2, GotoInFlight DEF Call
      <3>3. Cardinality(InFlightCreates') <= Cardinality(InFlightCreates) + 1
        BY <3>2, Finite, OneElement
      <3>4. TypeOK'
        BY <1>t, <1>1, <2>2, <3>1 DEF TypeOK, CreateCount, Call, Goto, serviceVars, guardVars,
                                streamVars, Steps, CreateSteps
      <3>5. created' + Cardinality(InFlightCreates') <= MaxIncarnations
        BY <1>t, <1>1, <3>3, Finite DEF CreateCount, serviceVars, TypeOK
      <3> QED BY <1>1, <2>2, <3>4, <3>5 DEF TInv, TypeOK, CreateCount, Call, Goto, serviceVars,
                                            Holding, Owning
    <2> QED BY <1>1, <2>1, <2>2 DEF CreateCount
  <1>2. ASSUME NEW c \in Clients, CreateExists(c)
        PROVE  TInv'
    <2>1. CASE Return(c)
      <3>1. TypeOK'
        BY <1>t, <1>2, <2>1, NoRequestType DEF TypeOK, CreateExists, Return, Goto, serviceVars,
                        guardVars, streamVars, Steps, CreateSteps
      <3>2. Cardinality(InFlightCreates') <= Cardinality(InFlightCreates)
        BY <1>t, <2>1, LeaveInFlight DEF Return, Steps
      <3> QED BY <1>2, <2>1, <3>1, <3>2, Finite DEF TInv, TypeOK, CreateExists, Return, Goto,
                        serviceVars, Holding, Owning
    <2>2. CASE Goto(c, "insert") /\ UNCHANGED <<req, inc>>
      <3>1. InFlightCreates' = InFlightCreates
        BY <1>t, <1>2, <2>2, GotoInFlight DEF CreateExists, InFlightCreates
      <3> QED BY <1>2, <2>2, <3>1 DEF TInv, TypeOK, CreateExists, Goto, serviceVars,
                        guardVars, streamVars, Holding, Owning, Steps, CreateSteps
    <2> QED BY <1>2, <2>1, <2>2 DEF CreateExists
  <1>3. ASSUME NEW c \in Clients, CreateInsert(c)
        PROVE  TInv'
    <2>1. c \in InFlightCreates
      BY <1>3 DEF CreateInsert, InFlightCreates
    <2>2. Cardinality(InFlightCreates') = Cardinality(InFlightCreates) - 1
      BY <1>t, <1>3, <2>1, LeaveInFlight DEF CreateInsert, InsertSession, Steps, CreateSteps
    <2>3. created + 1 \in Incarnations
      <3>1. Cardinality(InFlightCreates) >= 1
        BY <2>1, Finite, OneElement
      <3> QED BY <1>t, <3>1, Finite DEF TInv, TypeOK, Incarnations
    <2>4. NewSession(req[c]) \in Session
      BY <1>t DEF TypeOK, Requests, Session, NewSession
    <2>5. TypeOK'
      <3>1. heap' \in [Incarnations -> Session]
        BY <1>t, <1>3, <2>3, <2>4 DEF TypeOK, CreateInsert, InsertSession
      <3>2. /\ created' \in 0..MaxIncarnations
            /\ sessions' \in [Keys -> 0..MaxIncarnations]
            /\ inc' \in [Clients -> 0..MaxIncarnations]
        BY <1>t, <1>3, <2>3 DEF TypeOK, CreateInsert, InsertSession, Requests, Incarnations
      <3>3. pc' \in [Clients -> Steps]
        BY <1>t, <1>3, GotoType DEF CreateInsert, InsertSession, Steps, CreateSteps
      <3> QED BY <1>t, <1>3, <3>1, <3>2, <3>3 DEF TypeOK, CreateInsert, InsertSession, guardVars,
                  streamVars
    <2>6. created' + Cardinality(InFlightCreates') <= MaxIncarnations
      BY <1>t, <1>3, <2>2, Finite DEF TInv, TypeOK, CreateInsert, InsertSession
    <2>7. /\ created' = created + 1 /\ sessions' = [sessions EXCEPT ![req[c].key] = created + 1]
          /\ inc' = [inc EXCEPT ![c] = created + 1] /\ pc' = [pc EXCEPT ![c] = "register"]
      BY <1>3 DEF CreateInsert, InsertSession, Goto
    <2>8. \A k \in Keys : sessions'[k] <= created'
      BY <1>t, <2>7 DEF TInv, TypeOK
    <2>9. \A d \in Clients : inc'[d] <= created' /\ (pc'[d] \in Holding => inc'[d] >= 1)
      BY <1>t, <2>7 DEF TInv, TypeOK
    <2> QED BY <2>5, <2>6, <2>8, <2>9 DEF TInv
  <1>4. ASSUME NEW c \in Clients, CreateRegister(c) \/ CreateSetup(c) \/ CreateReady(c)
        PROVE  TInv'
    <2>1. inc[c] \in Incarnations /\ inc[c] # 0
      BY <1>t, <1>4 DEF TInv, TypeOK, CreateRegister, CreateSetup, CreateReady, Holding, Owning,
                  Incarnations
    <2>2. TypeOK'
      <3>1. CASE CreateRegister(c)
        <4>1. collectors' \in [Names -> Nat]
          BY <1>t, <3>1 DEF TypeOK, CreateRegister, Requests
        <4>2. /\ pc' \in [Clients -> Steps] /\ req' \in [Clients -> Requests]
              /\ inc' \in [Clients -> 0..MaxIncarnations]
          BY <1>t, <3>1, ReturnType, GotoType DEF CreateRegister, Steps, CreateSteps, TypeOK
        <4> QED BY <1>t, <3>1, <4>1, <4>2 DEF TypeOK, CreateRegister, guardVars, streamVars
      <3>2. CASE CreateSetup(c)
        <4>1. CASE \E m \in 0..heap[inc[c]].pids : OpenGuard(c, heap[inc[c]].policy, m)
          <5>0. heap[inc[c]] \in Session
            BY <1>t, <2>1 DEF TypeOK
          <5>1. PICK m \in 0..MaxPids : OpenGuard(c, heap[inc[c]].policy, m)
            BY <4>1, <5>0 DEF Session
          <5>2. pc' \in [Clients -> Steps]
            BY <1>t, <5>1, GotoType DEF OpenGuard, Steps, CreateSteps
          <5> QED BY <1>t, <2>1, <3>2, <5>0, <5>1, <5>2 DEF TypeOK, CreateSetup, OpenGuard, SetupFrame,
                      streamVars, Session
        <4>2. CASE /\ heap' = [heap EXCEPT ![inc[c]].running = FALSE]
                   /\ Return(c) /\ UNCHANGED <<guards, config, marks>>
          <5>1. heap' \in [Incarnations -> Session]
            BY <1>t, <2>1, <4>2, SessionUpdates
          <5> QED BY <1>t, <3>2, <4>2, <5>1, ReturnType DEF TypeOK, CreateSetup, SetupFrame, streamVars
        <4> QED BY <3>2, <4>1, <4>2 DEF CreateSetup
      <3>3. CASE CreateReady(c)
        <4>1. marks[inc[c]] \in 0..MaxPids
          BY <1>t, <2>1 DEF TypeOK
        <4>2. heap' \in [Incarnations -> Session]
          BY <1>t, <2>1, <3>3, <4>1, SessionUpdates DEF CreateReady
        <4> QED BY <1>t, <2>1, <3>3, <4>2, ReturnType DEF TypeOK, CreateReady, streamVars
      <3> QED BY <1>4, <3>1, <3>2, <3>3
    <2>3. Cardinality(InFlightCreates') <= Cardinality(InFlightCreates)
      BY <1>t, <1>4, LeaveInFlight DEF CreateRegister, CreateSetup, CreateReady, OpenGuard, Return,
              Steps, CreateSteps
    <2>4. created' = created /\ sessions' = sessions
      BY <1>4 DEF CreateRegister, CreateSetup, CreateReady, SetupFrame
    <2>5. \A d \in Clients : inc'[d] <= created' /\ (pc'[d] \in Holding => inc'[d] >= 1)
      <3>1. \/ inc' = [inc EXCEPT ![c] = 0] /\ pc' = [pc EXCEPT ![c] = "idle"]
            \/ inc' = inc /\ \E s \in Owning : pc' = [pc EXCEPT ![c] = s]
        BY <1>4 DEF CreateRegister, CreateSetup, CreateReady, OpenGuard, Return, Goto, Owning
      <3>2. inc[c] >= 1
        BY <2>1 DEF Incarnations
      <3> QED BY <1>t, <2>4, <3>1, <3>2 DEF TInv, TypeOK, Holding, Owning
    <2> QED BY <2>2, <2>3, <2>4, <2>5, Finite DEF TInv, TypeOK
  <1>5. ASSUME NEW c \in Clients, NEW k \in Keys, DestroyGuard(c, k)
        PROVE  TInv'
    <2>1. TypeOK'
      BY <1>t, <1>5, NoRequestType DEF TypeOK, DestroyGuard, Call, Goto, serviceVars, guardVars,
            streamVars, Requests, Steps
    <2>2. Cardinality(InFlightCreates') <= Cardinality(InFlightCreates)
      BY <1>t, <1>5, LeaveInFlight DEF DestroyGuard, Call, Steps
    <2> QED BY <1>5, <2>1, <2>2, Finite DEF TInv, TypeOK, DestroyGuard, Call, Goto, serviceVars,
            Holding, Owning
  <1>6. ASSUME NEW c \in Clients, DestroyRemove(c)
        PROVE  TInv'
    <2>1. TypeOK'
      <3>1. CASE Return(c) /\ UNCHANGED sessions
        BY <1>t, <1>6, <3>1, ReturnType DEF TypeOK, DestroyRemove, guardVars, streamVars
      <3>2. CASE ~ (Return(c) /\ UNCHANGED sessions)
        <4>1. pc' \in [Clients -> Steps]
          BY <1>t, <1>6, <3>2, GotoType DEF DestroyRemove, Steps
        <4>2. req[c].key \in Keys
          BY <1>t DEF TypeOK, Requests
        <4> QED BY <1>t, <1>6, <3>2, <4>1, <4>2 DEF TypeOK, DestroyRemove, guardVars, streamVars
      <3> QED BY <3>1, <3>2
    <2>2. Cardinality(InFlightCreates') <= Cardinality(InFlightCreates)
      BY <1>t, <1>6, LeaveInFlight DEF DestroyRemove, Return, Steps
    <2>3. req[c].key \in Keys /\ sessions[req[c].key] <= created
      BY <1>t DEF TInv, TypeOK, Requests
    <2>4. created' + Cardinality(InFlightCreates') <= MaxIncarnations
      <3>1. created' = created
        BY <1>6 DEF DestroyRemove
      <3>2. created \in Nat /\ created + Cardinality(InFlightCreates) <= MaxIncarnations
        BY <1>t DEF TInv, TypeOK
      <3> QED BY <2>2, <3>1, <3>2, Finite
    <2>5. \A k \in Keys : sessions'[k] <= created'
      <3>1. created' = created /\ created \in Nat
        BY <1>t, <1>6 DEF DestroyRemove, TypeOK
      <3>2. \A k \in Keys : sessions[k] <= created
        BY DEF TInv
      <3>3. \A k \in Keys : sessions'[k] = sessions[k] \/ sessions'[k] = 0
        BY <1>t, <1>6 DEF DestroyRemove, TypeOK
      <3> QED BY <3>1, <3>2, <3>3
    <2>6. CASE Return(c)
      <3>1. created' = created
        BY <1>6 DEF DestroyRemove
      <3>2. \A d \in Clients : inc'[d] <= created' /\ (pc'[d] \in Holding => inc'[d] >= 1)
        <4>1. inc' = [inc EXCEPT ![c] = 0] /\ pc' = [pc EXCEPT ![c] = "idle"] /\ "idle" \notin Holding
          BY <2>6 DEF Return, Goto, Holding, Owning
        <4> QED BY <1>t, <3>1, <4>1 DEF TInv, TypeOK
      <3> QED BY <2>1, <2>4, <2>5, <3>2 DEF TInv
    <2>7. CASE ~Return(c)
      <3>1. /\ inc' = [inc EXCEPT ![c] = sessions[req[c].key]]
            /\ sessions[req[c].key] # 0
            /\ pc' = [pc EXCEPT ![c] = "stop"]
            /\ created' = created
        BY <1>6, <2>7 DEF DestroyRemove, Goto, Present
      <3>2. \A d \in Clients : inc'[d] <= created' /\ (pc'[d] \in Holding => inc'[d] >= 1)
        BY <1>t, <2>3, <3>1 DEF TInv, TypeOK
      <3> QED BY <2>1, <2>4, <2>5, <3>2 DEF TInv
    <2> QED BY <2>6, <2>7
  <1>7. ASSUME NEW c \in Clients,
               \/ DestroyStop(c) \/ DestroyUnregister(c)
               \/ UpdatePause(c) \/ UpdateResume(c) \/ UpdatePolicy(c)
        PROVE  TInv'
    <2>1. inc[c] \in Incarnations
      <3>1. pc[c] \in Holding
        BY <1>7 DEF DestroyStop, DestroyUnregister, UpdatePause, UpdateResume, UpdatePolicy, Holding
      <3>2. inc[c] >= 1 /\ inc[c] \in 0..MaxIncarnations
        BY <1>t, <3>1 DEF TInv, TypeOK
      <3> QED BY <3>2 DEF Incarnations
    <2>2. heap' \in [Incarnations -> Session]
      <3>1. req[c].policy \in Policies /\ heap \in [Incarnations -> Session]
        BY <1>t DEF TypeOK, Requests
      <3>2. CASE DestroyStop(c)
        BY <1>t, <2>1, <3>2, SessionUpdates DEF DestroyStop
      <3>3. CASE UpdatePause(c)
        <4>1. \/ heap' = heap
              \/ heap' = [heap EXCEPT ![inc[c]].paused = TRUE, ![inc[c]].running = FALSE]
          BY <3>3, Zenon DEF UpdatePause
        <4>2. [heap EXCEPT ![inc[c]].paused = TRUE, ![inc[c]].running = FALSE]
                \in [Incarnations -> Session]
          BY <1>t, <2>1, SessionUpdates
        <4> QED BY <3>1, <4>1, <4>2
      <3>4. CASE UpdatePolicy(c)
        <4>1. \/ heap' = heap
              \/ heap' = [heap EXCEPT ![inc[c]].policy = req[c].policy]
          BY <3>4 DEF UpdatePolicy
        <4>2. [heap EXCEPT ![inc[c]].policy = req[c].policy] \in [Incarnations -> Session]
          BY <1>t, <2>1, <3>1, SessionUpdates
        <4> QED BY <3>1, <4>1, <4>2
      <3> QED BY <1>7, <3>1, <3>2, <3>3, <3>4 DEF DestroyUnregister, UpdateResume, serviceVars
    <2>3. collectors' \in [Names -> Nat]
      <3>1. NameOf[heap[inc[c]].key] \in Names
        BY <1>t, <2>1 DEF TypeOK, Session
      <3>2. CASE DestroyUnregister(c)
        <4>1. PICK m \in Names : collectors' = [collectors EXCEPT ![m] = IF @ > 0 THEN @ - 1 ELSE 0]
          BY <3>1, <3>2 DEF DestroyUnregister
        <4>2. collectors \in [Names -> Nat]
          BY <1>t DEF TypeOK
        <4>3. (IF collectors[m] > 0 THEN collectors[m] - 1 ELSE 0) \in Nat
          BY <4>2
        <4> QED BY <4>1, <4>2, <4>3
      <3>3. CASE DestroyStop(c) \/ UpdatePause(c)
        BY <1>t, <3>3 DEF TypeOK, DestroyStop, UpdatePause
      <3>4. CASE UpdateResume(c) \/ UpdatePolicy(c)
        BY <1>t, <3>4 DEF TypeOK, UpdateResume, UpdatePolicy, serviceVars
      <3> QED BY <1>7, <3>2, <3>3, <3>4
    <2>4. /\ UNCHANGED <<sessions, created, guardVars, streamVars>>
          /\ \/ Return(c)
             \/ Goto(c, "unregister") /\ UNCHANGED <<req, inc>>
      BY <1>7 DEF DestroyStop, DestroyUnregister, UpdatePause, UpdateResume, UpdatePolicy, serviceVars
    <2>5. TypeOK'
      BY <1>t, <2>2, <2>3, <2>4, NoRequestType DEF TypeOK, Return, Goto, guardVars, streamVars, Steps
    <2>6. Cardinality(InFlightCreates') <= Cardinality(InFlightCreates)
      BY <1>t, <2>4, LeaveInFlight DEF Return, Steps
    <2>7. inc[c] >= 1
      BY <2>1 DEF Incarnations
    <2> QED BY <1>e, <2>4, <2>5, <2>6, <2>7
  <1>8. ASSUME NEW c \in Clients, NEW k \in Keys, NEW a \in Actions, NEW p \in Policies,
               UpdateGet(c, k, a, p)
        PROVE  TInv'
    <2>1. TypeOK'
      BY <1>t, <1>8, NoRequestType DEF TypeOK, UpdateGet, Goto, serviceVars, guardVars,
            streamVars, Requests, Steps
    <2>2. Cardinality(InFlightCreates') <= Cardinality(InFlightCreates)
      BY <1>t, <1>8, LeaveInFlight DEF UpdateGet, Steps
    <2> QED BY <1>t, <1>8, <2>1, <2>2, Finite DEF TInv, TypeOK, UpdateGet, Goto, serviceVars,
            Holding, Owning, Present
  <1>9. CASE StateStreamOpen \/ StateStream \/ StateStreamRead \/ StateStreamHangup
    <2>1. /\ UNCHANGED <<serviceVars, guardVars, clientVars>>
          /\ streaming' \in BOOLEAN /\ left' \in Nat /\ buffered' \in 0..StreamCapacity
      <3>1. Cardinality(Present) \in Nat
        BY Finite
      <3>2. CASE StateStreamOpen
        BY <1>t, <3>1, <3>2 DEF TypeOK, StateStreamOpen
      <3>3. CASE StateStreamSend
        BY <1>t, <3>3 DEF TypeOK, StateStreamSend
      <3>4. CASE StateStreamDone
        BY <1>t, <3>4 DEF TypeOK, StateStreamDone
      <3>5. CASE StateStreamRead
        BY <1>t, <3>5 DEF TypeOK, StateStreamRead
      <3>6. CASE StateStreamHangup
        <4>1. streaming' \in BOOLEAN /\ UNCHANGED <<serviceVars, guardVars, clientVars>>
          BY <3>6 DEF StateStreamHangup
        <4>2. left' = 0 /\ buffered' = 0
          BY <3>6 DEF StateStreamHangup
        <4> QED BY <4>1, <4>2
      <3> QED BY <1>9, <3>2, <3>3, <3>4, <3>5, <3>6 DEF StateStream
    <2> QED BY <2>1 DEF TInv, TypeOK, InFlightCreates, serviceVars, guardVars, clientVars
  <1>10. ASSUME NEW i \in Incarnations, GuardLoop(i)
         PROVE  TInv'
    BY <1>10 DEF TInv, TypeOK, GuardLoop, InFlightCreates, serviceVars, streamVars, clientVars
  <1>11. ASSUME NEW c \in Clients, Cancel(c)
         PROVE  TInv'
    <2>1. TypeOK'
      BY <1>t, <1>11, NoRequestType DEF TypeOK, Cancel, Return, Goto, serviceVars, streamVars, Steps
    <2>2. Cardinality(InFlightCreates') <= Cardinality(InFlightCreates)
      BY <1>t, <1>11, LeaveInFlight DEF Cancel, Return, Steps
    <2>3. Return(c) /\ UNCHANGED <<sessions, created>>
      BY <1>11 DEF Cancel, serviceVars
    <2> QED BY <1>e, <2>1, <2>2, <2>3
  <1>12. CASE UNCHANGED vars
    BY <1>12 DEF TInv, TypeOK, InFlightCreates, vars, serviceVars, guardVars, streamVars, clientVars
  <1> QED
    BY <1>1, <1>2, <1>3, <1>4, <1>5, <1>6, <1>7, <1>8, <1>9, <1>10, <1>11, <1>12
    DEF Next, WriteLocked, Handler

\* Every step preserves the overshoot bound.
LEMMA NextBounded == TInv /\ BoundedOvershoot /\ [Next]_vars => BoundedOvershoot'
  <1> SUFFICES ASSUME TInv, BoundedOvershoot, [Next]_vars PROVE BoundedOvershoot'
    OBVIOUS
  <1> USE ConstantsAssumption
  <1>t. TypeOK
    BY DEF TInv
  <1>1. ASSUME NEW c \in Clients, NEW k \in Keys, NEW paused \in BOOLEAN,
               NEW n \in 0..MaxPids, NEW p \in Policies, CreateCount(c, k, paused, n, p)
        PROVE  BoundedOvershoot'
    <2>1. Present' = Present
      BY <1>1 DEF CreateCount, serviceVars, Present
    <2>2. CASE UNCHANGED clientVars
      BY <2>1, <2>2 DEF BoundedOvershoot, InFlightCreates, clientVars
    <2>3. CASE Cardinality(Present) < MaxGuards
      BY <2>1, <2>3, Finite DEF BoundedOvershoot
    <2> QED BY <1>1, <2>2, <2>3 DEF CreateCount
  <1>2. ASSUME NEW c \in Clients, CreateInsert(c)
        PROVE  BoundedOvershoot'
    <2>1. req[c].key \in Keys /\ c \in InFlightCreates
      BY <1>t, <1>2 DEF TypeOK, Requests, CreateInsert, InFlightCreates
    <2>2. Cardinality(InFlightCreates') = Cardinality(InFlightCreates) - 1
      BY <1>t, <1>2, <2>1, LeaveInFlight DEF CreateInsert, InsertSession, Steps, CreateSteps
    <2>3. Present' = Present \cup {req[c].key}
      BY <1>t, <1>2, <2>1 DEF TypeOK, CreateInsert, InsertSession, Present
    <2>4. Cardinality(Present') <= Cardinality(Present) + 1
      BY <2>3, Finite, OneElement
    <2> QED BY <2>2, <2>4, Finite DEF BoundedOvershoot
  <1>3. ASSUME NEW c \in Clients, NEW s \in Steps \ {"exists", "insert"}, Goto(c, s),
               \/ UNCHANGED sessions
               \/ sessions' = [sessions EXCEPT ![req[c].key] = 0]
        PROVE  BoundedOvershoot'
    <2>1. Cardinality(InFlightCreates') <= Cardinality(InFlightCreates)
      BY <1>t, <1>3, LeaveInFlight
    <2>2. Present' = Present \/ Present' = Present \ {req[c].key}
      BY <1>t, <1>3 DEF TypeOK, Present
    <2>3. Cardinality(Present') <= Cardinality(Present)
      <3>1. Cardinality(Present \ {req[c].key}) <= Cardinality(Present)
        BY Finite, OneElement
      <3>2. CASE Present' = Present
        BY <3>2, Finite
      <3>3. CASE Present' = Present \ {req[c].key}
        BY <3>1, <3>3
      <3> QED BY <2>2, <3>2, <3>3
    <2> QED BY <2>1, <2>3, Finite DEF BoundedOvershoot
  <1>4. ASSUME NEW c \in Clients, CreateExists(c)
        PROVE  BoundedOvershoot'
    <2>1. CASE Return(c)
      BY <1>4, <2>1, <1>3 DEF CreateExists, Return, Steps, serviceVars
    <2>2. CASE Goto(c, "insert")
      <3>1. InFlightCreates' = InFlightCreates
        BY <1>t, <1>4, <2>2, GotoInFlight DEF CreateExists, InFlightCreates
      <3> QED BY <1>4, <3>1 DEF CreateExists, BoundedOvershoot, Present, serviceVars
    <2> QED BY <1>4, <2>1, <2>2 DEF CreateExists
  <1>5. ASSUME NEW c \in Clients,
               \/ CreateRegister(c) \/ CreateSetup(c) \/ CreateReady(c)
               \/ DestroyRemove(c) \/ DestroyStop(c) \/ DestroyUnregister(c)
               \/ UpdatePause(c) \/ UpdateResume(c) \/ UpdatePolicy(c) \/ Cancel(c)
        PROVE  BoundedOvershoot'
    <2>1. /\ \E s \in Steps \ {"exists", "insert"} : Goto(c, s)
          /\ UNCHANGED sessions \/ sessions' = [sessions EXCEPT ![req[c].key] = 0]
      <3>1. CASE CreateRegister(c) \/ CreateSetup(c) \/ CreateReady(c)
        BY <3>1 DEF CreateRegister, CreateSetup, OpenGuard, SetupFrame, CreateReady, Return,
              Steps, CreateSteps
      <3>2. CASE DestroyRemove(c) \/ DestroyStop(c) \/ DestroyUnregister(c)
        BY <3>2 DEF DestroyRemove, DestroyStop, DestroyUnregister, Return, Steps
      <3>3. CASE UpdatePause(c) \/ UpdateResume(c) \/ UpdatePolicy(c) \/ Cancel(c)
        <4>1. Goto(c, "idle") /\ UNCHANGED sessions
          BY <3>3 DEF UpdatePause, UpdateResume, UpdatePolicy, Cancel, Return, serviceVars
        <4> QED BY <4>1 DEF Steps
      <3> QED BY <1>5, <3>1, <3>2, <3>3
    <2> QED BY <1>3, <2>1
  <1>6. ASSUME NEW c \in Clients, NEW k \in Keys, NEW a \in Actions, NEW p \in Policies,
               UpdateGet(c, k, a, p)
        PROVE  BoundedOvershoot'
    BY <1>3, <1>6 DEF UpdateGet, serviceVars, Steps
  <1>7. ASSUME NEW c \in Clients, NEW k \in Keys, DestroyGuard(c, k)
        PROVE  BoundedOvershoot'
    BY <1>3, <1>7 DEF DestroyGuard, Call, serviceVars, Steps
  <1>8. CASE UNCHANGED <<sessions, pc>>
    BY <1>8 DEF BoundedOvershoot, Present, InFlightCreates
  <1>9. CASE StateStreamOpen \/ StateStream \/ StateStreamRead \/ StateStreamHangup
    BY <1>8, <1>9 DEF StateStreamOpen, StateStream, StateStreamSend, StateStreamDone,
            StateStreamRead, StateStreamHangup, serviceVars, clientVars
  <1>10. ASSUME NEW i \in Incarnations, GuardLoop(i)
         PROVE  BoundedOvershoot'
    BY <1>8, <1>10 DEF GuardLoop, serviceVars, clientVars
  <1>11. CASE UNCHANGED vars
    BY <1>8, <1>11 DEF vars, serviceVars, clientVars
  <1> QED
    BY <1>1, <1>2, <1>4, <1>5, <1>6, <1>7, <1>9, <1>10, <1>11 DEF Next, WriteLocked, Handler

\* The typing invariant and the overshoot bound hold in every reachable state.
LEMMA TOInvariance == Spec => [](TInv /\ BoundedOvershoot)
  <1>1. Init => BoundedOvershoot
    <2> SUFFICES ASSUME Init PROVE BoundedOvershoot
      OBVIOUS
    <2>1. Present = {} /\ InFlightCreates = {}
      BY DEF Init, Present, InFlightCreates
    <2>2. Cardinality(Present) = 0 /\ Cardinality(InFlightCreates) = 0
      BY <2>1, FS_EmptySet
    <2> QED BY <2>2, Finite, ConstantsAssumption DEF BoundedOvershoot
  <1> QED BY <1>1, InitTInv, NextTInv, NextBounded, PTL DEF Spec

\* Type correctness of the service's state (service.rs, session.rs, metrics.rs):
\* in particular, unregistering never takes a collector count below zero.
THEOREM TypeCorrect == Spec => []TypeOK
  <1>1. TInv /\ BoundedOvershoot => TypeOK
    BY DEF TInv
  <1> QED BY <1>1, TOInvariance, PTL

\* create_guard's separate count check and insertion overshoot max_guards by
\* fewer sessions than there are concurrent calls, for every limit and any
\* number of calls.
THEOREM OvershootBounded == Spec => []BoundedOvershoot
  BY TOInvariance, PTL

\* Every step preserves the ownership invariant.
LEMMA NextRInv == TInv /\ RInv /\ [Next]_vars => RInv'
  <1> SUFFICES ASSUME TInv, RInv, [Next]_vars PROVE RInv'
    OBVIOUS
  <1> USE ConstantsAssumption
  <1>t. TypeOK
    BY DEF TInv
  <1>u. \A c, d \in Clients : pc[c] \in Owning /\ pc[d] \in Owning /\ inc[c] = inc[d] => c = d
    BY DEF RInv
  <1>n. \A c \in Clients : pc[c] \in Owning => heap[inc[c]].ready = FALSE
    BY DEF RInv
  <1>g. \A c \in Clients : pc[c] \in {"register", "setup"} => inc[c] \notin guards
    BY DEF RInv
  <1>d. \A c \in Clients : pc[c] = "ready" =>
          /\ inc[c] \in guards /\ inc[c] \notin loops
          /\ heap[inc[c]].pids > 0 => marks[inc[c]] > 0
    BY DEF RInv
  <1>l. \A i \in loops : i \in guards /\ guardRunning[i] = TRUE
    BY DEF RInv
  <1>b. \A i \in guards : i <= created
    BY DEF RInv
  <1>s. \A i \in Incarnations : i <= created /\ heap[i].ready = TRUE =>
          i \in loops /\ (heap[i].pids > 0 => marks[i] > 0) /\ heap[i].mounts = marks[i]
    BY DEF RInv
  <1>w. \A c \in Clients : pc[c] \in {"register", "setup", "ready"} => pc[c] \in Owning
    BY DEF Owning
  <1>o. \A c \in Clients : pc[c] \in Owning => inc[c] \in Incarnations /\ inc[c] <= created
    <2>1. \A c \in Clients : pc[c] \in Owning => inc[c] >= 1 /\ inc[c] <= created
      BY DEF TInv, Holding
    <2>2. \A c \in Clients : inc[c] \in 0..MaxIncarnations
      BY <1>t DEF TypeOK
    <2>3. \A i \in 0..MaxIncarnations : i >= 1 => i \in Incarnations
      BY DEF Incarnations
    <2> QED BY <2>1, <2>2, <2>3
  <1>1. ASSUME NEW c \in Clients, CreateInsert(c)
        PROVE  RInv'
    <2>1. created + 1 \in Incarnations
      <3>1. c \in InFlightCreates
        BY <1>1 DEF CreateInsert, InFlightCreates
      <3>2. Cardinality(InFlightCreates) >= 1
        BY <3>1, Finite, OneElement
      <3>3. Cardinality(InFlightCreates) \in Nat
        BY Finite
      <3>4. created \in 0..MaxIncarnations /\ created + Cardinality(InFlightCreates) <= MaxIncarnations
        BY <1>t DEF TInv, TypeOK
      <3> QED BY <3>2, <3>3, <3>4 DEF Incarnations
    <2>2. /\ created' = created + 1
          /\ pc' = [pc EXCEPT ![c] = "register"] /\ inc' = [inc EXCEPT ![c] = created + 1]
          /\ heap' = [heap EXCEPT ![created + 1] = NewSession(req[c])]
          /\ UNCHANGED <<guards, loops, marks, guardRunning>>
      BY <1>1 DEF CreateInsert, InsertSession, Goto, guardVars
    <2>3. NewSession(req[c]).ready = FALSE
      BY DEF NewSession
    <2>4. \A d \in Clients : inc[d] <= created
      BY DEF TInv
    <2>5. created \in Nat /\ created + 1 \notin guards /\ created + 1 \notin loops
      BY <1>t, <1>b, <1>l DEF TypeOK
    <2>6. \A i \in Incarnations \ {created + 1} : heap'[i] = heap[i]
      BY <1>t, <2>2 DEF TypeOK
    <2>7. heap'[created + 1].ready = FALSE
      BY <1>t, <2>1, <2>2, <2>3 DEF TypeOK
    <2>8. \A d \in Clients \ {c} : pc'[d] = pc[d] /\ inc'[d] = inc[d] /\ inc'[d] # created + 1
      BY <1>t, <2>2, <2>4, <2>5 DEF TypeOK
    <2>9. pc'[c] = "register" /\ inc'[c] = created + 1
      BY <1>t, <2>2 DEF TypeOK
    <2>10. \A d \in Clients \ {c} : pc[d] \in Owning =>
              inc[d] \in Incarnations /\ heap'[inc[d]] = heap[inc[d]]
      <3> SUFFICES ASSUME NEW d \in Clients \ {c}, pc[d] \in Owning
                   PROVE  inc[d] \in Incarnations /\ heap'[inc[d]] = heap[inc[d]]
        OBVIOUS
      <3>1. inc[d] \in Incarnations
        BY <1>o
      <3>2. inc[d] # created + 1
        BY <2>4, <2>5, <3>1 DEF Incarnations
      <3> QED BY <2>6, <3>1, <3>2
    <2>11. \A d, e \in Clients : pc'[d] \in Owning /\ pc'[e] \in Owning /\ inc'[d] = inc'[e] => d = e
      BY <1>u, <2>8, <2>9
    <2>12. \A d \in Clients : pc'[d] \in Owning => heap'[inc'[d]].ready = FALSE
      BY <1>n, <2>7, <2>8, <2>9, <2>10
    <2>13. \A d \in Clients : pc'[d] \in {"register", "setup"} => inc'[d] \notin guards'
      BY <1>g, <2>2, <2>5, <2>8, <2>9
    <2>14. \A d \in Clients : pc'[d] = "ready" =>
             /\ inc'[d] \in guards' /\ inc'[d] \notin loops'
             /\ heap'[inc'[d]].pids > 0 => marks'[inc'[d]] > 0
      BY <1>w, <1>d, <2>2, <2>8, <2>9, <2>10
    <2>15. \A i \in loops' : i \in guards' /\ guardRunning'[i] = TRUE
      BY <1>l, <2>2
    <2>16. \A i \in guards' : i <= created'
      <3>1. \A i \in guards : i \in Nat
        BY <1>t DEF TypeOK, Incarnations
      <3> QED BY <1>b, <2>2, <2>5, <3>1
    <2>17. \A i \in Incarnations : i <= created' /\ heap'[i].ready = TRUE =>
             i \in loops' /\ (heap'[i].pids > 0 => marks'[i] > 0) /\ heap'[i].mounts = marks'[i]
      <3> SUFFICES ASSUME NEW i \in Incarnations, i <= created', heap'[i].ready = TRUE
                   PROVE  i \in loops' /\ (heap'[i].pids > 0 => marks'[i] > 0) /\ heap'[i].mounts = marks'[i]
        OBVIOUS
      <3>1. i # created + 1
        BY <2>7
      <3>2. i <= created
        BY <2>2, <2>5, <3>1 DEF Incarnations
      <3>3. heap'[i] = heap[i]
        BY <2>6, <3>1
      <3> QED BY <1>s, <2>2, <3>2, <3>3
    <2> QED BY <2>11, <2>12, <2>13, <2>14, <2>15, <2>16, <2>17 DEF RInv
  <1>2. ASSUME NEW c \in Clients, NEW s \in Steps \ {"ready"}, Goto(c, s),
               s \in Owning => s = "setup" /\ pc[c] = "register" /\ inc' = inc,
               \/ inc' = inc
               \/ \E i \in 0..MaxIncarnations : inc' = [inc EXCEPT ![c] = i],
               \A i \in Incarnations : /\ heap'[i].ready = heap[i].ready
                                       /\ heap'[i].pids = heap[i].pids
                                       /\ heap'[i].mounts = heap[i].mounts,
               created' = created, loops' = loops, marks' = marks, guardRunning' = guardRunning,
               \/ guards' = guards
               \/ pc[c] = "ready" /\ guards' = guards \ {inc[c]}
        PROVE  RInv'
    <2>1. pc'[c] = s /\ \A d \in Clients \ {c} : pc'[d] = pc[d] /\ inc'[d] = inc[d]
      BY <1>t, <1>2 DEF TypeOK, Goto
    <2>2. \A d \in Clients : pc[d] \in Owning => inc[d] \in Incarnations
      BY <1>o
    <2>3. \A d \in Clients : pc'[d] \in Owning => pc[d] \in Owning /\ inc'[d] = inc[d]
      BY <1>2, <2>1 DEF Owning
    <2>4. \A d \in Clients \ {c} : pc[d] = "ready" => (inc[d] \in guards' <=> inc[d] \in guards)
      BY <1>2, <1>u, <1>w
    <2>5. \A i \in loops : i \in guards'
      BY <1>2, <1>l, <1>d
    <2>6. \A d, e \in Clients : pc'[d] \in Owning /\ pc'[e] \in Owning /\ inc'[d] = inc'[e] => d = e
      BY <1>u, <2>3
    <2>7. \A d \in Clients : pc'[d] \in Owning => heap'[inc'[d]].ready = FALSE
      <3>1. \A i \in Incarnations : heap'[i].ready = heap[i].ready
        BY <1>2
      <3> QED BY <1>n, <2>2, <2>3, <3>1
    <2>8. \A d \in Clients : pc'[d] \in {"register", "setup"} => inc'[d] \notin guards'
      <3>1. guards' \subseteq guards
        BY <1>2
      <3>2. \A d \in Clients : pc'[d] \in {"register", "setup"} =>
              pc[d] \in {"register", "setup"} /\ inc'[d] = inc[d]
        BY <1>2, <2>1 DEF Owning
      <3> QED BY <1>g, <3>1, <3>2
    <2>9. \A d \in Clients : pc'[d] = "ready" =>
             /\ inc'[d] \in guards' /\ inc'[d] \notin loops'
             /\ heap'[inc'[d]].pids > 0 => marks'[inc'[d]] > 0
      <3> SUFFICES ASSUME NEW d \in Clients, pc'[d] = "ready"
                   PROVE  /\ inc'[d] \in guards' /\ inc'[d] \notin loops'
                          /\ heap'[inc'[d]].pids > 0 => marks'[inc'[d]] > 0
        OBVIOUS
      <3>1. d # c /\ pc[d] = "ready" /\ inc'[d] = inc[d]
        BY <2>1
      <3>2. inc[d] \in Incarnations
        BY <1>w, <2>2, <3>1
      <3>3. heap'[inc[d]].pids = heap[inc[d]].pids /\ marks' = marks /\ loops' = loops
        BY <1>2, <3>2
      <3> QED BY <1>d, <2>4, <3>1, <3>3
    <2>10. \A i \in loops' : i \in guards' /\ guardRunning'[i] = TRUE
      BY <1>2, <1>l, <2>5
    <2>11. \A i \in guards' : i <= created'
      <3>1. guards' \subseteq guards /\ created' = created
        BY <1>2
      <3> QED BY <1>b, <3>1
    <2>12. \A i \in Incarnations : i <= created' /\ heap'[i].ready = TRUE =>
             i \in loops' /\ (heap'[i].pids > 0 => marks'[i] > 0) /\ heap'[i].mounts = marks'[i]
      <3>1. UNCHANGED <<created, loops, marks>>
        BY <1>2
      <3>2. \A i \in Incarnations : /\ heap'[i].ready = heap[i].ready
                                    /\ heap'[i].pids = heap[i].pids
                                    /\ heap'[i].mounts = heap[i].mounts
        BY <1>2
      <3> QED BY <1>s, <3>1, <3>2
    <2> QED BY <2>6, <2>7, <2>8, <2>9, <2>10, <2>11, <2>12 DEF RInv
  <1>3. ASSUME NEW c \in Clients, NEW policy, NEW m \in 0..heap[inc[c]].pids,
               pc[c] = "setup", m > 0 \/ heap[inc[c]].pids = 0,
               OpenGuard(c, policy, m), SetupFrame
        PROVE  RInv'
    <2>1. inc[c] \in Incarnations /\ inc[c] <= created
      <3>1. pc[c] \in Owning
        BY <1>3 DEF Owning
      <3> QED BY <1>o, <3>1
    <2>2. heap[inc[c]] \in Session
      BY <1>t, <2>1 DEF TypeOK
    <2>3. /\ guards' = guards \cup {inc[c]} /\ marks' = [marks EXCEPT ![inc[c]] = m]
          /\ pc' = [pc EXCEPT ![c] = "ready"]
          /\ UNCHANGED <<heap, inc, created, loops, guardRunning>>
      BY <1>3 DEF OpenGuard, SetupFrame, Goto
    <2>4. marks'[inc[c]] = m /\ \A i \in Incarnations \ {inc[c]} : marks'[i] = marks[i]
      BY <1>t, <2>1, <2>3 DEF TypeOK
    <2>5. pc'[c] = "ready" /\ \A d \in Clients \ {c} : pc'[d] = pc[d]
      BY <1>t, <2>3 DEF TypeOK
    <2>6. inc[c] \notin guards /\ inc[c] \notin loops /\ heap[inc[c]].ready = FALSE
      <3>1. pc[c] \in Owning /\ pc[c] \in {"register", "setup"}
        BY <1>3 DEF Owning
      <3> QED BY <1>n, <1>g, <1>l, <3>1
    <2>7. \A d \in Clients \ {c} : pc[d] \in Owning => inc[d] # inc[c] /\ inc[d] \in Incarnations
      <3>1. pc[c] \in Owning
        BY <1>3 DEF Owning
      <3>2. \A d \in Clients \ {c} : pc[d] \in Owning => inc[d] # inc[c]
        BY <1>u, <3>1
      <3> QED BY <1>o, <3>2
    <2>8. heap[inc[c]].pids > 0 => marks'[inc[c]] > 0
      <3>1. m > 0 \/ heap[inc[c]].pids = 0
        BY <1>3
      <3> QED BY <2>4, <3>1
    <2>9. \A d, e \in Clients : pc'[d] \in Owning /\ pc'[e] \in Owning /\ inc'[d] = inc'[e] => d = e
      <3>1. \A d \in Clients : pc'[d] \in Owning => pc[d] \in Owning
        BY <1>3, <2>5 DEF Owning
      <3> QED BY <1>u, <2>3, <3>1
    <2>10. \A d \in Clients : pc'[d] \in Owning => heap'[inc'[d]].ready = FALSE
      BY <1>n, <2>3, <2>5, <2>6
    <2>11. \A d \in Clients : pc'[d] \in {"register", "setup"} => inc'[d] \notin guards'
      BY <1>g, <1>w, <2>3, <2>5, <2>7
    <2>12. \A d \in Clients : pc'[d] = "ready" =>
             /\ inc'[d] \in guards' /\ inc'[d] \notin loops'
             /\ heap'[inc'[d]].pids > 0 => marks'[inc'[d]] > 0
      <3> SUFFICES ASSUME NEW d \in Clients, pc'[d] = "ready"
                   PROVE  /\ inc[d] \in guards' /\ inc[d] \notin loops
                          /\ heap[inc[d]].pids > 0 => marks'[inc[d]] > 0
        BY <2>3
      <3>1. CASE d = c
        BY <2>3, <2>6, <2>8, <3>1
      <3>2. CASE d # c
        <4>1. pc[d] = "ready"
          BY <2>5, <3>2
        <4>2. marks'[inc[d]] = marks[inc[d]]
          BY <1>w, <2>4, <2>7, <3>2, <4>1
        <4> QED BY <1>d, <2>3, <4>1, <4>2
      <3> QED BY <3>1, <3>2
    <2>13. \A i \in loops' : i \in guards' /\ guardRunning'[i] = TRUE
      BY <1>l, <2>3
    <2>14. \A i \in guards' : i <= created'
      BY <1>b, <2>1, <2>3
    <2>15. \A i \in Incarnations : i <= created' /\ heap'[i].ready = TRUE =>
             i \in loops' /\ (heap'[i].pids > 0 => marks'[i] > 0) /\ heap'[i].mounts = marks'[i]
      BY <1>s, <2>3, <2>4, <2>6
    <2> QED BY <2>9, <2>10, <2>11, <2>12, <2>13, <2>14, <2>15 DEF RInv
  <1>4. ASSUME NEW c \in Clients, CreateReady(c)
        PROVE  RInv'
    <2>1. pc[c] = "ready" /\ inc[c] \in Incarnations /\ inc[c] <= created
      <3>1. pc[c] = "ready" /\ pc[c] \in Owning
        BY <1>4 DEF CreateReady, Owning
      <3> QED BY <1>o, <3>1
    <2>2. heap[inc[c]] \in Session
      BY <1>t, <2>1 DEF TypeOK
    <2>3. /\ loops' = loops \cup {inc[c]} /\ guardRunning' = [guardRunning EXCEPT ![inc[c]] = TRUE]
          /\ pc' = [pc EXCEPT ![c] = "idle"] /\ inc' = [inc EXCEPT ![c] = 0]
          /\ UNCHANGED <<created, guards, marks>>
      BY <1>4 DEF CreateReady, Return, Goto
    <2>4. \A i \in Incarnations \ {inc[c]} : heap'[i] = heap[i]
      BY <1>t, <1>4, <2>1 DEF TypeOK, CreateReady
    <2>5. heap'[inc[c]].pids = heap[inc[c]].pids /\ heap'[inc[c]].mounts = marks[inc[c]]
      BY <1>t, <1>4, <2>1, <2>2 DEF TypeOK, CreateReady, Session
    <2>6. pc'[c] = "idle" /\ \A d \in Clients \ {c} : pc'[d] = pc[d] /\ inc'[d] = inc[d]
      BY <1>t, <2>3 DEF TypeOK
    <2>7. \A d \in Clients \ {c} : pc[d] \in Owning => inc[d] # inc[c] /\ inc[d] \in Incarnations
      BY <1>o, <1>u, <1>w, <2>1
    <2>8. \A d, e \in Clients : pc'[d] \in Owning /\ pc'[e] \in Owning /\ inc'[d] = inc'[e] => d = e
      <3>1. \A d \in Clients : pc'[d] \in Owning => pc[d] \in Owning /\ inc'[d] = inc[d]
        BY <2>6 DEF Owning
      <3> QED BY <1>u, <3>1
    <2>9. \A d \in Clients : pc'[d] \in Owning => heap'[inc'[d]].ready = FALSE
      <3> SUFFICES ASSUME NEW d \in Clients, pc'[d] \in Owning
                   PROVE  heap'[inc'[d]].ready = FALSE
        OBVIOUS
      <3>1. d # c
        BY <2>6 DEF Owning
      <3>2. pc[d] \in Owning /\ inc'[d] = inc[d] /\ heap'[inc[d]] = heap[inc[d]]
        BY <2>4, <2>6, <2>7, <3>1
      <3> QED BY <1>n, <3>2
    <2>10. \A d \in Clients : pc'[d] \in {"register", "setup"} => inc'[d] \notin guards'
      BY <1>g, <2>3, <2>6
    <2>11. \A d \in Clients : pc'[d] = "ready" =>
             /\ inc'[d] \in guards' /\ inc'[d] \notin loops'
             /\ heap'[inc'[d]].pids > 0 => marks'[inc'[d]] > 0
      <3> SUFFICES ASSUME NEW d \in Clients, pc'[d] = "ready"
                   PROVE  /\ inc'[d] \in guards' /\ inc'[d] \notin loops'
                          /\ heap'[inc'[d]].pids > 0 => marks'[inc'[d]] > 0
        OBVIOUS
      <3>1. d # c /\ pc[d] = "ready" /\ inc'[d] = inc[d]
        BY <2>6
      <3>2. inc[d] # inc[c] /\ heap'[inc[d]] = heap[inc[d]]
        BY <1>w, <2>4, <2>7, <3>1
      <3>3. inc[d] \in guards /\ inc[d] \notin loops /\ (heap[inc[d]].pids > 0 => marks[inc[d]] > 0)
        BY <1>d, <3>1
      <3>4. inc[d] \in guards' /\ inc[d] \notin loops' /\ marks' = marks
        BY <2>3, <3>2, <3>3
      <3> QED BY <3>1, <3>2, <3>3, <3>4
    <2>12. \A i \in loops' : i \in guards' /\ guardRunning'[i] = TRUE
      <3>1. inc[c] \in guards
        BY <1>d, <2>1
      <3>2. \A i \in Incarnations : guardRunning'[i] = TRUE \/ guardRunning'[i] = guardRunning[i]
        BY <1>t, <2>3 DEF TypeOK
      <3>3. guardRunning'[inc[c]] = TRUE
        BY <1>t, <2>1, <2>3 DEF TypeOK
      <3>4. loops \subseteq Incarnations
        BY <1>t DEF TypeOK
      <3> QED BY <1>l, <2>3, <3>1, <3>2, <3>3, <3>4
    <2>13. \A i \in guards' : i <= created'
      BY <1>b, <2>3
    <2>14. \A i \in Incarnations : i <= created' /\ heap'[i].ready = TRUE =>
             i \in loops' /\ (heap'[i].pids > 0 => marks'[i] > 0) /\ heap'[i].mounts = marks'[i]
      <3> SUFFICES ASSUME NEW i \in Incarnations, i <= created', heap'[i].ready = TRUE
                   PROVE  i \in loops' /\ (heap'[i].pids > 0 => marks[i] > 0) /\ heap'[i].mounts = marks[i]
        BY <2>3
      <3>1. CASE i = inc[c]
        BY <1>d, <2>1, <2>3, <2>5, <3>1
      <3>2. CASE i # inc[c]
        BY <1>s, <2>3, <2>4, <3>2
      <3> QED BY <3>1, <3>2
    <2> QED BY <2>8, <2>9, <2>10, <2>11, <2>12, <2>13, <2>14 DEF RInv
  <1>5. CASE UNCHANGED <<pc, inc, heap, created, guards, loops, marks, guardRunning>>
    BY <1>5 DEF RInv
  <1>h. ASSUME NEW i \in Incarnations
        PROVE  /\ [heap[i] EXCEPT !.running = FALSE].ready = heap[i].ready
               /\ [heap[i] EXCEPT !.running = FALSE].pids = heap[i].pids
               /\ [heap[i] EXCEPT !.running = FALSE].mounts = heap[i].mounts
    <2>1. heap[i] \in Session
      BY <1>t DEF TypeOK
    <2> QED BY <2>1 DEF Session
  <1>6. ASSUME NEW c \in Clients, NEW k \in Keys, NEW paused \in BOOLEAN, NEW n \in 0..MaxPids,
               NEW p \in Policies, CreateCount(c, k, paused, n, p)
        PROVE  RInv'
    <2>1. UNCHANGED <<inc, heap, created, guards, loops, marks, guardRunning>>
      BY <1>6 DEF CreateCount, Call, clientVars, serviceVars, guardVars
    <2>2. pc' = pc \/ Goto(c, "exists")
      BY <1>6 DEF CreateCount, Call, clientVars
    <2> QED BY <1>2, <1>5, <2>1, <2>2 DEF Steps, CreateSteps, Owning
  <1>7. ASSUME NEW c \in Clients, NEW k \in Keys, DestroyGuard(c, k)
        PROVE  RInv'
    BY <1>2, <1>7 DEF DestroyGuard, Call, serviceVars, guardVars, Steps, Owning
  <1>8. ASSUME NEW c \in Clients, NEW k \in Keys, NEW a \in Actions, NEW p \in Policies,
               UpdateGet(c, k, a, p)
        PROVE  RInv'
    <2>1. sessions[k] \in 0..MaxIncarnations
      BY <1>t DEF TypeOK
    <2> QED BY <1>2, <1>8, <2>1 DEF UpdateGet, serviceVars, guardVars, Steps, Owning
  <1>r. ASSUME NEW c \in Clients, Return(c),
               \A i \in Incarnations : /\ heap'[i].ready = heap[i].ready
                                       /\ heap'[i].pids = heap[i].pids
                                       /\ heap'[i].mounts = heap[i].mounts,
               UNCHANGED <<created, loops, marks, guardRunning>>,
               \/ guards' = guards
               \/ pc[c] = "ready" /\ guards' = guards \ {inc[c]}
        PROVE  RInv'
    <2>1. Goto(c, "idle") /\ inc' = [inc EXCEPT ![c] = 0]
      BY <1>r DEF Return
    <2>2. \E i \in 0..MaxIncarnations : inc' = [inc EXCEPT ![c] = i]
      <3>1. 0 \in 0..MaxIncarnations
        OBVIOUS
      <3> QED BY <2>1, <3>1
    <2>3. "idle" \in Steps \ {"ready"} /\ "idle" \notin Owning
      BY DEF Steps, Owning
    <2> QED BY <1>2, <1>r, <2>1, <2>2, <2>3
  <1>9. ASSUME NEW c \in Clients, Return(c),
               UNCHANGED <<heap, created, guards, loops, marks, guardRunning>>
        PROVE  RInv'
    BY <1>r, <1>9
  <1>10. ASSUME NEW c \in Clients, CreateExists(c)
         PROVE  RInv'
    BY <1>2, <1>9, <1>10 DEF CreateExists, serviceVars, guardVars, Steps, CreateSteps, Owning
  <1>11. ASSUME NEW c \in Clients, CreateRegister(c)
         PROVE  RInv'
    BY <1>2, <1>9, <1>11 DEF CreateRegister, guardVars, Steps, CreateSteps, Owning
  <1>12. ASSUME NEW c \in Clients, CreateSetup(c)
         PROVE  RInv'
    <2>1. CASE \E m \in 0..heap[inc[c]].pids :
                 /\ m > 0 \/ heap[inc[c]].pids = 0
                 /\ OpenGuard(c, heap[inc[c]].policy, m)
      BY <1>3, <1>12, <2>1 DEF CreateSetup
    <2>2. CASE /\ heap' = [heap EXCEPT ![inc[c]].running = FALSE]
               /\ Return(c)
               /\ UNCHANGED <<guards, config, marks>>
      <3>1. \A i \in Incarnations : /\ heap'[i].ready = heap[i].ready
                                    /\ heap'[i].pids = heap[i].pids
                                    /\ heap'[i].mounts = heap[i].mounts
        BY <1>t, <1>h, <2>2 DEF TypeOK
      <3>2. UNCHANGED <<created, loops, marks, guardRunning, guards>>
        BY <1>12, <2>2 DEF CreateSetup, SetupFrame
      <3> QED BY <1>r, <2>2, <3>1, <3>2
    <2> QED BY <1>12, <2>1, <2>2 DEF CreateSetup
  <1>13. ASSUME NEW c \in Clients, DestroyRemove(c)
         PROVE  RInv'
    <2>1. sessions[req[c].key] \in 0..MaxIncarnations
      BY <1>t DEF TypeOK, Requests
    <2> QED BY <1>2, <1>9, <1>13, <2>1 DEF DestroyRemove, guardVars, Steps, Owning
  <1>14. ASSUME NEW c \in Clients, DestroyStop(c)
         PROVE  RInv'
    <2>1. \A i \in Incarnations : /\ heap'[i].ready = heap[i].ready
                                  /\ heap'[i].pids = heap[i].pids
                                  /\ heap'[i].mounts = heap[i].mounts
      BY <1>t, <1>h, <1>14 DEF TypeOK, DestroyStop
    <2> QED BY <1>2, <1>14, <2>1 DEF DestroyStop, guardVars, Steps, Owning
  <1>15. ASSUME NEW c \in Clients, DestroyUnregister(c) \/ UpdateResume(c)
         PROVE  RInv'
    BY <1>9, <1>15 DEF DestroyUnregister, UpdateResume, serviceVars, guardVars
  <1>16. ASSUME NEW c \in Clients, UpdatePause(c) \/ UpdatePolicy(c)
         PROVE  RInv'
    <2>1. ASSUME NEW i \in Incarnations
          PROVE  /\ heap'[i].ready = heap[i].ready
                 /\ heap'[i].pids = heap[i].pids
                 /\ heap'[i].mounts = heap[i].mounts
      <3>1. heap[i] \in Session
        BY <1>t DEF TypeOK
      <3>2. \/ heap' = heap
            \/ heap' = [heap EXCEPT ![inc[c]].paused = TRUE, ![inc[c]].running = FALSE]
            \/ heap' = [heap EXCEPT ![inc[c]].policy = req[c].policy]
        BY <1>16 DEF UpdatePause, UpdatePolicy
      <3>3. CASE heap' = [heap EXCEPT ![inc[c]].paused = TRUE, ![inc[c]].running = FALSE]
        BY <1>t, <3>1, <3>3 DEF TypeOK, Session
      <3>4. CASE heap' = [heap EXCEPT ![inc[c]].policy = req[c].policy]
        BY <1>t, <3>1, <3>4 DEF TypeOK, Session
      <3> QED BY <3>2, <3>3, <3>4
    <2>2. Return(c) /\ UNCHANGED <<created, guards, loops, marks, guardRunning>>
      BY <1>16 DEF UpdatePause, UpdatePolicy, guardVars
    <2> QED BY <1>r, <2>1, <2>2
  <1>17. ASSUME NEW c \in Clients, Cancel(c)
         PROVE  RInv'
    <2>1. Return(c) /\ UNCHANGED <<heap, created, loops, marks, guardRunning>>
      BY <1>17 DEF Cancel, serviceVars
    <2>2. \/ guards' = guards
          \/ pc[c] = "ready" /\ guards' = guards \ {inc[c]}
      BY <1>17 DEF Cancel
    <2> QED BY <1>r, <2>1, <2>2
  <1>18. ASSUME NEW i \in Incarnations, GuardLoop(i)
         PROVE  RInv'
    <2>1. i \in loops /\ guardRunning[i] = TRUE
      BY <1>18 DEF GuardLoop, RInv
    <2>2. loops' = loops /\ guards' = guards
      BY <1>18, <2>1 DEF GuardLoop
    <2> QED BY <1>5, <1>18, <2>2 DEF GuardLoop, serviceVars, clientVars
  <1>19. CASE StateStreamOpen \/ StateStream \/ StateStreamRead \/ StateStreamHangup
    BY <1>5, <1>19 DEF StateStreamOpen, StateStream, StateStreamSend, StateStreamDone,
       StateStreamRead, StateStreamHangup, serviceVars, guardVars, clientVars
  <1>20. CASE UNCHANGED vars
    BY <1>5, <1>20 DEF vars, serviceVars, guardVars, clientVars
  <1> QED
    BY <1>1, <1>4, <1>6, <1>7, <1>8, <1>10, <1>11, <1>12, <1>13, <1>14, <1>15, <1>16, <1>17,
       <1>18, <1>19, <1>20 DEF Next, WriteLocked, Handler

\* A session that reports its marks as registered has an open fanotify group
\* with a mark in it, whatever creates, destroys, updates and cancellations
\* interleave (create_guard, service.rs).
THEOREM ReadyImpliesMarked == Spec => []ReadyMeansMarked
  <1>1. Init => RInv
    BY ConstantsAssumption DEF Init, RInv, Owning, Incarnations
  <1>2. RInv => ReadyMeansMarked
    BY DEF RInv, ReadyMeansMarked
  <1>3. Spec => []TInv
    BY InitTInv, NextTInv, PTL DEF Spec
  <1> QED
    BY <1>1, <1>2, <1>3, NextRInv, PTL DEF Spec

\* A Guard opens with the policy its session has at that moment, so an
\* update_policy that comes between insertion and opening is not lost.
THEOREM OpensWithSessionPolicy == Spec => GuardOpensWithSessionPolicy
  <1>1. TInv /\ [Next]_vars => [\A i \in guards' \ guards : config'[i] = heap[i].policy]_vars
    <2> SUFFICES ASSUME TInv, Next, NEW i \in guards' \ guards
                 PROVE  config'[i] = heap[i].policy
      OBVIOUS
    <2>1. PICK c \in Clients : CreateSetup(c)
      BY DEF Next, CreateCount, UpdateGet, DestroyGuard, WriteLocked, Handler, Cancel, CreateInsert,
         InsertSession, DestroyRemove, CreateExists, CreateRegister, CreateReady, DestroyStop,
         DestroyUnregister, UpdatePause, UpdateResume, UpdatePolicy, StateStreamOpen, StateStream,
         StateStreamSend, StateStreamDone, StateStreamRead, StateStreamHangup, GuardLoop, guardVars
    <2>2. inc[c] \in Incarnations
      BY <2>1, ConstantsAssumption DEF CreateSetup, TInv, TypeOK, Incarnations, Holding, Owning
    <2>3. guards' = guards \cup {inc[c]} /\ config' = [config EXCEPT ![inc[c]] = heap[inc[c]].policy]
      BY <2>1 DEF CreateSetup, OpenGuard
    <2> QED BY <2>2, <2>3 DEF TInv, TypeOK
  <1>2. Spec => []TInv
    BY InitTInv, NextTInv, PTL DEF Spec
  <1> QED
    BY <1>1, <1>2, PTL DEF Spec, GuardOpensWithSessionPolicy

-----------------------------------------------------------------------------
(* The collectors of a guard name against its sessions *)

\* The sessions of a name in the map, the creates that inserted one and will
\* register its collector, and the destroys that removed one and will unregister.
Named(n) == {k \in Present : NameOf[k] = n}
Registering(n) == {c \in Clients : pc[c] = "register" /\ NameOf[req[c].key] = n}
Owed(n) == {c \in Clients : pc[c] \in {"stop", "unregister"} /\ NameOf[heap[inc[c]].key] = n}
Counted == {"register", "stop", "unregister"}

\* A name has a collector, or one on its way, for each session in the map and
\* for each that was removed and is still to be unregistered.
CInv ==
    /\ \A k \in Keys : sessions[k] # 0 => heap[sessions[k]].key = k
    /\ \A n \in Names : collectors[n] + Cardinality(Registering(n))
                          >= Cardinality(Named(n)) + Cardinality(Owed(n))

\* The counted sets are finite, before and after a step.
LEMMA CountsFinite ==
    ASSUME NEW n
    PROVE  /\ IsFiniteSet(Named(n)) /\ IsFiniteSet(Registering(n)) /\ IsFiniteSet(Owed(n))
           /\ IsFiniteSet(Named(n)') /\ IsFiniteSet(Registering(n)') /\ IsFiniteSet(Owed(n)')
           /\ Cardinality(Named(n)) \in Nat /\ Cardinality(Named(n)') \in Nat
           /\ Cardinality(Registering(n)) \in Nat /\ Cardinality(Registering(n)') \in Nat
           /\ Cardinality(Owed(n)) \in Nat /\ Cardinality(Owed(n)') \in Nat
  <1>1. IsFiniteSet(Clients) /\ IsFiniteSet(Present) /\ IsFiniteSet(Present')
    BY ConstantsAssumption, Finite
  <1>2. Named(n) \subseteq Present /\ Named(n)' \subseteq Present'
    BY DEF Named
  <1>3. /\ Registering(n) \subseteq Clients /\ Registering(n)' \subseteq Clients
        /\ Owed(n) \subseteq Clients /\ Owed(n)' \subseteq Clients
    BY DEF Registering, Owed
  <1>4. IsFiniteSet(Named(n)) /\ IsFiniteSet(Named(n)')
    BY <1>1, <1>2, FS_Subset
  <1>5. /\ IsFiniteSet(Registering(n)) /\ IsFiniteSet(Registering(n)')
        /\ IsFiniteSet(Owed(n)) /\ IsFiniteSet(Owed(n)')
    BY <1>1, <1>3, FS_Subset
  <1> QED BY <1>4, <1>5, FS_CardinalityType

\* The size of a set that gained or lost an element.
LEMMA Grown ==
    ASSUME NEW S, IsFiniteSet(S), NEW x, NEW T, T = S \cup {x}
    PROVE  /\ Cardinality(T) <= Cardinality(S) + 1
           /\ x \notin S => Cardinality(T) = Cardinality(S) + 1
  <1>1. Cardinality(S \cup {x}) = IF x \in S THEN Cardinality(S) ELSE Cardinality(S) + 1
    BY FS_AddElement
  <1>2. Cardinality(S) \in Nat
    BY FS_CardinalityType
  <1> QED BY <1>1, <1>2

LEMMA Shrunk ==
    ASSUME NEW S, IsFiniteSet(S), NEW x \in S, NEW T, T = S \ {x}
    PROVE  Cardinality(T) = Cardinality(S) - 1
  <1>1. Cardinality(S \ {x}) = Cardinality(S) - 1
    BY OneElement
  <1> QED BY <1>1

LEMMA NotEmpty ==
    ASSUME NEW S, IsFiniteSet(S), NEW x \in S
    PROVE  Cardinality(S) >= 1
  <1>1. Cardinality(S) \in Nat /\ Cardinality(S) # 0
    BY FS_CardinalityType, FS_EmptySet
  <1> QED BY <1>1

\* Removing a session takes its incarnation along.
LEMMA HeldIncarnation ==
    ASSUME TInv, NEW c \in Clients, pc[c] \in {"stop", "unregister"}
    PROVE  inc[c] \in Incarnations /\ inc[c] <= created
  BY ConstantsAssumption DEF TInv, TypeOK, Holding, Incarnations

\* A step that leaves the map and the collectors alone, keeps the keys of the
\* sessions and moves a client between steps that are not counted.
LEMMA UncountedMove ==
    ASSUME TInv, CInv, UNCHANGED <<sessions, collectors>>,
           \A i \in Incarnations : heap'[i].key = heap[i].key,
           NEW c \in Clients, NEW s, s \notin Counted, Goto(c, s), pc[c] \notin Counted,
           \A d \in Clients \ {c} : req'[d] = req[d] /\ inc'[d] = inc[d]
    PROVE  CInv'
  <1>t. TypeOK
    BY DEF TInv
  <1>1. \A d \in Clients \ {c} : pc'[d] = pc[d]
    BY <1>t DEF TypeOK, Goto
  <1>2. pc'[c] = s
    BY <1>t DEF TypeOK, Goto
  <1>3. \A n \in Names : Registering(n)' = Registering(n)
    BY <1>1, <1>2 DEF Registering, Counted
  <1>4. \A n \in Names : Owed(n)' = Owed(n)
    <2>1. \A d \in Clients : pc[d] \in {"stop", "unregister"} => inc[d] \in Incarnations
      BY HeldIncarnation
    <2>2. \A d \in Clients : pc'[d] \in {"stop", "unregister"} <=> pc[d] \in {"stop", "unregister"}
      BY <1>1, <1>2 DEF Counted
    <2>3. \A d \in Clients : pc[d] \in {"stop", "unregister"} => heap'[inc'[d]].key = heap[inc[d]].key
      BY <2>1 DEF Counted
    <2> QED BY <2>2, <2>3 DEF Owed
  <1>5. \A n \in Names : Named(n)' = Named(n)
    BY DEF Named, Present
  <1>6. \A k \in Keys : sessions[k] # 0 => sessions[k] \in Incarnations
    <2>1. \A k \in Keys : sessions[k] \in 0..MaxIncarnations
      BY <1>t DEF TypeOK
    <2>2. MaxIncarnations \in Nat
      BY ConstantsAssumption
    <2> QED BY <2>1, <2>2 DEF Incarnations
  <1>7. \A k \in Keys : sessions'[k] # 0 => heap'[sessions'[k]].key = k
    BY <1>6 DEF CInv
  <1>8. \A n \in Names : collectors'[n] + Cardinality(Registering(n)')
                            >= Cardinality(Named(n)') + Cardinality(Owed(n)')
    BY <1>3, <1>4, <1>5 DEF CInv
  <1> QED BY <1>7, <1>8 DEF CInv

\* Every step but a cancellation keeps the count.
LEMMA NextCInv ==
    TInv /\ CInv /\ [Next]_vars /\ (\A c \in Clients : ~ Cancel(c)) => CInv'
  <1> SUFFICES ASSUME TInv, CInv, [Next]_vars, \A c \in Clients : ~ Cancel(c) PROVE CInv'
    OBVIOUS
  <1>t. TypeOK
    BY DEF TInv
  <1>i. \A k \in Keys : sessions[k] # 0 => sessions[k] \in Incarnations /\ sessions[k] <= created
    <2>1. \A k \in Keys : sessions[k] \in 0..MaxIncarnations /\ sessions[k] <= created
      BY <1>t DEF TInv, TypeOK
    <2>2. MaxIncarnations \in Nat
      BY ConstantsAssumption
    <2> QED BY <2>1, <2>2 DEF Incarnations
  <1>k. \A k \in Keys : sessions[k] # 0 => heap[sessions[k]].key = k
    BY DEF CInv
  <1>m. \A n \in Names : collectors[n] \in Nat
          /\ collectors[n] + Cardinality(Registering(n)) >= Cardinality(Named(n)) + Cardinality(Owed(n))
    BY <1>t DEF CInv, TypeOK
  <1>f. \A n \in Names :
          /\ Cardinality(Named(n)) \in Nat /\ Cardinality(Named(n)') \in Nat
          /\ Cardinality(Registering(n)) \in Nat /\ Cardinality(Registering(n)') \in Nat
          /\ Cardinality(Owed(n)) \in Nat /\ Cardinality(Owed(n)') \in Nat
    BY CountsFinite
  <1>q. \A c \in Clients : req[c].key \in Keys /\ NameOf[req[c].key] \in Names
    BY <1>t, ConstantsAssumption DEF TypeOK, Requests
  <1>1. ASSUME NEW c \in Clients, CreateInsert(c)
        PROVE  CInv'
    <2>1. created + 1 \in Incarnations /\ created \in Nat
      <3>1. c \in InFlightCreates
        BY <1>1 DEF CreateInsert, InFlightCreates
      <3>2. Cardinality(InFlightCreates) >= 1
        <4>1. IsFiniteSet(InFlightCreates)
          BY Finite
        <4> QED BY <3>1, <4>1, NotEmpty
      <3>3. Cardinality(InFlightCreates) \in Nat
        BY Finite
      <3>4. created \in 0..MaxIncarnations /\ created + Cardinality(InFlightCreates) <= MaxIncarnations
        BY <1>t DEF TInv, TypeOK
      <3> QED BY <3>2, <3>3, <3>4, ConstantsAssumption DEF Incarnations
    <2>2. /\ pc[c] = "insert" /\ pc' = [pc EXCEPT ![c] = "register"]
          /\ inc' = [inc EXCEPT ![c] = created + 1]
          /\ heap' = [heap EXCEPT ![created + 1] = NewSession(req[c])]
          /\ sessions' = [sessions EXCEPT ![req[c].key] = created + 1]
          /\ UNCHANGED <<collectors, req>>
      BY <1>1 DEF CreateInsert, InsertSession, Goto
    <2>3. heap'[created + 1].key = req[c].key
      BY <1>t, <2>1, <2>2 DEF TypeOK, NewSession
    <2>4. \A i \in Incarnations : i <= created => heap'[i] = heap[i]
      BY <1>t, <2>1, <2>2 DEF TypeOK
    <2>5. \A k \in Keys : sessions'[k] # 0 => heap'[sessions'[k]].key = k
      <3> SUFFICES ASSUME NEW k \in Keys, sessions'[k] # 0 PROVE heap'[sessions'[k]].key = k
        OBVIOUS
      <3>1. CASE k = req[c].key
        BY <1>t, <2>2, <2>3, <3>1 DEF TypeOK
      <3>2. CASE k # req[c].key
        <4>1. sessions'[k] = sessions[k]
          BY <1>t, <2>2, <3>2 DEF TypeOK
        <4> QED BY <4>1, <2>4, <1>i, <1>k
      <3> QED BY <3>1, <3>2
    <2>k. \A k \in Keys : sessions'[k] # 0 <=> k = req[c].key \/ sessions[k] # 0
      BY <1>t, <2>1, <2>2 DEF TypeOK
    <2>6. ASSUME NEW n \in Names
          PROVE  collectors'[n] + Cardinality(Registering(n)')
                   >= Cardinality(Named(n)') + Cardinality(Owed(n)')
      <3>1. Owed(n)' = Owed(n)
        BY <1>t, <2>2, <2>4, HeldIncarnation DEF TypeOK, Owed
      <3>2. CASE NameOf[req[c].key] = n
        <4>1. Registering(n)' = Registering(n) \cup {c} /\ c \notin Registering(n)
          BY <1>t, <2>2, <3>2 DEF TypeOK, Registering
        <4>2. Named(n)' = Named(n) \cup {req[c].key}
          BY <1>q, <2>k, <3>2 DEF Named, Present
        <4>3. Cardinality(Registering(n)') = Cardinality(Registering(n)) + 1
          <5>1. IsFiniteSet(Registering(n))
            BY CountsFinite
          <5> QED BY <4>1, <5>1, Grown
        <4>4. Cardinality(Named(n)') <= Cardinality(Named(n)) + 1
          <5>1. IsFiniteSet(Named(n))
            BY CountsFinite
          <5> QED BY <4>2, <5>1, Grown
        <4>f. /\ collectors[n] \in Nat
              /\ collectors[n] + Cardinality(Registering(n)) >= Cardinality(Named(n)) + Cardinality(Owed(n))
              /\ Cardinality(Named(n)) \in Nat /\ Cardinality(Registering(n)) \in Nat
              /\ Cardinality(Owed(n)) \in Nat
          BY <1>f, <1>m
        <4>5. Cardinality(Owed(n)') = Cardinality(Owed(n)) /\ collectors'[n] = collectors[n]
          BY <2>2, <3>1
        <4>6. Cardinality(Named(n)') \in Nat
          BY <1>f
        <4>g. PICK a, r, m, o, m1 \in Nat :
                /\ a = collectors[n] /\ r = Cardinality(Registering(n))
                /\ m = Cardinality(Named(n)) /\ o = Cardinality(Owed(n)) /\ a + r >= m + o
                /\ m1 = Cardinality(Named(n)') /\ m1 <= m + 1
          BY <4>4, <4>6, <4>f
        <4>7. /\ collectors'[n] = a /\ Cardinality(Registering(n)') = r + 1
              /\ Cardinality(Named(n)') = m1 /\ Cardinality(Owed(n)') = o
          BY <4>3, <4>5, <4>g
        <4>8. a + (r + 1) >= m1 + o
          BY <4>g
        <4> QED BY <4>7, <4>8
      <3>3. CASE NameOf[req[c].key] # n
        <4>1. Registering(n)' = Registering(n)
          BY <1>t, <2>2, <3>3 DEF TypeOK, Registering
        <4>2. Named(n)' = Named(n)
          BY <1>q, <2>k, <3>3 DEF Named, Present
        <4> QED BY <1>m, <2>2, <3>1, <4>1, <4>2
      <3> QED BY <3>2, <3>3
    <2> QED BY <2>5, <2>6 DEF CInv
  <1>2. ASSUME NEW c \in Clients, CreateRegister(c)
        PROVE  CInv'
    <2>1. /\ pc[c] = "register" /\ UNCHANGED <<sessions, heap>>
          /\ collectors' = [collectors EXCEPT ![NameOf[req[c].key]] = @ + 1]
          /\ pc' = [pc EXCEPT ![c] = "idle"] \/ pc' = [pc EXCEPT ![c] = "setup"]
          /\ \A d \in Clients \ {c} : req'[d] = req[d] /\ inc'[d] = inc[d]
      BY <1>t, <1>2 DEF TypeOK, CreateRegister, Return, Goto
    <2>2. /\ \A d \in Clients \ {c} : pc'[d] = pc[d]
          /\ pc'[c] \notin Counted
      BY <1>t, <2>1 DEF TypeOK, Counted
    <2>3. ASSUME NEW n \in Names
          PROVE  collectors'[n] + Cardinality(Registering(n)')
                   >= Cardinality(Named(n)') + Cardinality(Owed(n)')
      <3>1. Owed(n)' = Owed(n) /\ Named(n)' = Named(n)
        BY <2>1, <2>2 DEF Owed, Counted, Named, Present
      <3>2. Registering(n)' = Registering(n) \ {c}
        BY <2>1, <2>2 DEF Registering, Counted
      <3>3. CASE NameOf[req[c].key] = n
        <4>1. c \in Registering(n)
          BY <2>1, <3>3 DEF Registering
        <4>2. Cardinality(Registering(n)') = Cardinality(Registering(n)) - 1
          <5>1. IsFiniteSet(Registering(n))
            BY CountsFinite
          <5> QED BY <3>2, <4>1, <5>1, Shrunk
        <4>3. collectors'[n] = collectors[n] + 1
          BY <1>t, <2>1, <3>3 DEF TypeOK
        <4>f. /\ collectors[n] \in Nat
              /\ collectors[n] + Cardinality(Registering(n)) >= Cardinality(Named(n)) + Cardinality(Owed(n))
              /\ Cardinality(Named(n)) \in Nat /\ Cardinality(Registering(n)) \in Nat
              /\ Cardinality(Owed(n)) \in Nat
          BY <1>f, <1>m
        <4>4. Cardinality(Named(n)') = Cardinality(Named(n))
              /\ Cardinality(Owed(n)') = Cardinality(Owed(n))
          BY <3>1
        <4>g. PICK a, r, m, o \in Nat :
                /\ a = collectors[n] /\ r = Cardinality(Registering(n))
                /\ m = Cardinality(Named(n)) /\ o = Cardinality(Owed(n)) /\ a + r >= m + o
          BY <4>f
        <4>5. /\ collectors'[n] = a + 1 /\ Cardinality(Registering(n)') = r - 1
              /\ Cardinality(Named(n)') = m /\ Cardinality(Owed(n)') = o
          BY <4>2, <4>3, <4>4, <4>g
        <4>6. (a + 1) + (r - 1) >= m + o
          BY <4>g
        <4> QED BY <4>5, <4>6
      <3>4. CASE NameOf[req[c].key] # n
        <4>1. Registering(n)' = Registering(n)
          BY <3>2, <3>4 DEF Registering
        <4>2. collectors'[n] = collectors[n]
          BY <1>t, <2>1, <3>4 DEF TypeOK
        <4> QED BY <1>m, <3>1, <4>1, <4>2
      <3> QED BY <3>3, <3>4
    <2> QED BY <1>k, <2>1, <2>3 DEF CInv
  <1>3. ASSUME NEW c \in Clients, DestroyRemove(c)
        PROVE  CInv'
    <2>1. CASE UNCHANGED sessions /\ Return(c)
      BY <1>t, <1>3, <2>1, UncountedMove DEF TypeOK, DestroyRemove, Return, Counted
    <2>2. CASE /\ req[c].key \in Present
               /\ inc' = [inc EXCEPT ![c] = sessions[req[c].key]]
               /\ sessions' = [sessions EXCEPT ![req[c].key] = 0]
               /\ Goto(c, "stop")
      <3>1. /\ pc[c] = "remove" /\ UNCHANGED <<heap, collectors>>
            /\ pc' = [pc EXCEPT ![c] = "stop"]
            /\ UNCHANGED req
        BY <1>3, <2>2 DEF DestroyRemove, Return, Goto
      <3>2. heap[inc'[c]].key = req[c].key
        BY <1>t, <1>k, <1>q, <2>2 DEF TypeOK, Present
      <3>3. \A d \in Clients \ {c} : inc'[d] = inc[d] /\ pc'[d] = pc[d]
        BY <1>t, <2>2, <3>1 DEF TypeOK
      <3>4. \A k \in Keys : sessions'[k] # 0 => heap'[sessions'[k]].key = k
        BY <1>t, <1>k, <2>2, <3>1 DEF TypeOK
      <3>5. ASSUME NEW n \in Names
            PROVE  collectors'[n] + Cardinality(Registering(n)')
                     >= Cardinality(Named(n)') + Cardinality(Owed(n)')
        <4>1. Registering(n)' = Registering(n)
          BY <1>t, <3>1 DEF TypeOK, Registering
        <4>2. Named(n)' = Named(n) \ {req[c].key}
          BY <1>t, <1>q, <2>2 DEF TypeOK, Named, Present
        <4>3. pc'[c] = "stop"
          BY <1>t, <3>1 DEF TypeOK
        <4>4. CASE NameOf[req[c].key] = n
          <5>1. req[c].key \in Named(n)
            BY <2>2, <4>4 DEF Named
          <5>2. Owed(n)' = Owed(n) \cup {c}
            BY <3>1, <3>2, <3>3, <4>3, <4>4 DEF Owed
          <5>f. IsFiniteSet(Named(n)) /\ IsFiniteSet(Owed(n))
            BY CountsFinite
          <5>3. Cardinality(Named(n)') = Cardinality(Named(n)) - 1
            BY <4>2, <5>1, <5>f, Shrunk
          <5>4. Cardinality(Owed(n)') <= Cardinality(Owed(n)) + 1
            BY <5>2, <5>f, Grown
          <5> QED BY <1>f, <1>m, <3>1, <4>1, <5>3, <5>4
        <4>5. CASE NameOf[req[c].key] # n
          <5>1. Named(n)' = Named(n)
            BY <4>2, <4>5 DEF Named
          <5>2. Owed(n)' = Owed(n)
            BY <3>1, <3>2, <3>3, <4>3, <4>5 DEF Owed
          <5> QED BY <1>m, <3>1, <4>1, <5>1, <5>2
        <4> QED BY <4>4, <4>5
      <3> QED BY <3>4, <3>5 DEF CInv
    <2> QED BY <1>3, <2>1, <2>2 DEF DestroyRemove
  <1>4. ASSUME NEW c \in Clients, DestroyUnregister(c)
        PROVE  CInv'
    <2> DEFINE name == NameOf[heap[inc[c]].key]
    <2>1. /\ pc[c] = "unregister" /\ UNCHANGED <<sessions, heap>>
          /\ collectors' = [collectors EXCEPT ![name] = IF @ > 0 THEN @ - 1 ELSE 0]
          /\ pc' = [pc EXCEPT ![c] = "idle"]
          /\ \A d \in Clients \ {c} : req'[d] = req[d] /\ inc'[d] = inc[d]
      BY <1>t, <1>4 DEF TypeOK, DestroyUnregister, Return, Goto
    <2>2. /\ \A d \in Clients \ {c} : pc'[d] = pc[d]
          /\ pc'[c] \notin Counted
      BY <1>t, <2>1 DEF TypeOK, Counted
    <2> HIDE DEF name
    <2>3. ASSUME NEW n \in Names
          PROVE  collectors'[n] + Cardinality(Registering(n)')
                   >= Cardinality(Named(n)') + Cardinality(Owed(n)')
      <3>1. Registering(n)' = Registering(n) /\ Named(n)' = Named(n)
        BY <2>1, <2>2 DEF Registering, Counted, Named, Present
      <3>2. Owed(n)' = Owed(n) \ {c}
        BY <2>1, <2>2 DEF Owed, Counted
      <3>3. CASE name = n
        <4>1. c \in Owed(n)
          BY <2>1, <3>3 DEF Owed, name
        <4>2. Cardinality(Owed(n)') = Cardinality(Owed(n)) - 1
          <5>1. IsFiniteSet(Owed(n))
            BY CountsFinite
          <5> QED BY <3>2, <4>1, <5>1, Shrunk
        <4>3. collectors'[n] = IF collectors[n] > 0 THEN collectors[n] - 1 ELSE 0
          BY <1>t, <2>1, <3>3 DEF TypeOK
        <4>f. /\ collectors[n] \in Nat
              /\ collectors[n] + Cardinality(Registering(n)) >= Cardinality(Named(n)) + Cardinality(Owed(n))
              /\ Cardinality(Named(n)) \in Nat /\ Cardinality(Registering(n)) \in Nat
              /\ Cardinality(Owed(n)) \in Nat
          BY <1>f, <1>m
        <4>4. Cardinality(Named(n)') = Cardinality(Named(n))
              /\ Cardinality(Registering(n)') = Cardinality(Registering(n))
          BY <3>1
        <4>g. PICK a, r, m, o \in Nat :
                /\ a = collectors[n] /\ r = Cardinality(Registering(n))
                /\ m = Cardinality(Named(n)) /\ o = Cardinality(Owed(n)) /\ a + r >= m + o
          BY <4>f
        <4>5. CASE a > 0
          <5>1. /\ collectors'[n] = a - 1 /\ Cardinality(Registering(n)') = r
                /\ Cardinality(Named(n)') = m /\ Cardinality(Owed(n)') = o - 1
            BY <4>2, <4>3, <4>4, <4>5, <4>g
          <5>2. (a - 1) + r >= m + (o - 1)
            BY <4>g
          <5> QED BY <5>1, <5>2
        <4>6. CASE ~(a > 0)
          <5>1. /\ collectors'[n] = 0 /\ Cardinality(Registering(n)') = r
                /\ Cardinality(Named(n)') = m /\ Cardinality(Owed(n)') = o - 1
            BY <4>2, <4>3, <4>4, <4>6, <4>g
          <5>2. 0 + r >= m + (o - 1)
            BY <4>g, <4>6
          <5> QED BY <5>1, <5>2
        <4> QED BY <4>5, <4>6
      <3>4. CASE name # n
        <4>1. Owed(n)' = Owed(n)
          BY <3>2, <3>4 DEF Owed, name
        <4>2. collectors'[n] = collectors[n]
          BY <1>t, <2>1, <3>4 DEF TypeOK
        <4> QED BY <1>m, <3>1, <4>1, <4>2
      <3> QED BY <3>3, <3>4
    <2> QED BY <1>k, <2>1, <2>3 DEF CInv
  <1>5. ASSUME NEW c \in Clients, DestroyStop(c)
        PROVE  CInv'
    <2>1. /\ pc[c] = "stop" /\ pc' = [pc EXCEPT ![c] = "unregister"]
          /\ heap' = [heap EXCEPT ![inc[c]].running = FALSE]
          /\ UNCHANGED <<sessions, collectors, req, inc>>
      BY <1>5 DEF DestroyStop, Goto
    <2>2. \A i \in Incarnations : heap'[i].key = heap[i].key
      BY <1>t, <2>1 DEF TypeOK, Session
    <2>3. \A n \in Names : Owed(n)' = Owed(n)
      BY <1>t, <2>1, <2>2, HeldIncarnation DEF TypeOK, Owed
    <2>4. \A n \in Names : Registering(n)' = Registering(n) /\ Named(n)' = Named(n)
      BY <1>t, <2>1 DEF TypeOK, Registering, Named, Present
    <2> QED BY <1>i, <1>k, <1>m, <2>1, <2>2, <2>3, <2>4 DEF CInv
  <1>6. ASSUME NEW c \in Clients, NEW s \in {"idle", "exists", "insert", "remove", "update", "ready"},
               Goto(c, s), pc[c] \notin Counted, UNCHANGED <<sessions, collectors>>,
               \A d \in Clients \ {c} : req'[d] = req[d] /\ inc'[d] = inc[d],
               \A i \in Incarnations : heap'[i].key = heap[i].key
        PROVE  CInv'
    BY <1>6, UncountedMove DEF Counted
  <1>7. ASSUME UNCHANGED <<sessions, collectors, heap, pc, req, inc>>
        PROVE  CInv'
    <2>1. \A n \in Names :
            Named(n)' = Named(n) /\ Registering(n)' = Registering(n) /\ Owed(n)' = Owed(n)
      BY <1>7 DEF Named, Registering, Owed, Present
    <2> QED BY <1>7, <1>k, <1>m, <2>1 DEF CInv
  <1>8. ASSUME NEW c \in Clients, NEW k \in Keys, NEW paused \in BOOLEAN,
               NEW n \in 0..MaxPids, NEW p \in Policies, CreateCount(c, k, paused, n, p)
        PROVE  CInv'
    <2>1. CASE UNCHANGED clientVars
      BY <1>7, <1>8, <2>1 DEF CreateCount, serviceVars, clientVars
    <2>2. CASE ~ UNCHANGED clientVars
      BY <1>t, <1>6, <1>8, <2>2 DEF TypeOK, CreateCount, Call, serviceVars, Counted
    <2> QED BY <2>1, <2>2
  <1>9. ASSUME NEW c \in Clients, CreateExists(c)
        PROVE  CInv'
    <2>1. CASE Return(c)
      BY <1>t, <1>6, <1>9, <2>1 DEF TypeOK, CreateExists, Return, serviceVars, Counted
    <2>2. CASE Goto(c, "insert") /\ UNCHANGED <<req, inc>>
      BY <1>6, <1>9, <2>2 DEF CreateExists, serviceVars, Counted
    <2> QED BY <1>9, <2>1, <2>2 DEF CreateExists
  <1>10. ASSUME NEW c \in Clients, CreateSetup(c)
         PROVE  CInv'
    <2>1. UNCHANGED <<sessions, collectors>> /\ pc[c] = "setup"
      BY <1>10 DEF CreateSetup, SetupFrame
    <2>2. CASE \E m \in 0..heap[inc[c]].pids : OpenGuard(c, heap[inc[c]].policy, m)
      <3>1. Goto(c, "ready") /\ UNCHANGED <<heap, req, inc>>
        BY <2>2 DEF OpenGuard
      <3> QED BY <1>6, <2>1, <3>1 DEF Counted
    <2>3. CASE heap' = [heap EXCEPT ![inc[c]].running = FALSE] /\ Return(c)
      <3>1. \A i \in Incarnations : heap'[i].key = heap[i].key
        BY <1>t, <2>3 DEF TypeOK, Session
      <3> QED BY <1>t, <1>6, <2>1, <2>3, <3>1 DEF TypeOK, Return, Counted
    <2> QED BY <1>10, <2>2, <2>3 DEF CreateSetup
  <1>11. ASSUME NEW c \in Clients, CreateReady(c) \/ UpdatePause(c) \/ UpdateResume(c) \/ UpdatePolicy(c)
         PROVE  CInv'
    <2>1. UNCHANGED <<sessions, collectors>> /\ pc[c] \notin Counted /\ Return(c)
      BY <1>11 DEF CreateReady, UpdatePause, UpdateResume, UpdatePolicy, serviceVars, Counted
    <2>2. \A i \in Incarnations : heap'[i].key = heap[i].key
      <3>1. CASE CreateReady(c)
        BY <1>t, <3>1 DEF TypeOK, Session, CreateReady
      <3>2. CASE UpdatePause(c)
        BY <1>t, <3>2 DEF TypeOK, Session, UpdatePause
      <3>3. CASE UpdateResume(c)
        BY <3>3 DEF UpdateResume, serviceVars
      <3>4. CASE UpdatePolicy(c)
        BY <1>t, <3>4 DEF TypeOK, Session, UpdatePolicy
      <3> QED BY <1>11, <3>1, <3>2, <3>3, <3>4, Zenon
    <2>3. Goto(c, "idle") /\ \A d \in Clients \ {c} : req'[d] = req[d] /\ inc'[d] = inc[d]
      BY <1>t, <2>1 DEF TypeOK, Return
    <2> QED BY <1>6, <2>1, <2>2, <2>3
  <1>12. ASSUME NEW c \in Clients, NEW k \in Keys, NEW a \in Actions, NEW p \in Policies,
                UpdateGet(c, k, a, p)
         PROVE  CInv'
    BY <1>t, <1>6, <1>12 DEF TypeOK, UpdateGet, serviceVars, Counted
  <1>13. ASSUME NEW c \in Clients, NEW k \in Keys, DestroyGuard(c, k)
         PROVE  CInv'
    BY <1>t, <1>6, <1>13 DEF TypeOK, DestroyGuard, Call, serviceVars, Counted
  <1>14. CASE StateStreamOpen \/ StateStream \/ StateStreamRead \/ StateStreamHangup
    BY <1>7, <1>14 DEF StateStreamOpen, StateStream, StateStreamSend, StateStreamDone,
       StateStreamRead, StateStreamHangup, serviceVars, clientVars
  <1>15. ASSUME NEW i \in Incarnations, GuardLoop(i)
         PROVE  CInv'
    BY <1>7, <1>15 DEF GuardLoop, serviceVars, clientVars
  <1>16. CASE UNCHANGED vars
    BY <1>7, <1>16 DEF vars, serviceVars, clientVars
  <1> QED
    BY <1>1, <1>2, <1>3, <1>4, <1>5, <1>8, <1>9, <1>10, <1>11, <1>12, <1>13, <1>14, <1>15, <1>16
    DEF Next, WriteLocked, Handler

\* Where no call is cancelled, the metrics never lose track of a session: a
\* quiet service has a collector for each session in its map, although
\* unregister takes whichever collector of that name comes first.
THEOREM SessionsHaveCollectors == Cancellable = {} => (Spec => []MetricsCoverSessions)
  <1> SUFFICES ASSUME Cancellable = {} PROVE Spec => []MetricsCoverSessions
    OBVIOUS
  <1>1. Init => CInv
    <2> SUFFICES ASSUME Init PROVE CInv
      OBVIOUS
    <2>1. \A n \in Names : Named(n) = {} /\ Registering(n) = {} /\ Owed(n) = {}
      BY DEF Init, Named, Registering, Owed, Present
    <2>2. \A n \in Names : collectors[n] = 0
      BY DEF Init
    <2>3. \A k \in Keys : sessions[k] = 0
      BY DEF Init
    <2>4. ASSUME NEW n \in Names
          PROVE  collectors[n] + Cardinality(Registering(n)) >= Cardinality(Named(n)) + Cardinality(Owed(n))
      <3>1. /\ collectors[n] = 0 /\ Cardinality(Registering(n)) = 0
            /\ Cardinality(Named(n)) = 0 /\ Cardinality(Owed(n)) = 0
        BY <2>1, <2>2, FS_EmptySet
      <3> QED BY <3>1
    <2> QED BY <2>3, <2>4 DEF CInv
  <1>2. TInv /\ CInv => MetricsCoverSessions
    <2> SUFFICES ASSUME TInv, CInv, \A c \in Clients : pc[c] = "idle", NEW n \in Names
                 PROVE  Cardinality({k \in Present : NameOf[k] = n}) <= collectors[n]
      BY DEF MetricsCoverSessions
    <2>1. Registering(n) = {} /\ Owed(n) = {}
      BY DEF Registering, Owed
    <2>2. Cardinality(Registering(n)) = 0 /\ Cardinality(Owed(n)) = 0
      BY <2>1, FS_EmptySet
    <2>3. collectors[n] + Cardinality(Registering(n)) >= Cardinality(Named(n)) + Cardinality(Owed(n))
      BY DEF CInv
    <2>4. collectors[n] \in Nat
      BY DEF TInv, TypeOK
    <2>5. Cardinality(Named(n)) <= collectors[n]
      <3>1. Cardinality(Named(n)) \in Nat
        BY CountsFinite
      <3>2. collectors[n] + 0 >= Cardinality(Named(n)) + 0
        BY <2>2, <2>3
      <3> QED BY <2>4, <3>1, <3>2
    <2> QED BY <2>5 DEF Named
  <1>3. Spec => []TInv
    BY InitTInv, NextTInv, PTL DEF Spec
  <1>4. TInv /\ CInv /\ [Next]_vars => CInv'
    BY NextCInv DEF Cancel
  <1> QED
    BY <1>1, <1>2, <1>3, <1>4, PTL DEF Spec

=============================================================================
