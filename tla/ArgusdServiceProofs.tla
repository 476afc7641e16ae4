------------------------- MODULE ArgusdServiceProofs -------------------------
(***************************************************************************)
(* Proofs about ArgusdService: type correctness, that no session is        *)
(* without a metrics collector, and that the service implements the        *)
(* bounded session registry.                                               *)
(***************************************************************************)
EXTENDS ArgusdService, FiniteSetTheorems, TLAPS

\* The default request and session have the types of requests and sessions.
LEMMA Defaults == NoRequest \in Requests /\ NoSession \in Session
  <1>1. PICK k \in Keys : TRUE
    BY ConstantsAssumption
  <1>2. [key |-> k, paused |-> FALSE, containers |-> 0, action |-> "pause"] \in Requests
    BY ConstantsAssumption DEF Requests, Actions
  <1>3. NoRequest \in Requests
    BY <1>2 DEF NoRequest
  <1>4. NoRequest.key \in Keys
    BY <1>3 DEF Requests
  <1> QED BY <1>3, <1>4 DEF NoSession, Session

\* The typing of a client that goes on with its call, ...
LEMMA GotoType ==
    ASSUME TypeOK, NEW c \in Clients, NEW s \in Steps, Goto(c, s)
    PROVE  /\ pc' \in [Clients -> Steps]
           /\ answer' = NoAnswer
  BY DEF TypeOK, Goto

\* ... and of one whose call is answered.
LEMMA ReturnType ==
    ASSUME TypeOK, NEW c \in Clients, NEW r \in Replies, Return(c, r)
    PROVE  /\ pc' \in [Clients -> Steps] /\ req' \in [Clients -> Requests]
           /\ inc' \in [Clients -> Nat] /\ cur' \in [Clients -> Nat]
           /\ todo' \in [Clients -> 0..MaxContainers] /\ scan' \in [Clients -> SUBSET Nat]
           /\ answer' \in [reply : Replies, client : Clients]
  <1>1. "idle" \in Steps /\ 0 \in 0..MaxContainers
    BY ConstantsAssumption DEF Steps
  <1> QED BY <1>1, Defaults DEF TypeOK, Return

\* Updating a field of a session keeps its type.
LEMMA HeapType ==
    ASSUME TypeOK, NEW i
    PROVE  /\ [heap EXCEPT ![i].paused = TRUE] \in [Incarnations -> Session]
           /\ [heap EXCEPT ![i].paused = FALSE] \in [Incarnations -> Session]
           /\ [heap EXCEPT ![i].ready = TRUE] \in [Incarnations -> Session]
           /\ \A w \in Nat : [heap EXCEPT ![i].watcher = w] \in [Incarnations -> Session]
  <1>1. heap \in [Incarnations -> Session]
    BY DEF TypeOK
  <1>2. \A s \in Session, w \in Nat :
          /\ [s EXCEPT !.paused = TRUE] \in Session /\ [s EXCEPT !.paused = FALSE] \in Session
          /\ [s EXCEPT !.ready = TRUE] \in Session /\ [s EXCEPT !.watcher = w] \in Session
    BY DEF Session
  <1> QED BY <1>1, <1>2

\* Every step keeps the types.
LEMMA NextType == TypeOK /\ [Next]_vars => TypeOK'
  <1> SUFFICES ASSUME TypeOK, [Next]_vars PROVE TypeOK'
    OBVIOUS
  <1> USE ConstantsAssumption, Defaults
  <1>r. ASSUME NEW c \in Clients, NEW r \in Replies, Return(c, r),
               sessions' \in [Keys -> Nat], created' = created, made' = made, owner' = owner,
               heap' \in [Incarnations -> Session], collectors' \in [Keys -> Nat],
               watched' \in [Watchers -> BOOLEAN], running' \in [Watchers -> BOOLEAN],
               task' = task, queued' = queued
        PROVE  TypeOK'
    BY <1>r, ReturnType DEF TypeOK
  <1>1. ASSUME NEW c \in Clients, NEW s \in Steps, NEW q \in Requests, Call(c, s, q),
               UNCHANGED <<serviceVars, watcherVars>>
        PROVE  TypeOK'
    BY <1>1, GotoType DEF TypeOK, Call, serviceVars, watcherVars, localVars
  <1>2. ASSUME NEW c \in Clients, NEW k \in Keys, NEW p \in BOOLEAN, NEW n \in 0..MaxContainers,
               CreateWatch(c, k, p, n)
        PROVE  TypeOK'
    <2>1. [NoRequest EXCEPT !.key = k, !.paused = p, !.containers = n] \in Requests
      BY DEF Requests
    <2> QED BY <1>1, <1>2, <2>1 DEF CreateWatch, Steps, Creating
  <1>3. ASSUME NEW c \in Clients, NEW k \in Keys, DestroyWatch(c, k)
        PROVE  TypeOK'
    <2>1. [NoRequest EXCEPT !.key = k] \in Requests
      BY DEF Requests
    <2> QED BY <1>1, <1>3, <2>1 DEF DestroyWatch, Steps
  <1>4. ASSUME NEW c \in Clients, NEW k \in Keys, NEW a \in Actions, UpdateWatch(c, k, a)
        PROVE  TypeOK'
    <2>1. [NoRequest EXCEPT !.key = k, !.action = a] \in Requests
      BY DEF Requests
    <2> QED BY <1>1, <1>4, <2>1 DEF UpdateWatch, Steps, Reading
  <1>5. ASSUME NEW c \in Clients, GetWatchState(c)
        PROVE  TypeOK'
    BY <1>1, <1>5 DEF GetWatchState, Steps, Reading
  <1>g. ASSUME NEW c \in Clients, NEW s \in Steps, Goto(c, s),
               UNCHANGED <<serviceVars, req, localVars>>,
               watched' \in [Watchers -> BOOLEAN], running' \in [Watchers -> BOOLEAN],
               task' \in [Watchers -> {"none", "spawned", "running", "ended"}],
               UNCHANGED <<made, owner, queued>>
        PROVE  TypeOK'
    BY <1>g, GotoType DEF TypeOK, serviceVars, localVars
  <1>6. ASSUME NEW c \in Clients, CreateExists(c)
        PROVE  TypeOK'
    <2>1. CASE Return(c, "exists")
      BY <1>r, <1>6, <2>1 DEF CreateExists, serviceVars, watcherVars, TypeOK, Replies
    <2>2. CASE Goto(c, "register") /\ UNCHANGED <<req, localVars>>
      BY <1>g, <1>6, <2>2 DEF CreateExists, watcherVars, TypeOK, Steps, Creating
    <2> QED BY <1>6, <2>1, <2>2 DEF CreateExists
  <1>7. ASSUME NEW c \in Clients, CreateRegister(c)
        PROVE  TypeOK'
    <2>1. pc' \in [Clients -> Steps] /\ answer' = NoAnswer
      BY <1>7, GotoType DEF CreateRegister, Steps, Creating
    <2>2. collectors' \in [Keys -> Nat]
      <3>1. collectors \in [Keys -> Nat] /\ req[c].key \in Keys
        BY DEF TypeOK, Requests
      <3>2. collectors' = [collectors EXCEPT ![req[c].key] = collectors[req[c].key] + 1]
        BY <1>7 DEF CreateRegister
      <3> QED BY <3>1, <3>2
    <2> QED BY <1>7, <2>1, <2>2 DEF CreateRegister, TypeOK, watcherVars, localVars
  <1>8. ASSUME NEW c \in Clients, CreateInsert(c)
        PROVE  TypeOK'
    <2>1. CASE Return(c, "exhausted") /\ UNCHANGED <<serviceVars, watcherVars>>
      BY <1>r, <2>1 DEF serviceVars, watcherVars, TypeOK, Replies
    <2>2. CASE InsertSession(c)
      <3>1. pc' \in [Clients -> Steps] /\ answer' = NoAnswer
        BY <2>2, GotoType DEF InsertSession, Steps, Created
      <3>2. req[c] \in Requests
        BY DEF TypeOK
      <3>3. [key |-> req[c].key, paused |-> req[c].paused, ready |-> FALSE, watcher |-> 0] \in Session
        BY <3>2 DEF Requests, Session
      <3>4. heap' \in [Incarnations -> Session]
        BY <2>2, <3>3 DEF InsertSession, TypeOK
      <3>5. sessions' \in [Keys -> Nat] /\ created' \in Nat /\ inc' \in [Clients -> Nat]
        <4>1. sessions \in [Keys -> Nat] /\ created \in Nat /\ inc \in [Clients -> Nat]
          BY DEF TypeOK
        <4>2. /\ created' = created + 1
              /\ sessions' = [sessions EXCEPT ![req[c].key] = created']
              /\ inc' = [inc EXCEPT ![c] = created']
          BY <2>2 DEF InsertSession
        <4>3. created' \in Nat
          BY <4>1, <4>2
        <4>4. sessions' \in [Keys -> Nat]
          BY <4>1, <4>2, <4>3
        <4>5. inc' \in [Clients -> Nat]
          BY <4>1, <4>2, <4>3
        <4> QED BY <4>3, <4>4, <4>5
      <3>6. todo' \in [Clients -> 0..MaxContainers]
        BY <2>2, <3>2 DEF InsertSession, TypeOK, Requests
      <3> QED BY <2>2, <3>1, <3>4, <3>5, <3>6 DEF InsertSession, TypeOK, watcherVars
    <2> QED BY <1>8, <2>1, <2>2 DEF CreateInsert
  <1>9. ASSUME NEW c \in Clients, CreateSkip(c)
        PROVE  TypeOK'
    <2>1. todo' \in [Clients -> 0..MaxContainers]
      BY <1>9 DEF CreateSkip, TypeOK
    <2> QED BY <1>9, <2>1 DEF CreateSkip, TypeOK, serviceVars, watcherVars
  <1>10. ASSUME NEW c \in Clients, CreateOpen(c)
         PROVE  TypeOK'
    <2>1. PICK ok \in BOOLEAN, some \in BOOLEAN :
                /\ watched' = [watched EXCEPT ![made'] = ok \/ some]
                /\ Goto(c, IF ok THEN "ready" ELSE "store")
      BY <1>10 DEF CreateOpen
    <2>2. pc' \in [Clients -> Steps] /\ answer' = NoAnswer
      <3>1. (IF ok THEN "ready" ELSE "store") \in Steps
        BY DEF Steps, Created
      <3> QED BY <2>1, <3>1, GotoType
    <2>3. watched' \in [Watchers -> BOOLEAN]
      BY <2>1 DEF TypeOK
    <2>4. todo' \in [Clients -> 0..MaxContainers]
      BY <1>10 DEF CreateOpen, TypeOK
    <2>5. made' \in Nat /\ owner' \in [Watchers -> Nat] /\ cur' \in [Clients -> Nat]
      <3>1. made \in Nat /\ owner \in [Watchers -> Nat] /\ cur \in [Clients -> Nat] /\ inc[c] \in Nat
        BY DEF TypeOK
      <3>2. /\ made' = made + 1
            /\ owner' = [owner EXCEPT ![made'] = inc[c]]
            /\ cur' = [cur EXCEPT ![c] = made']
        BY <1>10 DEF CreateOpen
      <3>3. made' \in Nat
        BY <3>1, <3>2
      <3>4. owner' \in [Watchers -> Nat]
        BY <3>1, <3>2
      <3>5. cur' \in [Clients -> Nat]
        BY <3>1, <3>2, <3>3
      <3> QED BY <3>3, <3>4, <3>5
    <2> QED BY <1>10, <2>2, <2>3, <2>4, <2>5 DEF CreateOpen, TypeOK, serviceVars
  <1>11. ASSUME NEW c \in Clients, CreateReady(c)
         PROVE  TypeOK'
    <2>1. pc' \in [Clients -> Steps] /\ answer' = NoAnswer
      BY <1>11, GotoType DEF CreateReady, Steps, Created
    <2>2. heap' \in [Incarnations -> Session]
      BY <1>11, HeapType DEF CreateReady
    <2> QED BY <1>11, <2>1, <2>2 DEF CreateReady, TypeOK, watcherVars, localVars
  <1>12. ASSUME NEW c \in Clients, CreateStore(c)
         PROVE  TypeOK'
    <2>1. pc' \in [Clients -> Steps] /\ answer' = NoAnswer
      BY <1>12, GotoType DEF CreateStore, Steps, Created
    <2>2. heap' \in [Incarnations -> Session]
      BY <1>12, HeapType DEF CreateStore, TypeOK
    <2>3. task' \in [Watchers -> {"none", "spawned", "running", "ended"}]
      BY <1>12 DEF CreateStore, TypeOK
    <2> QED BY <1>12, <2>1, <2>2, <2>3 DEF CreateStore, TypeOK, localVars
  <1>13. ASSUME NEW c \in Clients, CreateReply(c) \/ StatesReply(c)
         PROVE  TypeOK'
    BY <1>r, <1>13 DEF CreateReply, StatesReply, serviceVars, watcherVars, TypeOK, Replies
  <1>14. ASSUME NEW c \in Clients, DestroyRemove(c)
         PROVE  TypeOK'
    <2>1. CASE Return(c, "ok") /\ UNCHANGED sessions
      BY <1>r, <1>14, <2>1 DEF DestroyRemove, watcherVars, TypeOK, Replies
    <2>2. CASE ~(Return(c, "ok") /\ UNCHANGED sessions)
      <3>1. /\ inc' = [inc EXCEPT ![c] = sessions[req[c].key]]
            /\ sessions' = [sessions EXCEPT ![req[c].key] = 0]
            /\ Goto(c, "stop") /\ UNCHANGED <<req, cur, todo, scan>>
        BY <1>14, <2>2 DEF DestroyRemove
      <3>2. pc' \in [Clients -> Steps] /\ answer' = NoAnswer
        BY <3>1, GotoType DEF Steps, Removed
      <3>3. sessions[req[c].key] \in Nat
        BY DEF TypeOK, Requests
      <3>4. inc' \in [Clients -> Nat] /\ sessions' \in [Keys -> Nat]
        BY <3>1, <3>3 DEF TypeOK
      <3> QED BY <1>14, <3>1, <3>2, <3>4 DEF DestroyRemove, TypeOK, watcherVars
    <2> QED BY <2>1, <2>2
  <1>15. ASSUME NEW c \in Clients, DestroyStop(c)
         PROVE  TypeOK'
    BY <1>g, <1>15 DEF DestroyStop, TypeOK, watcherVars, Steps, Removed
  <1>16. ASSUME NEW c \in Clients, DestroyClaim(c)
         PROVE  TypeOK'
    <2>1. (IF heap[inc[c]].watcher # 0 THEN "stopWatcher" ELSE "unregister") \in Steps
      BY DEF Steps, Removed
    <2> QED BY <1>g, <1>16, <2>1 DEF DestroyClaim, TypeOK, watcherVars
  <1>17. ASSUME NEW c \in Clients, DestroyStopWatcher(c)
         PROVE  TypeOK'
    <2>1. running' \in [Watchers -> BOOLEAN]
      BY <1>17 DEF DestroyStopWatcher, TypeOK
    <2> QED BY <1>g, <1>17, <2>1 DEF DestroyStopWatcher, TypeOK, Steps, Removed
  <1>18. ASSUME NEW c \in Clients, DestroyUnregister(c)
         PROVE  TypeOK'
    <2>1. collectors' \in [Keys -> Nat]
      <3>1. collectors \in [Keys -> Nat] /\ req[c].key \in Keys
        BY DEF TypeOK, Requests
      <3>2. collectors' = [collectors EXCEPT ![req[c].key] =
              IF collectors[req[c].key] > 0 THEN collectors[req[c].key] - 1 ELSE 0]
        BY <1>18 DEF DestroyUnregister
      <3> QED BY <3>1, <3>2
    <2> QED BY <1>r, <1>18, <2>1 DEF DestroyUnregister, watcherVars, TypeOK, Replies
  <1>19. ASSUME NEW c \in Clients, UpdateGet(c)
         PROVE  TypeOK'
    <2>1. CASE Return(c, "notfound")
      BY <1>r, <1>19, <2>1 DEF UpdateGet, serviceVars, watcherVars, TypeOK, Replies
    <2>2. CASE ~Return(c, "notfound")
      <3>1. /\ inc' = [inc EXCEPT ![c] = sessions[req[c].key]]
            /\ Goto(c, "lock") /\ UNCHANGED <<req, cur, todo, scan>>
        BY <1>19, <2>2 DEF UpdateGet
      <3>2. pc' \in [Clients -> Steps] /\ answer' = NoAnswer
        BY <3>1, GotoType DEF Steps, Reading
      <3>3. sessions[req[c].key] \in Nat
        BY DEF TypeOK, Requests
      <3>4. inc' \in [Clients -> Nat]
        BY <3>1, <3>3 DEF TypeOK
      <3> QED BY <1>19, <3>1, <3>2, <3>4 DEF UpdateGet, TypeOK, serviceVars, watcherVars
    <2> QED BY <2>1, <2>2
  <1>20. ASSUME NEW c \in Clients, UpdateRefused(c)
         PROVE  TypeOK'
    BY <1>r, <1>20 DEF UpdateRefused, serviceVars, watcherVars, TypeOK, Replies
  <1>21. ASSUME NEW c \in Clients, PauseWithoutWatcher(c)
         PROVE  TypeOK'
    <2>1. heap' \in [Incarnations -> Session]
      BY <1>21, HeapType DEF PauseWithoutWatcher
    <2> QED BY <1>r, <1>21, <2>1 DEF PauseWithoutWatcher, watcherVars, TypeOK, Replies
  <1>22. ASSUME NEW c \in Clients, UpdateLock(c)
         PROVE  TypeOK'
    BY <1>g, <1>22 DEF UpdateLock, watcherVars, TypeOK, Steps, Reading
  <1>23. ASSUME NEW c \in Clients, PauseWatcher(c)
         PROVE  TypeOK'
    <2>1. heap' \in [Incarnations -> Session]
      BY <1>23, HeapType DEF PauseWatcher
    <2>2. watched' \in [Watchers -> BOOLEAN] /\ running' \in [Watchers -> BOOLEAN]
      BY <1>23 DEF PauseWatcher, TypeOK
    <2> QED BY <1>r, <1>23, <2>1, <2>2 DEF PauseWatcher, TypeOK, Replies
  <1>24. ASSUME NEW c \in Clients, ResumeWatcher(c)
         PROVE  TypeOK'
    <2>1. watched' \in [Watchers -> BOOLEAN]
      BY <1>24 DEF ResumeWatcher, TypeOK
    <2>2. running' \in [Watchers -> BOOLEAN]
      BY <1>24 DEF ResumeWatcher, TypeOK
    <2>3. CASE Return(c, "failed")
      BY <1>r, <1>24, <2>1, <2>2, <2>3 DEF ResumeWatcher, serviceVars, TypeOK, Replies
    <2>4. CASE Goto(c, "resuming") /\ UNCHANGED <<req, localVars>>
      BY <1>g, <1>24, <2>1, <2>2, <2>4 DEF ResumeWatcher, TypeOK, Steps, Reading
    <2> QED BY <1>24, <2>3, <2>4 DEF ResumeWatcher
  <1>25. ASSUME NEW c \in Clients, ResumeEnds(c)
         PROVE  TypeOK'
    <2>1. heap' \in [Incarnations -> Session]
      <3>1. CASE UNCHANGED heap
        BY <3>1 DEF TypeOK
      <3>2. CASE heap' = [heap EXCEPT ![inc[c]].paused = FALSE]
        BY <3>2, HeapType
      <3> QED BY <1>25, <3>1, <3>2 DEF ResumeEnds
    <2> QED BY <1>r, <1>25, <2>1 DEF ResumeEnds, watcherVars, TypeOK, Replies
  <1>26. ASSUME NEW c \in Clients, StatesOpen(c)
         PROVE  TypeOK'
    <2>1. pc' \in [Clients -> Steps] /\ answer' = NoAnswer
      BY <1>26, GotoType DEF StatesOpen, Steps, Reading
    <2>2. scan' \in [Clients -> SUBSET Nat]
      BY <1>26 DEF StatesOpen, TypeOK, Present
    <2> QED BY <1>26, <2>1, <2>2 DEF StatesOpen, TypeOK, serviceVars, watcherVars
  <1>27. ASSUME NEW c \in Clients, NEW i \in Incarnations, StatesNext(c, i)
         PROVE  TypeOK'
    <2>1. scan' \in [Clients -> SUBSET Nat]
      BY <1>27 DEF StatesNext, TypeOK
    <2> QED BY <1>27, <2>1 DEF StatesNext, TypeOK, serviceVars, watcherVars
  <1>28. ASSUME NEW c \in Clients, Cancel(c)
         PROVE  TypeOK'
    <2>1. watched' \in [Watchers -> BOOLEAN]
      BY <1>28 DEF Cancel, TypeOK
    <2> QED BY <1>r, <1>28, <2>1 DEF Cancel, serviceVars, TypeOK, Replies
  <1>29. ASSUME NEW w \in Watchers, LoopStart(w) \/ LoopEnds(w) \/ LoopEvent(w) \/ Forward(w)
         PROVE  TypeOK'
    <2>1. /\ running' \in [Watchers -> BOOLEAN]
          /\ task' \in [Watchers -> {"none", "spawned", "running", "ended"}]
      BY <1>29 DEF LoopStart, LoopEnds, LoopEvent, Forward, TypeOK
    <2>2. queued' \in [Watchers -> 0..ChannelSize]
      <3>1. queued \in [Watchers -> 0..ChannelSize]
        BY DEF TypeOK
      <3>2. CASE LoopEvent(w)
        BY <3>1, <3>2 DEF LoopEvent
      <3>3. CASE Forward(w)
        BY <3>1, <3>3 DEF Forward
      <3>4. CASE LoopStart(w) \/ LoopEnds(w)
        BY <3>1, <3>4 DEF LoopStart, LoopEnds
      <3> QED BY <1>29, <3>2, <3>3, <3>4
    <2>3. UNCHANGED <<serviceVars, made, owner, watched, clientVars>> /\ answer' = NoAnswer
      BY <1>29 DEF LoopStart, LoopEnds, LoopEvent, Forward
    <2> QED BY <2>1, <2>2, <2>3 DEF TypeOK, serviceVars, clientVars, localVars
  <1>30. CASE UNCHANGED vars
    BY <1>30 DEF TypeOK, vars, serviceVars, watcherVars, clientVars, localVars
  <1> QED BY <1>2, <1>3, <1>4, <1>5, <1>6, <1>7, <1>8, <1>9, <1>10, <1>11, <1>12, <1>13, <1>14,
             <1>15, <1>16, <1>17, <1>18, <1>19, <1>20, <1>21, <1>22, <1>23, <1>24, <1>25, <1>26,
             <1>27, <1>28, <1>29, <1>30 DEF Next, Handler, Locking

\* The types hold for any numbers of keys, callers, sessions and containers.
THEOREM TypeCorrect == Spec => []TypeOK
  <1>1. Init => TypeOK
    BY Defaults, ConstantsAssumption DEF Init, TypeOK, Steps
  <1> QED BY <1>1, NextType, PTL DEF Spec

-----------------------------------------------------------------------------
(* The collectors *)

\* The callers that will remove a collector of k, or turn it into a session's.
Paying == {"insert"} \cup Removed
Owed(k) == {c \in Clients : req[c].key = k /\ pc[c] \in Paying}

\* Besides the one of its session, a watch id has a collector for every call
\* that has still to account for one.
MInv ==
    \A k \in Keys :
        collectors[k] >= Cardinality(Owed(k)) + (IF sessions[k] # 0 THEN 1 ELSE 0)

\* Sizes of the sets of callers.
LEMMA OwedSize ==
    ASSUME NEW S \in SUBSET Clients, NEW U \in SUBSET Clients, NEW c \in Clients
    PROVE  /\ Cardinality(S) \in Nat
           /\ U \subseteq S => Cardinality(U) <= Cardinality(S)
           /\ U \subseteq S \ {c} /\ c \in S => Cardinality(U) <= Cardinality(S) - 1
           /\ U \subseteq S \cup {c} => Cardinality(U) <= Cardinality(S) + 1
  <1>1. IsFiniteSet(S) /\ IsFiniteSet(U)
    BY ConstantsAssumption, FS_Subset
  <1>2. Cardinality(S) \in Nat /\ Cardinality(U) \in Nat
    BY <1>1, FS_CardinalityType
  <1>3. U \subseteq S => Cardinality(U) <= Cardinality(S)
    BY <1>1, FS_Subset
  <1>4. ASSUME U \subseteq S \ {c}, c \in S
        PROVE  Cardinality(U) <= Cardinality(S) - 1
    <2>1. IsFiniteSet(S \ {c}) /\ Cardinality(S \ {c}) = Cardinality(S) - 1
      BY <1>1, <1>4, FS_RemoveElement
    <2>2. Cardinality(U) <= Cardinality(S \ {c})
      BY <1>4, <2>1, FS_Subset
    <2> QED BY <2>1, <2>2
  <1>5. ASSUME U \subseteq S \cup {c}
        PROVE  Cardinality(U) <= Cardinality(S) + 1
    <2>1. /\ IsFiniteSet(S \cup {c}) /\ Cardinality(S \cup {c}) \in Nat
          /\ \/ Cardinality(S \cup {c}) = Cardinality(S)
             \/ Cardinality(S \cup {c}) = Cardinality(S) + 1
      BY <1>1, FS_AddElement, FS_CardinalityType
    <2>2. Cardinality(U) <= Cardinality(S \cup {c})
      BY <1>5, <2>1, FS_Subset
    <2> QED BY <1>2, <2>1, <2>2
  <1> QED BY <1>2, <1>3, <1>4, <1>5

\* A call that moves on, or ends, owes nothing it did not owe before.
LEMMA MoveOwed ==
    ASSUME TypeOK, NEW c \in Clients, NEW s, pc' = [pc EXCEPT ![c] = s],
           \A d \in Clients : d # c => req'[d] = req[d],
           s \notin Paying \/ (pc[c] \in Paying /\ req'[c] = req[c])
    PROVE  \A k \in Keys : Owed(k)' \subseteq Owed(k)
  BY DEF TypeOK, Owed

\* The collectors suffice as long as neither they nor the map change and
\* nobody owes more.
LEMMA FrameMetrics ==
    ASSUME TypeOK, MInv, UNCHANGED <<sessions, collectors>>,
           \A k \in Keys : Owed(k)' \subseteq Owed(k)
    PROVE  MInv'
  <1> SUFFICES ASSUME NEW k \in Keys
               PROVE  collectors[k] >= Cardinality(Owed(k)') + (IF sessions[k] # 0 THEN 1 ELSE 0)
    BY DEF MInv
  <1>1. Owed(k) \in SUBSET Clients /\ Owed(k)' \in SUBSET Clients
    BY DEF Owed
  <1>2. Cardinality(Owed(k)) \in Nat /\ Cardinality(Owed(k)') \in Nat
    BY <1>1, FS_Subset, FS_CardinalityType, ConstantsAssumption
  <1>3. Cardinality(Owed(k)') <= Cardinality(Owed(k))
    BY <1>1, FS_Subset, ConstantsAssumption
  <1>4. collectors[k] \in Nat /\ collectors[k] >= Cardinality(Owed(k)) + (IF sessions[k] # 0 THEN 1 ELSE 0)
    BY DEF MInv, TypeOK
  <1> QED BY <1>2, <1>3, <1>4

\* Every step keeps MInv: the four that change the map or the collectors, then
\* the others.
LEMMA NextMetrics == TypeOK /\ TypeOK' /\ MInv /\ [Next]_vars => MInv'
  <1> SUFFICES ASSUME TypeOK, TypeOK', MInv, [Next]_vars PROVE MInv'
    OBVIOUS
  <1>t. \A k \in Keys :
          /\ Owed(k) \in SUBSET Clients /\ Owed(k)' \in SUBSET Clients
          /\ Cardinality(Owed(k)) \in Nat /\ Cardinality(Owed(k)') \in Nat
          /\ collectors[k] \in Nat /\ collectors'[k] \in Nat
    <2>1. \A k \in Keys : Owed(k) \in SUBSET Clients /\ Owed(k)' \in SUBSET Clients
      BY DEF Owed
    <2>2. \A k \in Keys : collectors[k] \in Nat /\ collectors'[k] \in Nat
      BY DEF TypeOK
    <2>3. \A k \in Keys : IsFiniteSet(Owed(k)) /\ IsFiniteSet(Owed(k)')
      BY <2>1, FS_Subset, ConstantsAssumption
    <2> QED BY <2>1, <2>2, <2>3, FS_CardinalityType
  <1>m. \A k \in Keys : collectors[k] >= Cardinality(Owed(k)) + (IF sessions[k] # 0 THEN 1 ELSE 0)
    BY DEF MInv
  <1>1. ASSUME NEW c \in Clients, CreateRegister(c)
        PROVE  MInv'
    <2> SUFFICES ASSUME NEW k \in Keys
                 PROVE  collectors'[k] >= Cardinality(Owed(k)') + (IF sessions'[k] # 0 THEN 1 ELSE 0)
      BY DEF MInv
    <2>k. /\ Cardinality(Owed(k)) \in Nat /\ Cardinality(Owed(k)') \in Nat
          /\ collectors[k] \in Nat /\ collectors'[k] \in Nat
          /\ collectors[k] >= Cardinality(Owed(k)) + (IF sessions[k] # 0 THEN 1 ELSE 0)
      BY <1>t, <1>m
    <2>1. sessions' = sessions /\ req' = req /\ pc' = [pc EXCEPT ![c] = "insert"]
      BY <1>1 DEF CreateRegister, Goto
    <2>u. sessions'[k] = sessions[k]
      BY <2>1
    <2>2. CASE k = req[c].key
      <3>1. collectors'[k] = collectors[k] + 1
        BY <1>1, <2>2 DEF CreateRegister, TypeOK
      <3>2. Owed(k)' \subseteq Owed(k) \cup {c}
        BY <2>1 DEF Owed, TypeOK
      <3>3. Cardinality(Owed(k)') <= Cardinality(Owed(k)) + 1
        BY <3>2, <1>t, OwedSize
      <3> QED BY <2>k, <2>u, <3>1, <3>3
    <2>3. CASE k # req[c].key
      <3>1. collectors'[k] = collectors[k]
        BY <1>1, <2>3 DEF CreateRegister, TypeOK
      <3>2. Owed(k)' \subseteq Owed(k)
        BY <2>1, <2>3 DEF Owed, TypeOK
      <3>3. Cardinality(Owed(k)') <= Cardinality(Owed(k))
        BY <1>1, <3>2, <1>t, OwedSize
      <3> QED BY <2>k, <2>u, <3>1, <3>3
    <2> QED BY <2>2, <2>3
  <1>2. ASSUME NEW c \in Clients, pc[c] = "insert", InsertSession(c)
        PROVE  MInv'
    <2> SUFFICES ASSUME NEW k \in Keys
                 PROVE  collectors'[k] >= Cardinality(Owed(k)') + (IF sessions'[k] # 0 THEN 1 ELSE 0)
      BY DEF MInv
    <2>k. /\ Cardinality(Owed(k)) \in Nat /\ Cardinality(Owed(k)') \in Nat
          /\ collectors[k] \in Nat /\ collectors'[k] \in Nat
          /\ collectors[k] >= Cardinality(Owed(k)) + (IF sessions[k] # 0 THEN 1 ELSE 0)
      BY <1>t, <1>m
    <2>1. collectors' = collectors /\ req' = req /\ pc' = [pc EXCEPT ![c] = "open"]
      BY <1>2 DEF InsertSession, Goto
    <2>u. collectors'[k] = collectors[k]
      BY <2>1
    <2>2. CASE k = req[c].key
      <3>1. c \in Owed(k) /\ Owed(k)' \subseteq Owed(k) \ {c}
        BY <1>2, <2>1, <2>2 DEF Owed, TypeOK, Paying, Removed
      <3>2. Cardinality(Owed(k)') <= Cardinality(Owed(k)) - 1
        BY <3>1, <1>t, OwedSize
      <3> QED BY <2>k, <2>u, <3>2
    <2>3. CASE k # req[c].key
      <3>1. sessions'[k] = sessions[k]
        BY <1>2, <2>3 DEF InsertSession, TypeOK
      <3>2. Owed(k)' \subseteq Owed(k)
        BY <2>1, <2>3 DEF Owed, TypeOK
      <3>3. Cardinality(Owed(k)') <= Cardinality(Owed(k))
        BY <1>2, <3>2, <1>t, OwedSize
      <3> QED BY <2>k, <2>u, <3>1, <3>3
    <2> QED BY <2>2, <2>3
  <1>3. ASSUME NEW c \in Clients, DestroyRemove(c), req[c].key \in Present
        PROVE  MInv'
    <2> SUFFICES ASSUME NEW k \in Keys
                 PROVE  collectors'[k] >= Cardinality(Owed(k)') + (IF sessions'[k] # 0 THEN 1 ELSE 0)
      BY DEF MInv
    <2>k. /\ Cardinality(Owed(k)) \in Nat /\ Cardinality(Owed(k)') \in Nat
          /\ collectors[k] \in Nat /\ collectors'[k] \in Nat
          /\ collectors[k] >= Cardinality(Owed(k)) + (IF sessions[k] # 0 THEN 1 ELSE 0)
      BY <1>t, <1>m
    <2>1. /\ collectors' = collectors /\ req' = req /\ pc' = [pc EXCEPT ![c] = "stop"]
          /\ sessions' = [sessions EXCEPT ![req[c].key] = 0]
      BY <1>3 DEF DestroyRemove, Goto
    <2>u. collectors'[k] = collectors[k]
      BY <2>1
    <2>2. CASE k = req[c].key
      <3>1. sessions[k] # 0 /\ sessions'[k] = 0
        BY <1>3, <2>1, <2>2 DEF Present, TypeOK
      <3>2. Owed(k)' \subseteq Owed(k) \cup {c}
        BY <2>1 DEF Owed, TypeOK
      <3>3. Cardinality(Owed(k)') <= Cardinality(Owed(k)) + 1
        BY <3>2, <1>t, OwedSize
      <3> QED BY <2>k, <2>u, <3>1, <3>3
    <2>3. CASE k # req[c].key
      <3>1. sessions'[k] = sessions[k]
        BY <2>1, <2>3 DEF TypeOK
      <3>2. Owed(k)' \subseteq Owed(k)
        BY <2>1, <2>3 DEF Owed, TypeOK
      <3>3. Cardinality(Owed(k)') <= Cardinality(Owed(k))
        BY <1>3, <3>2, <1>t, OwedSize
      <3> QED BY <2>k, <2>u, <3>1, <3>3
    <2> QED BY <2>2, <2>3
  <1>4. ASSUME NEW c \in Clients, DestroyUnregister(c)
        PROVE  MInv'
    <2> SUFFICES ASSUME NEW k \in Keys
                 PROVE  collectors'[k] >= Cardinality(Owed(k)') + (IF sessions'[k] # 0 THEN 1 ELSE 0)
      BY DEF MInv
    <2>k. /\ Cardinality(Owed(k)) \in Nat /\ Cardinality(Owed(k)') \in Nat
          /\ collectors[k] \in Nat /\ collectors'[k] \in Nat
          /\ collectors[k] >= Cardinality(Owed(k)) + (IF sessions[k] # 0 THEN 1 ELSE 0)
      BY <1>t, <1>m
    <2>1. /\ sessions' = sessions /\ pc' = [pc EXCEPT ![c] = "idle"]
          /\ req' = [req EXCEPT ![c] = NoRequest]
      BY <1>4 DEF DestroyUnregister, Return
    <2>u. sessions'[k] = sessions[k]
      BY <2>1
    <2>2. CASE k = req[c].key
      <3>1. c \in Owed(k) /\ Owed(k)' \subseteq Owed(k) \ {c}
        BY <1>4, <2>1, <2>2 DEF DestroyUnregister, Owed, TypeOK, Paying, Removed
      <3>2. Cardinality(Owed(k)') <= Cardinality(Owed(k)) - 1
        BY <3>1, <1>t, OwedSize
      <3>3. collectors'[k] = IF collectors[k] > 0 THEN collectors[k] - 1 ELSE 0
        BY <1>4, <2>2 DEF DestroyUnregister, TypeOK
      <3>4. PICK n, o, p \in Nat, b \in {0, 1} :
              /\ n = collectors[k] /\ o = Cardinality(Owed(k)) /\ p = Cardinality(Owed(k)')
              /\ b = (IF sessions[k] # 0 THEN 1 ELSE 0) /\ n >= o + b /\ p <= o - 1
        BY <2>k, <3>2
      <3>5. n > 0 /\ n - 1 >= p + b
        BY <3>4
      <3>6. collectors'[k] = n - 1
        BY <3>3, <3>4, <3>5
      <3> QED BY <2>u, <3>4, <3>5, <3>6
    <2>3. CASE k # req[c].key
      <3>1. collectors'[k] = collectors[k]
        BY <1>4, <2>3 DEF DestroyUnregister, TypeOK
      <3>2. Owed(k)' \subseteq Owed(k)
        BY <2>1 DEF Owed, TypeOK, Paying, Removed
      <3>3. Cardinality(Owed(k)') <= Cardinality(Owed(k))
        BY <1>4, <3>2, <1>t, OwedSize
      <3>4. PICK n, o, p \in Nat, b \in {0, 1} :
              /\ n = collectors[k] /\ o = Cardinality(Owed(k)) /\ p = Cardinality(Owed(k)')
              /\ b = (IF sessions[k] # 0 THEN 1 ELSE 0) /\ n >= o + b /\ p <= o
        BY <2>k, <3>3
      <3>5. n >= p + b
        BY <3>4
      <3> QED BY <2>u, <3>1, <3>4, <3>5
    <2> QED BY <2>2, <2>3
  <1>r. ASSUME NEW c \in Clients, NEW r, Return(c, r), UNCHANGED <<sessions, collectors>>
        PROVE  MInv'
    <2>1. "idle" \notin Paying
      BY DEF Paying, Removed
    <2>2. pc' = [pc EXCEPT ![c] = "idle"] /\ \A d \in Clients : d # c => req'[d] = req[d]
      BY <1>r DEF Return, TypeOK
    <2>3. \A k \in Keys : Owed(k)' \subseteq Owed(k)
      BY <2>1, <2>2, MoveOwed
    <2> QED BY <1>r, <2>3, FrameMetrics
  <1>g. ASSUME NEW c \in Clients, NEW s, Goto(c, s), req' = req,
               s \notin Paying \/ pc[c] \in Paying, UNCHANGED <<sessions, collectors>>
        PROVE  MInv'
    <2>1. pc' = [pc EXCEPT ![c] = s]
      BY <1>g DEF Goto
    <2>2. \A k \in Keys : Owed(k)' \subseteq Owed(k)
      BY <1>g, <2>1, MoveOwed
    <2> QED BY <1>g, <2>2, FrameMetrics
  <1>c. ASSUME NEW c \in Clients, NEW s, NEW q, Call(c, s, q), s \notin Paying,
               UNCHANGED <<sessions, collectors>>
        PROVE  MInv'
    <2>1. pc' = [pc EXCEPT ![c] = s] /\ \A d \in Clients : d # c => req'[d] = req[d]
      BY <1>c DEF Call, Goto, TypeOK
    <2>2. \A k \in Keys : Owed(k)' \subseteq Owed(k)
      BY <1>c, <2>1, MoveOwed
    <2> QED BY <1>c, <2>2, FrameMetrics
  <1>u. ASSUME UNCHANGED <<sessions, collectors, pc, req>>
        PROVE  MInv'
    BY <1>u DEF MInv, Owed
  <1>5. ASSUME NEW c \in Clients, NEW k \in Keys,
               \/ \E p \in BOOLEAN, n \in 0..MaxContainers : CreateWatch(c, k, p, n)
               \/ \E a \in Actions : UpdateWatch(c, k, a)
               \/ DestroyWatch(c, k) \/ GetWatchState(c)
        PROVE  MInv'
    <2>1. {"exists", "get", "remove", "scan"} \cap Paying = {}
      BY DEF Paying, Removed
    <2>2. \E q : \/ Call(c, "exists", q) \/ Call(c, "get", q)
                \/ Call(c, "remove", q) \/ Call(c, "scan", q)
      BY <1>5 DEF CreateWatch, UpdateWatch, DestroyWatch, GetWatchState
    <2>3. UNCHANGED <<sessions, collectors>>
      BY <1>5 DEF CreateWatch, UpdateWatch, DestroyWatch, GetWatchState, serviceVars
    <2> QED BY <1>c, <2>1, <2>2, <2>3
  <1>6. ASSUME NEW c \in Clients, CreateExists(c) \/ CreateReply(c) \/ CreateReady(c) \/ CreateStore(c)
        PROVE  MInv'
    BY <1>r, <1>g, <1>6 DEF CreateExists, CreateReply, CreateReady, CreateStore, serviceVars, Paying, Removed
  <1>7. ASSUME NEW c \in Clients, CreateInsert(c)
        PROVE  MInv'
    BY <1>2, <1>r, <1>7 DEF CreateInsert, serviceVars
  <1>8. ASSUME NEW c \in Clients, CreateOpen(c)
        PROVE  MInv'
    <2>1. PICK ok \in BOOLEAN : Goto(c, IF ok THEN "ready" ELSE "store")
      BY <1>8 DEF CreateOpen
    <2>2. (IF ok THEN "ready" ELSE "store") \notin Paying
      BY DEF Paying, Removed
    <2> QED BY <1>g, <1>8, <2>1, <2>2 DEF CreateOpen, serviceVars
  <1>9. ASSUME NEW c \in Clients, DestroyRemove(c), req[c].key \notin Present
        PROVE  MInv'
    BY <1>r, <1>9 DEF DestroyRemove
  <1>10. ASSUME NEW c \in Clients, DestroyStop(c) \/ DestroyClaim(c) \/ DestroyStopWatcher(c)
         PROVE  MInv'
    <2>1. pc[c] \in Paying
      BY <1>10 DEF DestroyStop, DestroyClaim, DestroyStopWatcher, Paying, Removed
    <2> QED BY <1>g, <1>10, <2>1 DEF DestroyStop, DestroyClaim, DestroyStopWatcher, serviceVars
  <1>11. ASSUME NEW c \in Clients, UpdateGet(c) \/ UpdateRefused(c) \/ PauseWithoutWatcher(c) \/ UpdateLock(c)
         PROVE  MInv'
    BY <1>r, <1>g, <1>11 DEF UpdateGet, UpdateRefused, PauseWithoutWatcher, UpdateLock, serviceVars,
                             Paying, Removed
  <1>12. ASSUME NEW c \in Clients, PauseWatcher(c) \/ ResumeWatcher(c) \/ ResumeEnds(c) \/ Cancel(c)
         PROVE  MInv'
    BY <1>r, <1>g, <1>12 DEF PauseWatcher, ResumeWatcher, ResumeEnds, Cancel, serviceVars, Paying, Removed
  <1>13. ASSUME NEW c \in Clients, StatesOpen(c) \/ StatesReply(c)
         PROVE  MInv'
    BY <1>r, <1>g, <1>13 DEF StatesOpen, StatesReply, serviceVars, Paying, Removed
  <1>14. ASSUME NEW c \in Clients, CreateSkip(c) \/ \E i \in Incarnations : StatesNext(c, i)
         PROVE  MInv'
    BY <1>u, <1>14 DEF CreateSkip, StatesNext, serviceVars
  <1>15. ASSUME NEW w \in Watchers, LoopStart(w) \/ LoopEnds(w) \/ LoopEvent(w) \/ Forward(w)
         PROVE  MInv'
    BY <1>u, <1>15 DEF LoopStart, LoopEnds, LoopEvent, Forward, serviceVars, clientVars
  <1>16. CASE UNCHANGED vars
    BY <1>u, <1>16 DEF vars, serviceVars, clientVars
  <1>17. PICK k \in Keys : TRUE
    BY ConstantsAssumption
  <1> QED BY <1>1, <1>3, <1>4, <1>5, <1>6, <1>7, <1>8, <1>9, <1>10, <1>11, <1>12, <1>13, <1>14, <1>15,
             <1>16, <1>17 DEF Next, Handler, Locking

\* However creates and destroys of the same watch overlap, and wherever they
\* are cancelled, the watches get_watch_state lists and the metrics endpoint
\* agree in one direction: every session has a collector.
THEOREM MetricsCoverWatchesHolds == Spec => []MetricsCoverWatches
  <1>1. Init => MInv
    <2> SUFFICES ASSUME Init PROVE MInv
      OBVIOUS
    <2>1. \A k \in Keys : Owed(k) = {} /\ collectors[k] = 0 /\ sessions[k] = 0
      BY DEF Init, Owed, Paying, Removed
    <2>2. Cardinality({}) = 0
      BY FS_EmptySet
    <2> QED BY <2>1, <2>2 DEF MInv
  <1>2. TypeOK /\ MInv => MetricsCoverWatches
    <2> SUFFICES ASSUME TypeOK, MInv, NEW k \in Present PROVE collectors[k] > 0
      BY DEF MetricsCoverWatches
    <2>1. k \in Keys /\ sessions[k] # 0 /\ collectors[k] \in Nat
      BY DEF Present, TypeOK
    <2>2. Cardinality(Owed(k)) \in Nat
      BY FS_Subset, FS_CardinalityType, ConstantsAssumption DEF Owed
    <2> QED BY <2>1, <2>2 DEF MInv
  <1> QED BY <1>1, <1>2, TypeCorrect, NextMetrics, PTL DEF Spec

-----------------------------------------------------------------------------
(* The service implements SessionRegistry *)

\* What the registry sees of a caller, ...
LEMMA CallOf ==
    ASSUME TypeOK, NEW c \in Clients
    PROVE  /\ pc[c] = "idle" => Calls[c].phase = "idle"
           /\ pc[c] # "idle" => Calls[c].phase = PhaseOf(pc[c]) /\ Calls[c].key = req[c].key
  BY DEF Calls

\* ... the phases, ...
LEMMA Phases ==
    ASSUME NEW s \in Steps, s # "idle"
    PROVE  /\ s \in Creating => PhaseOf(s) = "creating"
           /\ s \in Created => PhaseOf(s) = "created"
           /\ s = "remove" => PhaseOf(s) = "removing"
           /\ s \in Removed => PhaseOf(s) = "removed"
           /\ s \in Reading => PhaseOf(s) = "reading"
           /\ PhaseOf(s) # "idle"
  BY DEF Steps, PhaseOf, Creating, Created, Removed, Reading

\* ... and how it sees a call go on, begin and end.
LEMMA GotoCalls ==
    ASSUME TypeOK, NEW c \in Clients, NEW s \in Steps, s # "idle", Goto(c, s), req' = req
    PROVE  Calls' = [Calls EXCEPT ![c] = [phase |-> PhaseOf(s), key |-> req[c].key]]
  BY DEF TypeOK, Goto, Calls

LEMMA StayCalls ==
    ASSUME TypeOK, NEW c \in Clients, NEW s \in Steps, s # "idle", Goto(c, s), req' = req,
           pc[c] # "idle", PhaseOf(s) = PhaseOf(pc[c])
    PROVE  Calls' = Calls
  BY DEF TypeOK, Goto, Calls

LEMMA BeginCalls ==
    ASSUME TypeOK, NEW c \in Clients, NEW s \in Steps, s # "idle", NEW q \in Requests, Call(c, s, q)
    PROVE  Calls' = [Calls EXCEPT ![c] = [phase |-> PhaseOf(s), key |-> q.key]]
  BY DEF TypeOK, Call, Goto, Calls

LEMMA ReturnCalls ==
    ASSUME TypeOK, NEW c \in Clients, NEW r, Return(c, r)
    PROVE  Calls' = [Calls EXCEPT ![c] = [phase |-> "idle"]]
  BY DEF TypeOK, Return, Calls

\* The registry counts as the service does.
LEMMA SameCardinality == \A S : Registry!Cardinality(S) = Cardinality(S)
  BY DEF Registry!Cardinality, Cardinality, Registry!IsFiniteSet, IsFiniteSet

\* Every step of the service is a step of the registry, or leaves it alone.
LEMMA NextRegistry == TypeOK /\ [Next]_vars => [Registry!Next]_(Registry!vars)
  <1> SUFFICES ASSUME TypeOK, [Next]_vars PROVE [Registry!Next]_(Registry!vars)
    OBVIOUS
  <1>p. ASSUME Calls' = Calls, sessions' = sessions, answer' = NoAnswer
        PROVE  Registry!Next
    <2>1. Present' = Present
      BY <1>p DEF Present
    <2> QED BY <1>p, <2>1 DEF Registry!Next, Registry!Proceed, Registry!NoAnswer, NoAnswer
  <1>s. ASSUME NEW c \in Clients, NEW s \in Steps, s # "idle", Goto(c, s), req' = req,
               sessions' = sessions, pc[c] # "idle", PhaseOf(s) = PhaseOf(pc[c])
        PROVE  Registry!Next
    BY <1>p, <1>s, StayCalls DEF Goto
  <1>i. ASSUME NEW c \in Clients, NEW s \in {"exists", "remove", "get", "scan"},
               NEW q \in Requests, Call(c, s, q), sessions' = sessions
        PROVE  Registry!Next
    <2>1. s \in Steps /\ s # "idle"
      BY DEF Steps, Creating, Reading
    <2>2. PhaseOf(s) \in {"creating", "removing", "reading"}
      BY <2>1, Phases DEF Creating, Reading
    <2>3. Calls' = [Calls EXCEPT ![c] = [phase |-> PhaseOf(s), key |-> q.key]]
      BY <1>i, <2>1, BeginCalls
    <2>4. Calls[c].phase = "idle" /\ answer' = NoAnswer /\ q.key \in Keys
      BY <1>i, CallOf DEF Call, Goto, Requests
    <2>5. Present' = Present
      BY <1>i DEF Present
    <2>6. Registry!Goto(c, PhaseOf(s), q.key)
      BY <2>3, <2>4 DEF Registry!Goto, Registry!NoAnswer, NoAnswer
    <2>7. Registry!Invoke(c, q.key)
      BY <2>2, <2>4, <2>5, <2>6 DEF Registry!Invoke, Registry!Phase
    <2> QED BY <2>4, <2>7 DEF Registry!Next
  <1>a. ASSUME NEW c \in Clients, NEW r, Return(c, r)
        PROVE  Registry!Answer(c, r)
    BY <1>a, ReturnCalls DEF Registry!Answer, Registry!Idle, Return
  <1>f. ASSUME NEW c \in Clients, pc[c] \in Created \cup Removed \cup Reading,
               NEW r \in {"ok", "failed"}, Return(c, r), sessions' = sessions
        PROVE  Registry!Next
    <2>1. pc[c] \in Steps /\ pc[c] # "idle"
      BY <1>f DEF Steps, Created, Removed, Reading
    <2>2. PhaseOf(pc[c]) \in {"created", "removed", "reading"}
      BY <1>f, <2>1, Phases
    <2>3. Calls[c].phase \in {"created", "removed", "reading"}
      BY <2>1, <2>2, CallOf
    <2>4. Present' = Present
      BY <1>f DEF Present
    <2>5. Registry!Answer(c, r)
      BY <1>a, <1>f
    <2> QED BY <2>3, <2>4, <2>5 DEF Registry!Next, Registry!Finish, Registry!Phase
  <1>1. ASSUME NEW c \in Clients, NEW k \in Keys, NEW p \in BOOLEAN, NEW n \in 0..MaxContainers,
               CreateWatch(c, k, p, n)
        PROVE  Registry!Next
    <2>1. [NoRequest EXCEPT !.key = k, !.paused = p, !.containers = n] \in Requests
      BY Defaults DEF Requests
    <2> QED BY <1>i, <1>1, <2>1 DEF CreateWatch, serviceVars
  <1>2. ASSUME NEW c \in Clients, NEW k \in Keys, NEW a \in Actions, UpdateWatch(c, k, a)
        PROVE  Registry!Next
    <2>1. [NoRequest EXCEPT !.key = k, !.action = a] \in Requests
      BY Defaults DEF Requests
    <2> QED BY <1>i, <1>2, <2>1 DEF UpdateWatch, serviceVars
  <1>3. ASSUME NEW c \in Clients, NEW k \in Keys, DestroyWatch(c, k)
        PROVE  Registry!Next
    <2>1. [NoRequest EXCEPT !.key = k] \in Requests
      BY Defaults DEF Requests
    <2> QED BY <1>i, <1>3, <2>1 DEF DestroyWatch, serviceVars
  <1>4. ASSUME NEW c \in Clients, GetWatchState(c)
        PROVE  Registry!Next
    BY <1>i, <1>4, Defaults DEF GetWatchState, serviceVars
  <1>5. ASSUME NEW c \in Clients, CreateExists(c)
        PROVE  Registry!Next
    <2>1. pc[c] = "exists" /\ pc[c] # "idle" /\ sessions' = sessions
      BY <1>5 DEF CreateExists, serviceVars
    <2>2. PhaseOf("exists") = "creating" /\ PhaseOf("register") = "creating"
      BY Phases DEF Steps, Creating
    <2>3. CASE req[c].key \in Present /\ Return(c, "exists")
      <3>1. Calls[c].phase = "creating" /\ Calls[c].key = req[c].key
        BY <2>1, <2>2, CallOf
      <3>2. Present' = Present
        BY <2>1 DEF Present
      <3>3. Registry!Answer(c, "exists")
        BY <1>a, <2>3
      <3> QED BY <2>3, <3>1, <3>2, <3>3 DEF Registry!Next, Registry!Refuse, Registry!Phase, Registry!Key
    <2>4. CASE Goto(c, "register") /\ req' = req
      BY <1>s, <2>1, <2>2, <2>4 DEF Steps, Creating
    <2> QED BY <1>5, <2>3, <2>4 DEF CreateExists
  <1>6. ASSUME NEW c \in Clients, CreateInsert(c)
        PROVE  Registry!Next
    <2>1. pc[c] = "insert" /\ pc[c] # "idle"
      BY <1>6 DEF CreateInsert
    <2>2. PhaseOf("insert") = "creating" /\ PhaseOf("open") = "created"
      BY Phases DEF Steps, Creating, Created
    <2>3. Calls[c].phase = "creating" /\ Calls[c].key = req[c].key
      BY <2>1, <2>2, CallOf
    <2>4. CASE /\ Cardinality(Present) >= MaxSessions \/ req[c].key \in Present
               /\ Return(c, "exhausted") /\ UNCHANGED serviceVars
      <3>1. Present' = Present
        BY <2>4 DEF Present, serviceVars
      <3>2. Registry!Answer(c, "exhausted")
        BY <1>a, <2>4
      <3>3. Registry!Refuse(c)
        BY <2>3, <2>4, <3>1, <3>2, SameCardinality DEF Registry!Refuse, Registry!Phase, Registry!Key
      <3> QED BY <3>3 DEF Registry!Next
    <2>5. CASE Cardinality(Present) < MaxSessions /\ req[c].key \notin Present /\ InsertSession(c)
      <3>1. created \in Nat /\ req[c].key \in Keys /\ sessions \in [Keys -> Nat]
        BY DEF TypeOK, Requests
      <3>2. created + 1 # 0 /\ sessions' = [sessions EXCEPT ![req[c].key] = created + 1]
        <4>1. sessions' = [sessions EXCEPT ![req[c].key] = created + 1]
          BY <2>5 DEF InsertSession
        <4>2. created + 1 # 0
          BY <3>1
        <4> QED BY <4>1, <4>2
      <3>3. Present' = Present \cup {req[c].key}
        BY <3>1, <3>2 DEF Present
      <3>4. Goto(c, "open") /\ req' = req
        BY <2>5 DEF InsertSession
      <3>5. "open" \in Steps /\ "open" # "idle"
        BY DEF Steps, Created
      <3>6. Calls' = [Calls EXCEPT ![c] = [phase |-> "created", key |-> req[c].key]]
        BY <2>2, <3>4, <3>5, GotoCalls
      <3>7. Registry!Goto(c, "created", req[c].key)
        BY <3>4, <3>6 DEF Registry!Goto, Registry!NoAnswer, NoAnswer, Goto
      <3>8. Registry!Add(c)
        BY <2>3, <2>5, <3>3, <3>7, SameCardinality DEF Registry!Add, Registry!Phase, Registry!Key
      <3> QED BY <3>8 DEF Registry!Next
    <2> QED BY <1>6, <2>4, <2>5 DEF CreateInsert
  <1>7. ASSUME NEW c \in Clients, DestroyRemove(c)
        PROVE  Registry!Next
    <2>1. pc[c] = "remove" /\ pc[c] # "idle"
      BY <1>7 DEF DestroyRemove
    <2>2. PhaseOf("remove") = "removing" /\ PhaseOf("stop") = "removed"
      BY Phases DEF Steps, Removed
    <2>3. Calls[c].phase = "removing" /\ Calls[c].key = req[c].key
      BY <2>1, <2>2, CallOf
    <2>4. CASE req[c].key \notin Present
      <3>1. Present' = Present
        BY <1>7, <2>4 DEF DestroyRemove, Present
      <3>2. Registry!Answer(c, "ok")
        BY <1>7, <1>a, <2>4 DEF DestroyRemove
      <3>3. Registry!RemoveNothing(c)
        BY <2>3, <2>4, <3>1, <3>2 DEF Registry!RemoveNothing, Registry!Phase, Registry!Key
      <3> QED BY <3>3 DEF Registry!Next
    <2>5. CASE req[c].key \in Present
      <3>1. /\ sessions' = [sessions EXCEPT ![req[c].key] = 0]
            /\ Goto(c, "stop") /\ req' = req
        BY <1>7, <2>5 DEF DestroyRemove
      <3>2. Present' = Present \ {req[c].key}
        BY <3>1 DEF Present, TypeOK
      <3>3. "stop" \in Steps /\ "stop" # "idle"
        BY DEF Steps, Removed
      <3>4. Calls' = [Calls EXCEPT ![c] = [phase |-> "removed", key |-> req[c].key]]
        BY <2>2, <3>1, <3>3, GotoCalls
      <3>5. Registry!Goto(c, "removed", req[c].key)
        BY <3>1, <3>4 DEF Registry!Goto, Registry!NoAnswer, NoAnswer, Goto
      <3>6. Registry!Remove(c)
        BY <2>3, <2>5, <3>2, <3>5 DEF Registry!Remove, Registry!Phase, Registry!Key
      <3> QED BY <3>6 DEF Registry!Next
    <2> QED BY <2>4, <2>5
  <1>8. ASSUME NEW c \in Clients, UpdateGet(c)
        PROVE  Registry!Next
    <2>1. pc[c] = "get" /\ pc[c] # "idle" /\ sessions' = sessions
      BY <1>8 DEF UpdateGet, serviceVars
    <2>2. PhaseOf("get") = "reading" /\ PhaseOf("lock") = "reading"
      BY Phases DEF Steps, Reading
    <2>3. CASE req[c].key \notin Present /\ Return(c, "notfound")
      <3>1. Calls[c].phase = "reading" /\ Calls[c].key = req[c].key
        BY <2>1, <2>2, CallOf
      <3>2. Present' = Present
        BY <2>1 DEF Present
      <3>3. Registry!Answer(c, "notfound")
        BY <1>a, <2>3
      <3>4. Registry!Miss(c)
        BY <2>3, <3>1, <3>2, <3>3 DEF Registry!Miss, Registry!Phase, Registry!Key
      <3> QED BY <3>4 DEF Registry!Next
    <2>4. CASE Goto(c, "lock") /\ req' = req
      BY <1>s, <2>1, <2>2, <2>4 DEF Steps, Reading
    <2> QED BY <1>8, <2>3, <2>4 DEF UpdateGet
  <1>9. ASSUME NEW c \in Clients, Cancel(c)
        PROVE  Registry!Next
    <2>1. pc[c] # "idle" /\ pc[c] \in Steps /\ Present' = Present
      BY <1>9 DEF Cancel, serviceVars, Present, TypeOK
    <2>2. Calls[c].phase # "idle"
      BY <2>1, CallOf, Phases
    <2>3. Registry!Answer(c, "cancelled")
      BY <1>9, <1>a DEF Cancel
    <2>4. Registry!Abandon(c)
      BY <2>1, <2>2, <2>3 DEF Registry!Abandon, Registry!Phase
    <2> QED BY <2>4 DEF Registry!Next
  <1>10. ASSUME NEW c \in Clients, CreateRegister(c)
         PROVE  Registry!Next
    <2>1. PhaseOf("register") = "creating" /\ PhaseOf("insert") = "creating"
      BY Phases DEF Steps, Creating
    <2> QED BY <1>s, <1>10, <2>1 DEF CreateRegister, Steps, Creating
  <1>11. ASSUME NEW c \in Clients, CreateOpen(c) \/ CreateReady(c) \/ CreateStore(c)
         PROVE  Registry!Next
    <2>1. PICK s \in Created : Goto(c, s)
      BY <1>11 DEF CreateOpen, CreateReady, CreateStore, Created
    <2>2. pc[c] \in Created /\ req' = req /\ sessions' = sessions
      BY <1>11 DEF CreateOpen, CreateReady, CreateStore, Created, serviceVars
    <2>3. Created \subseteq Steps /\ "idle" \notin Created
      BY DEF Created, Steps
    <2>4. PhaseOf(s) = PhaseOf(pc[c])
      BY <2>1, <2>2, <2>3, Phases
    <2> QED BY <1>s, <2>1, <2>2, <2>3, <2>4
  <1>12. ASSUME NEW c \in Clients, DestroyStop(c) \/ DestroyClaim(c) \/ DestroyStopWatcher(c)
         PROVE  Registry!Next
    <2>1. PICK s \in Removed : Goto(c, s)
      BY <1>12 DEF DestroyStop, DestroyClaim, DestroyStopWatcher, Removed
    <2>2. pc[c] \in Removed /\ req' = req /\ sessions' = sessions
      BY <1>12 DEF DestroyStop, DestroyClaim, DestroyStopWatcher, Removed, serviceVars
    <2>3. Removed \subseteq Steps /\ "idle" \notin Removed
      BY DEF Removed, Steps
    <2>4. PhaseOf(s) = PhaseOf(pc[c])
      BY <2>1, <2>2, <2>3, Phases
    <2> QED BY <1>s, <2>1, <2>2, <2>3, <2>4
  <1>r. ASSUME NEW c \in Clients, NEW s \in Reading, Goto(c, s), pc[c] \in Reading,
               req' = req, sessions' = sessions
        PROVE  Registry!Next
    <2>1. Reading \subseteq Steps /\ "idle" \notin Reading
      BY DEF Reading, Steps
    <2>2. PhaseOf(s) = PhaseOf(pc[c])
      BY <1>r, <2>1, Phases
    <2> QED BY <1>s, <1>r, <2>1, <2>2
  <1>13. ASSUME NEW c \in Clients, UpdateLock(c) \/ StatesOpen(c)
         PROVE  Registry!Next
    BY <1>r, <1>13 DEF UpdateLock, StatesOpen, Reading, serviceVars
  <1>14. ASSUME NEW c \in Clients, ResumeWatcher(c)
         PROVE  Registry!Next
    BY <1>r, <1>f, <1>14 DEF ResumeWatcher, Reading, serviceVars
  <1>15. ASSUME NEW c \in Clients,
                \/ CreateReply(c) \/ DestroyUnregister(c) \/ StatesReply(c) \/ ResumeEnds(c)
                \/ UpdateRefused(c) \/ PauseWithoutWatcher(c) \/ PauseWatcher(c)
         PROVE  Registry!Next
    <2>1. pc[c] \in Created \cup Removed \cup Reading /\ sessions' = sessions
      BY <1>15 DEF CreateReply, DestroyUnregister, StatesReply, ResumeEnds, UpdateRefused,
                   PauseWithoutWatcher, PauseWatcher, Created, Removed, Reading, serviceVars
    <2>2. Return(c, "ok") \/ Return(c, "failed")
      BY <1>15 DEF CreateReply, DestroyUnregister, StatesReply, ResumeEnds, UpdateRefused,
                   PauseWithoutWatcher, PauseWatcher
    <2> QED BY <1>f, <2>1, <2>2
  <1>16. ASSUME NEW c \in Clients, CreateSkip(c) \/ \E i \in Incarnations : StatesNext(c, i)
         PROVE  Registry!Next
    BY <1>p, <1>16 DEF CreateSkip, StatesNext, serviceVars, Calls
  <1>17. ASSUME NEW w \in Watchers, LoopStart(w) \/ LoopEnds(w) \/ LoopEvent(w) \/ Forward(w)
         PROVE  Registry!Next
    BY <1>p, <1>17 DEF LoopStart, LoopEnds, LoopEvent, Forward, serviceVars, clientVars, Calls
  <1>18. CASE UNCHANGED vars
    BY <1>18 DEF vars, serviceVars, clientVars, Registry!vars, Present, Calls
  <1> QED BY <1>1, <1>2, <1>3, <1>4, <1>5, <1>6, <1>7, <1>8, <1>9, <1>10, <1>11, <1>12, <1>13, <1>14,
             <1>15, <1>16, <1>17, <1>18 DEF Next, Handler, Locking

\* For any numbers of keys and callers, what the callers of the daemon see is
\* what a bounded session registry would have answered.
THEOREM RegistryImplemented == Spec => ImplementsRegistry
  <1>1. Init => Registry!Init
    <2> SUFFICES ASSUME Init PROVE Registry!Init
      OBVIOUS
    <2>1. Present = {}
      BY DEF Init, Present
    <2>2. Calls = [c \in Clients |-> Registry!Idle]
      <3>1. \A c \in Clients : pc[c] = "idle"
        BY DEF Init
      <3> QED BY <3>1 DEF Calls, Registry!Idle
    <2>3. answer = Registry!NoAnswer
      BY DEF Init, NoAnswer, Registry!NoAnswer
    <2> QED BY <2>1, <2>2, <2>3 DEF Registry!Init
  <1> QED BY <1>1, TypeCorrect, NextRegistry, PTL DEF Spec, ImplementsRegistry, Registry!Spec
=============================================================================
