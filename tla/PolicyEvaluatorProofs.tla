------------------------ MODULE PolicyEvaluatorProofs ------------------------
(***************************************************************************)
(* The cache of PolicyEvaluator never changes a decision, for any paths,   *)
(* pids, callers and cache size.  Typing and coherence are inductive       *)
(* together.                                                               *)
(***************************************************************************)
EXTENDS PolicyEvaluator, TLAPS

Entries == [rank : 0..CacheSize, decision : Responses]

\* The decision order always gives a response (evaluate_uncached).
LEMMA DecisionType ==
    ASSUME NEW p \in Policies, NEW path, NEW pid
    PROVE  EvaluateUncached(p, path, pid) \in Responses
  BY DEF EvaluateUncached, Policies, Responses

\* What a put leaves of each entry: the new key has the new decision, every
\* other key keeps its decision or goes (LruCache::put).
LEMMA PutKeepsDecisions ==
    ASSUME TypeOK, NEW k \in CacheKeys, NEW d \in Responses
    PROVE  /\ Put(k, d) \in [CacheKeys -> Entries]
           /\ Put(k, d)[k].decision = d
           /\ \A j \in CacheKeys \ {k} :
                Put(k, d)[j].rank > 0 =>
                   cache[j].rank > 0 /\ Put(k, d)[j].decision = cache[j].decision
  <1> USE ConstantsAssumption
  <1>1. Absent \in Entries /\ Absent.rank = 0
    BY DEF Absent, Entries, Responses
  <1>2. [rank |-> 1, decision |-> d] \in Entries
    BY DEF Entries
  <1>3. ASSUME NEW j \in CacheKeys
        PROVE  cache[j] \in Entries
    BY DEF TypeOK, Entries
  <1>4. ASSUME NEW j \in CacheKeys, cache[j].rank # CacheSize
        PROVE  /\ [cache[j] EXCEPT !.rank = @ + 1] \in Entries
               /\ [cache[j] EXCEPT !.rank = @ + 1].decision = cache[j].decision
    BY <1>3, <1>4 DEF Entries
  <1>5. ASSUME NEW j \in CacheKeys \ {k}
        PROVE  \/ Put(k, d)[j] = cache[j]
               \/ Put(k, d)[j] = Absent
               \/ /\ cache[j].rank # 0 /\ cache[j].rank # CacheSize
                  /\ Put(k, d)[j] = [cache[j] EXCEPT !.rank = @ + 1]
    BY DEF Put
  <1>6. Put(k, d)[k] = [rank |-> 1, decision |-> d]
    BY DEF Put
  <1>7. Put(k, d) \in [CacheKeys -> Entries]
    <2>1. \A j \in CacheKeys : Put(k, d)[j] \in Entries
      BY <1>1, <1>2, <1>3, <1>4, <1>5, <1>6
    <2> QED BY <2>1 DEF Put
  <1>8. ASSUME NEW j \in CacheKeys \ {k}, Put(k, d)[j].rank > 0
        PROVE  cache[j].rank > 0 /\ Put(k, d)[j].decision = cache[j].decision
    <2>1. cache[j].rank \in 0..CacheSize
      BY <1>3 DEF Entries
    <2>2. CASE Put(k, d)[j] = cache[j]
      BY <1>8, <2>2
    <2>3. CASE Put(k, d)[j] = Absent
      BY <1>1, <1>8, <2>3
    <2>4. CASE /\ cache[j].rank # 0 /\ cache[j].rank # CacheSize
               /\ Put(k, d)[j] = [cache[j] EXCEPT !.rank = @ + 1]
      <3>1. cache[j].rank > 0
        BY <2>1, <2>4
      <3> QED BY <1>4, <2>4, <3>1
    <2> QED BY <1>5, <2>2, <2>3, <2>4
  <1> QED BY <1>6, <1>7, <1>8

Inv == TypeOK /\ CacheCoherent

\* A cached decision is the decision of the current policy (evaluate), unless
\* an update failed half-way since the cache was cleared.
THEOREM CacheIsCoherent == Spec => []CacheCoherent
  <1> USE ConstantsAssumption
  <1>1. Init => Inv
    <2> SUFFICES ASSUME Init PROVE Inv
      OBVIOUS
    <2>1. Absent \in Entries /\ Absent.rank = 0
      BY DEF Absent, Entries, Responses
    <2>2. TypeOK
      BY <2>1 DEF Init, TypeOK, Entries
    <2>3. CacheCoherent
      BY <2>1 DEF Init, CacheCoherent, Coherent
    <2> QED BY <2>2, <2>3 DEF Inv
  <1>2. Inv /\ [Next]_vars => Inv'
    <2> SUFFICES ASSUME Inv, [Next]_vars PROVE Inv'
      OBVIOUS
    <2> USE DEF Inv
    <2>1. ASSUME NEW c \in Callers, NEW k \in CacheKeys, Lookup(c, k)
          PROVE  Inv'
      <3>1. pending' \in [Callers -> {Idle} \cup [busy : {TRUE}, key : CacheKeys]]
        BY <2>1 DEF Lookup, TypeOK
      <3>2. UNCHANGED <<policy, cache, torn>>
        BY <2>1 DEF Lookup
      <3> QED BY <3>1, <3>2 DEF TypeOK, CacheCoherent, Coherent
    <2>2. ASSUME NEW c \in Callers, Evaluate(c)
          PROVE  Inv'
      <3> DEFINE k == pending[c].key
                 d == EvaluateUncached(policy, k[1], k[2])
      <3>1. k \in CacheKeys
        <4>1. pending[c] \in {Idle} \cup [busy : {TRUE}, key : CacheKeys] /\ pending[c].busy
          BY <2>2 DEF TypeOK, Evaluate
        <4>2. Idle.busy = FALSE
          BY DEF Idle
        <4>3. pending[c] \in [busy : {TRUE}, key : CacheKeys]
          BY <4>1, <4>2
        <4> QED BY <4>3
      <3>2. d \in Responses
        BY DecisionType DEF TypeOK
      <3>3. cache' = Put(k, d) /\ policy' = policy /\ torn' = torn
        BY <2>2 DEF Evaluate
      <3>4. TypeOK'
        <4>1. pending' \in [Callers -> {Idle} \cup [busy : {TRUE}, key : CacheKeys]]
          BY <2>2 DEF Evaluate, TypeOK
        <4>2. cache' \in [CacheKeys -> Entries]
          BY <3>1, <3>2, <3>3, PutKeepsDecisions
        <4> QED BY <3>3, <4>1, <4>2 DEF TypeOK, Entries
      <3>5. CacheCoherent'
        <4> SUFFICES ASSUME ~torn, NEW j \in CacheKeys, cache'[j].rank > 0
                     PROVE  cache'[j].decision = EvaluateUncached(policy, j[1], j[2])
          BY <3>3 DEF CacheCoherent, Coherent, EvaluateUncached
        <4> HIDE DEF k, d
        <4>1. CASE j = k
          BY <3>1, <3>2, <3>3, <4>1, PutKeepsDecisions DEF d
        <4>2. CASE j # k
          BY <3>1, <3>2, <3>3, <4>2, PutKeepsDecisions DEF CacheCoherent, Coherent
        <4> QED BY <4>1, <4>2
      <3> QED BY <3>4, <3>5
    <2>3. ASSUME NEW p \in Policies, Update(p)
          PROVE  Inv'
      <3>1. Absent \in Entries /\ Absent.rank = 0
        BY DEF Absent, Entries, Responses
      <3>2. TypeOK'
        BY <2>3, <3>1 DEF Update, ClearCache, TypeOK, Entries
      <3>3. CacheCoherent'
        BY <2>3, <3>1 DEF Update, ClearCache, CacheCoherent, Coherent
      <3> QED BY <3>2, <3>3
    <2>4. ASSUME NEW deny \in SUBSET Paths, UpdateInvalidAllow(deny)
          PROVE  Inv'
      <3>1. policy' \in Policies
        BY <2>4 DEF UpdateInvalidAllow, TypeOK, Policies
      <3> QED BY <2>4, <3>1 DEF UpdateInvalidAllow, TypeOK, CacheCoherent
    <2>5. CASE UNCHANGED vars
      BY <2>5 DEF vars, TypeOK, CacheCoherent, Coherent
    <2> QED BY <2>1, <2>2, <2>3, <2>4, <2>5 DEF Next
  <1>3. Inv => CacheCoherent
    BY DEF Inv
  <1> QED
    BY <1>1, <1>2, <1>3, PTL DEF Spec
=============================================================================
