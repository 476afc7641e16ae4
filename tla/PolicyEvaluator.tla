--------------------------- MODULE PolicyEvaluator ---------------------------
(***************************************************************************)
(* The policy engine of janusd (policy.rs): the order in which patterns    *)
(* decide, and the LRU cache of decisions in front of it.                  *)
(*                                                                         *)
(* A list of patterns is the set of paths it matches.  evaluate takes      *)
(* &self and the cache's lock twice, so evaluations interleave; update     *)
(* takes &mut self, so nothing is in flight while it runs.                 *)
(***************************************************************************)
EXTENDS Integers, FiniteSets

CONSTANTS
    Paths,
    Pids,
    NoPid,       \* None
    CacheSize,   \* 1024 in the code
    Callers      \* concurrent evaluations

ASSUME ConstantsAssumption ==
    /\ NoPid \notin Pids
    /\ CacheSize \in Nat \ {0}

VARIABLES
    policy,      \* the evaluator's patterns and defaults
    cache,       \* each key's decision and its rank: 1 latest put, 0 absent
    pending,     \* per caller: the key it is about to put, if any
    torn         \* history: an update failed half-way since the last clear

vars == <<policy, cache, pending, torn>>

Responses == {"allow", "deny", "audit"}
CacheKeys == Paths \X (Pids \cup {NoPid})
Absent == [rank |-> 0, decision |-> "allow"]
Idle == [busy |-> FALSE, key |-> <<>>]
Policies == [deny : SUBSET Paths, allow : SUBSET Paths, autoAllowOwner : BOOLEAN,
             ownerPid : Pids \cup {NoPid}, default : Responses]

TypeOK ==
    /\ policy \in Policies
    /\ cache \in [CacheKeys -> [rank : 0..CacheSize, decision : Responses]]
    /\ pending \in [Callers -> {Idle} \cup [busy : {TRUE}, key : CacheKeys]]
    /\ torn \in BOOLEAN

\* with_config, any policy.
Init ==
    /\ policy \in Policies
    /\ cache = [k \in CacheKeys |-> Absent]
    /\ pending = [c \in Callers |-> Idle]
    /\ torn = FALSE

-----------------------------------------------------------------------------

\* evaluate_uncached: deny, then allow, then the owner, then the default.
EvaluateUncached(p, path, pid) ==
    IF path \in p.deny THEN "deny"
    ELSE IF path \in p.allow THEN "allow"
    ELSE IF p.autoAllowOwner /\ pid # NoPid /\ pid = p.ownerPid THEN "allow"
    ELSE p.default

\* evaluate, under the read lock: a hit is the answer, a miss goes on.
Lookup(c, k) ==
    /\ ~pending[c].busy
    /\ pending' = IF cache[k].rank > 0 THEN pending
                  ELSE [pending EXCEPT ![c] = [busy |-> TRUE, key |-> k]]
    /\ UNCHANGED <<policy, cache, torn>>

PutUnbounded(k, d) ==
    [j \in CacheKeys |->
       IF j = k THEN [rank |-> 1, decision |-> d]
       ELSE IF cache[j].rank = 0 \/ (cache[k].rank > 0 /\ cache[j].rank > cache[k].rank) THEN cache[j]
       ELSE [cache[j] EXCEPT !.rank = @ + 1]]

\* LruCache::put: the key becomes the latest, those put after its last time
\* move back by one, and one that falls off the end is evicted.
Put(k, d) ==
    [j \in CacheKeys |->
       IF j = k THEN [rank |-> 1, decision |-> d]
       ELSE IF cache[j].rank = 0 \/ (cache[k].rank > 0 /\ cache[j].rank > cache[k].rank) THEN cache[j]
       ELSE IF cache[j].rank = CacheSize THEN Absent
       ELSE [cache[j] EXCEPT !.rank = @ + 1]]

\* evaluate, under the write lock: decide and remember the decision.
EvaluateIgnoringPid(c) ==
    LET k == pending[c].key IN
    /\ pending[c].busy
    /\ cache' = Put(<<k[1], NoPid>>, EvaluateUncached(policy, k[1], k[2]))
    /\ pending' = [pending EXCEPT ![c] = Idle]
    /\ UNCHANGED <<policy, torn>>

Evaluate(c) ==
    LET k == pending[c].key IN
    /\ pending[c].busy
    /\ cache' = Put(k, EvaluateUncached(policy, k[1], k[2]))
    /\ pending' = [pending EXCEPT ![c] = Idle]
    /\ UNCHANGED <<policy, torn>>

Exclusive == \A c \in Callers : ~pending[c].busy

\* clear_cache
ClearCache ==
    /\ cache' = [k \in CacheKeys |-> Absent]
    /\ torn' = FALSE

UpdateWithoutClear(p) ==
    /\ Exclusive
    /\ p.ownerPid = NoPid => policy.ownerPid = NoPid
    /\ policy' = p
    /\ UNCHANGED <<cache, torn, pending>>

\* update, every pattern valid.  A field that is not given keeps its value,
\* and the owner can be replaced but not taken back.
Update(p) ==
    /\ Exclusive
    /\ p.ownerPid = NoPid => policy.ownerPid = NoPid
    /\ policy' = p
    /\ ClearCache
    /\ UNCHANGED pending

\* update with an invalid allow pattern: it returns after the deny patterns
\* have been replaced and before the cache is cleared.  (An invalid deny
\* pattern returns before anything changes.)
UpdateInvalidAllow(deny) ==
    /\ Exclusive
    /\ policy' = [policy EXCEPT !.deny = deny]
    /\ torn' = TRUE
    /\ UNCHANGED <<cache, pending>>

Next ==
    \/ \E c \in Callers, k \in CacheKeys : Lookup(c, k)
    \/ \E c \in Callers : Evaluate(c)
    \/ \E p \in Policies : Update(p)
    \/ \E deny \in SUBSET Paths : UpdateInvalidAllow(deny)

Spec == Init /\ [][Next]_vars

-----------------------------------------------------------------------------
(* Properties *)

Coherent == \A k \in CacheKeys :
    cache[k].rank > 0 => cache[k].decision = EvaluateUncached(policy, k[1], k[2])

\* A cached decision is the decision the current policy would make, for every
\* path and pid, whichever evaluations raced to put it there and whatever was
\* evicted since, as long as no update failed half-way.
CacheCoherent == ~torn => Coherent
=============================================================================
