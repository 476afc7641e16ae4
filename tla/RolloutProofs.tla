--------------------------- MODULE RolloutProofs ---------------------------
(***************************************************************************)
(* What a pass counts and what a deletion leaves (Rollout), for any pods,  *)
(* nodes and bounds.  The status is honest because a pass counts what it   *)
(* created or what a daemon reported to it, and both were seen.  A         *)
(* deletion cleans up because a finalizer that a pass fetched is not       *)
(* removed by anybody else: no session appears once it is gone, and before *)
(* it goes every listed session is destroyed or given up (left).           *)
(***************************************************************************)
EXTENDS Rollout, TLAPS

SpecRecords == [paused : BOOLEAN, rev : Nat]
Resources == {Absent} \cup [generation : Nat, finalizer : BOOLEAN, deleting : BOOLEAN,
                            spec : SpecRecords]
Sessions == {None} \cup [spec : SpecRecords, ready : BOOLEAN]
Answers == UNION {[S -> SpecRecords] : S \in SUBSET Pods}
Passes == [at : {"idle", "fetched", "nodes", "node", "destroy"}, res : Resources,
           listed : SUBSET Pods, todo : SUBSET Pods, here : SUBSET Pods, actual : Answers,
           orphans : SUBSET Pods, counted : SUBSET Pods]

Typed ==
    /\ changes \in Nat
    /\ resource \in Resources
    /\ session \in [Pods -> Sessions]
    /\ pass \in Passes

\* What the pass counts, and what it will count because the daemon reported it.
Counted == pass.counted \subseteq seen /\ DOMAIN pass.actual \subseteq seen

\* Only the pass itself removes a finalizer, so that a pass that fetched one
\* knows it is there.
Finalized ==
    /\ Exists(resource) => (resource.deleting => resource.finalizer)
    /\ pass.at # "idle" => Exists(pass.res)
    /\ Exists(pass.res) => /\ pass.res.deleting => pass.res.finalizer
                           /\ pass.res.finalizer => Exists(resource) /\ resource.finalizer
    /\ pass.at \in {"nodes", "node", "destroy"} => pass.res.finalizer

\* Sessions that no finalizer stands for are left over from a deletion.
LeftOver ==
    \/ Exists(resource) /\ resource.finalizer
    \/ \A p \in Pods : session[p] # None => p \in left

\* A deletion on its way has the others still to do.
ToDestroy ==
    pass.at = "destroy" => \A p \in Pods : session[p] # None => p \in left \cup pass.todo

IInv == Typed /\ Counted /\ Finalized /\ LeftOver /\ ToDestroy

-----------------------------------------------------------------------------
(* Values                                                                    *)

LEMMA EmptyAnswer == <<>> \in Answers /\ DOMAIN <<>> = {}
<1>1. <<>> \in [{} -> SpecRecords]
  OBVIOUS
<1> QED
  BY <1>1 DEF Answers

LEMMA SomeAnswer ==
    ASSUME NEW S \in SUBSET Pods, NEW f \in [S -> SpecRecords]
    PROVE  f \in Answers
BY DEF Answers

LEMMA IdlePass ==
    /\ Idle \in Passes /\ Idle.at = "idle" /\ Idle.res = Absent
    /\ Idle.counted = {} /\ DOMAIN Idle.actual = {}
BY EmptyAnswer DEF Passes, Idle, Resources

LEMMA NewSession ==
    ASSUME NEW s \in SpecRecords
    PROVE  /\ [spec |-> s, ready |-> FALSE] \in Sessions
           /\ [spec |-> s, ready |-> FALSE] # None
BY DEF Sessions, None

LEMMA Stored ==
    ASSUME NEW r \in Resources, Exists(r)
    PROVE  r \in [generation : Nat, finalizer : BOOLEAN, deleting : BOOLEAN, spec : SpecRecords]
BY DEF Resources, Exists

LEMMA StoredExists ==
    ASSUME NEW r \in [generation : Nat, finalizer : BOOLEAN, deleting : BOOLEAN, spec : SpecRecords]
    PROVE  Exists(r) /\ r \in Resources
BY DEF Resources, Exists, Absent

LEMMA NotAbsent == ~Exists(Absent) /\ Absent \in Resources
BY DEF Exists, Resources

-----------------------------------------------------------------------------
(* Calls to a daemon                                                         *)

\* A step after which there are only sessions that were there before.
NoneNew ==
    /\ session' \in [Pods -> Sessions]
    /\ \A p \in Pods : session'[p] # None => session[p] # None

LEMMA DestroyedType ==
    ASSUME Typed, NEW p \in Pods
    PROVE  /\ Destroyed(p) \in [Pods -> Sessions]
           /\ Destroyed(p)[p] = None
           /\ \A q \in Pods : Destroyed(p)[q] # None => session[q] # None
BY DEF Typed, Destroyed, Sessions

LEMMA DestroyCall ==
    ASSUME Typed, NEW p \in Pods, NEW n,
           Answered(n, Destroyed(p)) \/ Unanswered(n, Destroyed(p))
    PROVE  NoneNew
BY DestroyedType DEF Typed, Answered, Unanswered, NoneNew

LEMMA CreatedType ==
    ASSUME Typed, NEW p \in Pods, NEW s \in SpecRecords
    PROVE  /\ Created(p, s) \in [Pods -> Sessions]
           /\ Created(p, s)[p] # None
BY NewSession DEF Typed, Created

LEMMA CreateCall ==
    ASSUME Typed, NEW p \in Pods, NEW n, NEW s \in SpecRecords,
           Answered(n, Created(p, s)) \/ Unanswered(n, Created(p, s))
    PROVE  /\ session' \in [Pods -> Sessions]
           /\ Answered(n, Created(p, s)) => session'[p] # None
BY CreatedType DEF Typed, Answered, Unanswered

LEMMA QueryCall ==
    ASSUME Typed, NEW n, Answered(n, session) \/ Unanswered(n, session)
    PROVE  session' = session
BY DEF Typed, Answered, Unanswered

-----------------------------------------------------------------------------
(* Steps                                                                     *)

\* A pass that ends and leaves everything as it was.
LEMMA PassEnds ==
    ASSUME IInv, PassStep, pass' = Idle, UNCHANGED <<resource, session, left>>
    PROVE  IInv'
<1>1. Typed'
  BY IdlePass DEF IInv, Typed, PassStep
<1>2. Counted'
  BY IdlePass DEF Counted
<1>3. Finalized'
  BY IdlePass, NotAbsent DEF IInv, Finalized
<1>4. LeftOver'
  BY DEF IInv, LeftOver
<1>5. ToDestroy'
  BY IdlePass DEF ToDestroy
<1> QED
  BY <1>1, <1>2, <1>3, <1>4, <1>5 DEF IInv

\* A pass that goes on among the nodes: the resource has its finalizer.
LEMMA PassGoesOn ==
    ASSUME IInv, PassStep, UNCHANGED <<resource, left>>, session' \in [Pods -> Sessions],
           pass.at # "idle", pass.res.finalizer,
           pass' \in Passes, pass'.res = pass.res, pass'.at \in {"nodes", "node"},
           pass'.counted \subseteq seen', DOMAIN pass'.actual \subseteq seen'
    PROVE  IInv'
<1>1. Typed'
  BY DEF IInv, Typed, PassStep
<1>2. Counted'
  BY DEF Counted
<1>3. Finalized'
  BY DEF IInv, Finalized
<1>4. LeftOver'
  BY DEF IInv, Finalized, LeftOver
<1>5. ToDestroy'
  BY DEF ToDestroy
<1> QED
  BY <1>1, <1>2, <1>3, <1>4, <1>5 DEF IInv

\* A deletion that goes on.
LEMMA DeletionGoesOn ==
    ASSUME IInv, PassStep, UNCHANGED resource, session' \in [Pods -> Sessions],
           pass.at # "idle", pass.res.finalizer,
           pass' \in Passes, pass'.res = pass.res, pass'.at = "destroy",
           pass'.counted = pass.counted, pass'.actual = pass.actual,
           \A p \in Pods : session'[p] # None => p \in left' \cup pass'.todo
    PROVE  IInv'
<1>1. Typed'
  BY DEF IInv, Typed, PassStep
<1>2. Counted'
  BY DEF IInv, Counted, PassStep
<1>3. Finalized'
  BY DEF IInv, Finalized
<1>4. LeftOver'
  BY DEF IInv, Finalized, LeftOver
<1>5. ToDestroy'
  BY DEF ToDestroy
<1> QED
  BY <1>1, <1>2, <1>3, <1>4, <1>5 DEF IInv

\* A step of a pod, a daemon or the cluster that leaves the resource alone.
LEMMA OtherStep ==
    ASSUME IInv, NoneNew, changes' \in Nat, UNCHANGED <<resource, pass, seen, left>>
    PROVE  IInv'
<1>1. Typed'
  BY DEF IInv, Typed, NoneNew
<1>2. Counted'
  BY DEF IInv, Counted
<1>3. Finalized'
  BY DEF IInv, Finalized
<1>4. LeftOver'
  BY DEF IInv, LeftOver, NoneNew
<1>5. ToDestroy'
  BY DEF IInv, ToDestroy, NoneNew
<1> QED
  BY <1>1, <1>2, <1>3, <1>4, <1>5 DEF IInv

LEMMA SameSessions ==
    ASSUME Typed, UNCHANGED session
    PROVE  NoneNew
BY DEF Typed, NoneNew

\* A user's step on the resource: the finalizer stays if there was one.
LEMMA ResourceStep ==
    ASSUME IInv, Changed, UNCHANGED session, resource' \in Resources,
           Exists(resource)' => (resource.deleting => resource.finalizer)',
           (Exists(resource) /\ resource.finalizer) => (Exists(resource) /\ resource.finalizer)'
    PROVE  IInv'
<1>1. Typed'
  BY DEF IInv, Typed, Changed
<1>2. Counted'
  BY DEF IInv, Counted, Changed, history
<1>3. Finalized'
  BY DEF IInv, Finalized, Changed
<1>4. LeftOver'
  BY DEF IInv, LeftOver, Changed, history
<1>5. ToDestroy'
  BY DEF IInv, ToDestroy, Changed, history
<1> QED
  BY <1>1, <1>2, <1>3, <1>4, <1>5 DEF IInv

LEMMA InitIInv == RolloutInit => IInv
<1> SUFFICES ASSUME RolloutInit PROVE IInv
  OBVIOUS
<1>1. Typed
  BY IdlePass, NotAbsent DEF RolloutInit, Typed, Sessions
<1>2. Counted
  BY IdlePass DEF RolloutInit, Counted
<1>3. Finalized
  BY IdlePass, NotAbsent DEF RolloutInit, Finalized
<1>4. LeftOver /\ ToDestroy
  BY DEF RolloutInit, LeftOver, ToDestroy
<1> QED
  BY <1>1, <1>2, <1>3, <1>4 DEF IInv

-----------------------------------------------------------------------------
(* Actions of the cluster                                                    *)

LEMMA ClusterStep ==
    ASSUME IInv, Cluster
    PROVE  IInv'
<1> USE DEF IInv
<1>1. ASSUME NEW paused \in BOOLEAN, Apply(paused)
      PROVE  IInv'
  <2>1. changes' \in Nat
    BY <1>1 DEF Apply, Changed, Typed
  <2>2. /\ resource' \in [generation : Nat, finalizer : BOOLEAN, deleting : BOOLEAN,
                          spec : SpecRecords]
        /\ ~resource'.deleting
    BY <1>1, <2>1 DEF Apply, SpecRecords
  <2>3. resource' \in Resources
    BY <2>2, StoredExists
  <2> QED
    BY <1>1, <2>2, <2>3, ResourceStep DEF Apply, daemonVars
<1>2. ASSUME NEW paused \in BOOLEAN, Edit(paused)
      PROVE  IInv'
  <2>1. changes' \in Nat
    BY <1>2 DEF Edit, Changed, Typed
  <2>2. resource \in [generation : Nat, finalizer : BOOLEAN, deleting : BOOLEAN, spec : SpecRecords]
    BY <1>2, Stored DEF Edit, Typed
  <2>3. [paused |-> paused, rev |-> changes'] \in SpecRecords
    BY <2>1 DEF SpecRecords
  <2>4. /\ resource' \in [generation : Nat, finalizer : BOOLEAN, deleting : BOOLEAN,
                          spec : SpecRecords]
        /\ resource'.deleting = resource.deleting
        /\ resource'.finalizer = resource.finalizer
    BY <1>2, <2>1, <2>2, <2>3 DEF Edit
  <2>5. resource' \in Resources /\ Exists(resource)'
    BY <2>4, StoredExists
  <2> QED
    BY <1>2, <2>4, <2>5, ResourceStep DEF Edit, daemonVars
<1>3. CASE Delete
  <2>1. changes' \in Nat
    BY <1>3 DEF Delete, Changed, Typed
  <2>2. resource \in [generation : Nat, finalizer : BOOLEAN, deleting : BOOLEAN, spec : SpecRecords]
    BY <1>3, Stored DEF Delete, Typed
  <2>3. CASE resource.finalizer
    <3>1. /\ resource' \in [generation : Nat, finalizer : BOOLEAN, deleting : BOOLEAN,
                            spec : SpecRecords]
          /\ resource'.finalizer
      BY <1>3, <2>1, <2>2, <2>3 DEF Delete
    <3>2. resource' \in Resources /\ Exists(resource)'
      BY <3>1, StoredExists
    <3> QED
      BY <1>3, <3>1, <3>2, ResourceStep DEF Delete, daemonVars
  <2>4. CASE ~resource.finalizer
    <3>1. resource' \in Resources /\ ~Exists(resource)'
      BY <1>3, <2>4, NotAbsent DEF Delete, Exists
    <3> QED
      BY <1>3, <2>4, <3>1, ResourceStep DEF Delete, daemonVars
  <2> QED
    BY <2>3, <2>4
<1>4. ASSUME NEW p \in Pods, CreatePod(p) \/ DeletePod(p)
      PROVE  IInv'
  <2>1. NoneNew
    BY <1>4, SameSessions DEF CreatePod, DeletePod, daemonVars
  <2>2. changes' \in Nat
    BY <1>4 DEF CreatePod, DeletePod, Changed, Typed
  <2> QED
    BY <1>4, <2>1, <2>2, OtherStep DEF CreatePod, DeletePod, Changed, history
<1>5. ASSUME NEW n \in Hosts, Crash(n)
      PROVE  IInv'
  <2>1. NoneNew
    BY <1>5 DEF Crash, NoneNew, Typed, Sessions
  <2> QED
    BY <1>5, <2>1, OtherStep DEF Crash, Typed, history
<1> QED
  BY <1>1, <1>2, <1>3, <1>4, <1>5 DEF Cluster

LEMMA DaemonOrPodStep ==
    ASSUME IInv,
           \/ \E n \in Hosts : Start(n)
           \/ \E p \in Pods : Registered(p) \/ InitContainer(p)
    PROVE  IInv'
<1> USE DEF IInv
<1>1. ASSUME NEW n \in Hosts, Start(n)
      PROVE  IInv'
  BY <1>1, SameSessions, OtherStep DEF Start, Typed, bounds, history
<1>2. ASSUME NEW p \in Pods, Registered(p)
      PROVE  IInv'
  <2>1. session[p] \in [spec : SpecRecords, ready : BOOLEAN]
    BY <1>2 DEF Registered, Typed, Sessions
  <2>2. [session[p] EXCEPT !.ready = TRUE] \in Sessions
    BY <2>1 DEF Sessions
  <2>3. session' = [session EXCEPT ![p] = [session[p] EXCEPT !.ready = TRUE]]
    BY <1>2 DEF Registered
  <2>4. session' \in [Pods -> Sessions] /\ \A q \in Pods \ {p} : session'[q] = session[q]
    BY <2>2, <2>3 DEF Typed
  <2>5. NoneNew
    BY <1>2, <2>4 DEF Registered, NoneNew
  <2> QED
    BY <1>2, <2>5, OtherStep DEF Registered, Typed, bounds, history
<1>3. ASSUME NEW p \in Pods, InitContainer(p)
      PROVE  IInv'
  BY <1>3, SameSessions, OtherStep DEF InitContainer, Typed, daemonVars, bounds, history
<1> QED
  BY <1>1, <1>2, <1>3

-----------------------------------------------------------------------------
(* Actions of a pass                                                         *)

\* A pass keeps what it saw.
LEMMA SeenGrows ==
    ASSUME IInv, PassStep, pass' \in Passes, pass'.at # "idle"
    PROVE  /\ pass.counted \subseteq seen' /\ DOMAIN pass.actual \subseteq seen'
           /\ \A p \in Pods : session'[p] # None => p \in seen'
BY DEF IInv, Counted, PassStep

LEMMA BeginOrEnd ==
    ASSUME IInv,
           \/ Reconcile \/ AddFinalizer \/ SkipPaused \/ WriteStatus \/ FindMatchingPodsFails
           \/ RemoveFinalizer
    PROVE  IInv'
<1>1. CASE Reconcile
  <2>1. /\ pass' \in Passes /\ pass'.at = "fetched" /\ pass'.res = resource
        /\ pass'.counted = {} /\ DOMAIN pass'.actual = {}
    BY <1>1, IdlePass DEF Reconcile, Passes, IInv, Typed
  <2>2. Typed'
    BY <1>1, <2>1 DEF Reconcile, PassStep, IInv, Typed
  <2>3. Counted'
    BY <2>1 DEF Counted
  <2>4. Finalized'
    BY <1>1, <2>1 DEF Reconcile, IInv, Finalized
  <2>5. LeftOver'
    BY <1>1 DEF Reconcile, IInv, LeftOver
  <2>6. ToDestroy'
    BY <2>1 DEF ToDestroy
  <2> QED
    BY <2>2, <2>3, <2>4, <2>5, <2>6 DEF IInv
<1>2. CASE AddFinalizer
  <2>1. Exists(pass.res) /\ pass.res \in Resources
    BY <1>2 DEF AddFinalizer, IInv, Finalized, Typed, Passes
  <2>2. pass.res \in [generation : Nat, finalizer : BOOLEAN, deleting : BOOLEAN, spec : SpecRecords]
    BY <2>1, Stored
  <2> DEFINE new == [pass.res EXCEPT !.finalizer = TRUE]
  <2>3. /\ new \in [generation : Nat, finalizer : BOOLEAN, deleting : BOOLEAN, spec : SpecRecords]
        /\ new.finalizer
    BY <2>2
  <2>4. new \in Resources /\ Exists(new)
    BY <2>3, StoredExists
  <2> HIDE DEF new
  <2>5. resource' = (IF resource = pass.res THEN new ELSE resource) /\ pass' = Idle
    BY <1>2 DEF AddFinalizer, Update, new
  <2>6. Typed'
    BY <1>2, <2>4, <2>5, IdlePass DEF AddFinalizer, PassStep, IInv, Typed
  <2>7. Counted'
    BY <2>5, IdlePass DEF Counted
  <2>8. Finalized'
    BY <2>3, <2>5, IdlePass, NotAbsent DEF IInv, Finalized
  <2>9. LeftOver'
    BY <1>2, <2>3, <2>4, <2>5 DEF AddFinalizer, IInv, LeftOver
  <2>10. ToDestroy'
    BY <2>5, IdlePass DEF ToDestroy
  <2> QED
    BY <2>6, <2>7, <2>8, <2>9, <2>10 DEF IInv
<1>3. CASE SkipPaused
  BY <1>3, PassEnds DEF SkipPaused
<1>4. CASE WriteStatus
  BY <1>4, PassEnds DEF WriteStatus
<1>5. CASE FindMatchingPodsFails
  BY <1>5, PassEnds DEF FindMatchingPodsFails
<1>6. CASE RemoveFinalizer
  <2>1. resource' = (IF resource = pass.res THEN Absent ELSE resource) /\ pass' = Idle
    BY <1>6 DEF RemoveFinalizer, Update
  <2>2. \A p \in Pods : session'[p] # None => p \in left'
    BY <1>6 DEF RemoveFinalizer, IInv, ToDestroy
  <2>3. Typed'
    BY <1>6, <2>1, IdlePass, NotAbsent DEF RemoveFinalizer, PassStep, IInv, Typed
  <2>4. Counted'
    BY <2>1, IdlePass DEF Counted
  <2>5. Finalized'
    BY <2>1, IdlePass, NotAbsent DEF IInv, Finalized
  <2>6. LeftOver'
    BY <2>2 DEF LeftOver
  <2>7. ToDestroy'
    BY <2>1, IdlePass DEF ToDestroy
  <2> QED
    BY <2>3, <2>4, <2>5, <2>6, <2>7 DEF IInv
<1> QED
  BY <1>1, <1>2, <1>3, <1>4, <1>5, <1>6

LEMMA DeletionStep ==
    ASSUME IInv,
           ListForDeletion \/ ListForDeletionFails \/ \E p \in Pods : DestroyListed(p)
    PROVE  IInv'
<1>1. CASE ListForDeletion
  <2>1. pass.at # "idle" /\ pass.res.finalizer
    BY <1>1 DEF ListForDeletion, IInv, Finalized
  <2>2. /\ pass' \in Passes /\ pass'.at = "destroy" /\ pass'.res = pass.res
        /\ pass'.counted = pass.counted /\ pass'.actual = pass.actual /\ pass'.todo = Running
    BY <1>1 DEF ListForDeletion, IInv, Typed, Passes, Running
  <2>3. \A p \in Pods : session'[p] # None => p \in left' \cup pass'.todo
    BY <1>1, <2>2 DEF ListForDeletion
  <2> QED
    BY <1>1, <2>1, <2>2, <2>3, DeletionGoesOn DEF ListForDeletion, IInv, Typed
<1>2. CASE ListForDeletionFails
  <2>1. pass.at # "idle" /\ pass.res.finalizer
    BY <1>2 DEF ListForDeletionFails, IInv, Finalized
  <2>2. /\ pass' \in Passes /\ pass'.at = "destroy" /\ pass'.res = pass.res
        /\ pass'.counted = pass.counted /\ pass'.actual = pass.actual
    BY <1>2 DEF ListForDeletionFails, IInv, Typed, Passes
  <2>3. \A p \in Pods : session'[p] # None => p \in left' \cup pass'.todo
    BY <1>2 DEF ListForDeletionFails
  <2> QED
    BY <1>2, <2>1, <2>2, <2>3, DeletionGoesOn DEF ListForDeletionFails, IInv, Typed
<1>3. ASSUME NEW p \in Pods, DestroyListed(p)
      PROVE  IInv'
  <2>1. pass.at # "idle" /\ pass.res.finalizer
    BY <1>3 DEF DestroyListed, IInv, Finalized
  <2>2. /\ pass' \in Passes /\ pass'.at = "destroy" /\ pass'.res = pass.res
        /\ pass'.counted = pass.counted /\ pass'.actual = pass.actual
        /\ pass'.todo = pass.todo \ {p}
    BY <1>3 DEF DestroyListed, IInv, Typed, Passes
  <2>3. NoneNew
    BY <1>3, DestroyCall DEF DestroyListed, IInv
  <2>4. \A q \in Pods : session'[q] # None => q \in left \cup pass.todo
    BY <1>3, <2>3 DEF DestroyListed, IInv, ToDestroy, NoneNew
  <2>5. CASE Answered(nodeOf[p], Destroyed(p)) /\ UNCHANGED left
    <3>1. session'[p] = None
      BY <2>5, DestroyedType DEF Answered, IInv
    <3>2. \A q \in Pods : session'[q] # None => q \in left' \cup pass'.todo
      BY <2>2, <2>4, <2>5, <3>1
    <3> QED
      BY <1>3, <2>1, <2>2, <2>3, <3>2, DeletionGoesOn DEF DestroyListed, NoneNew
  <2>6. CASE left' = left \cup {p}
    <3>1. \A q \in Pods : session'[q] # None => q \in left' \cup pass'.todo
      BY <2>2, <2>4, <2>6
    <3> QED
      BY <1>3, <2>1, <2>2, <2>3, <3>1, DeletionGoesOn DEF DestroyListed, NoneNew
  <2> QED
    BY <1>3, <2>5, <2>6 DEF DestroyListed
<1> QED
  BY <1>1, <1>2, <1>3

LEMMA NodesStep ==
    ASSUME IInv,
           \/ FindMatchingPods \/ NodeDone
           \/ \E n \in Hosts : QueryNode(n) \/ QueryFails(n) \/ SkipNode(n)
    PROVE  IInv'
<1>1. CASE FindMatchingPods
  <2>1. /\ pass' \in Passes /\ pass'.at = "nodes" /\ pass'.res = pass.res
        /\ pass'.counted = pass.counted /\ pass'.actual = pass.actual
    BY <1>1 DEF FindMatchingPods, IInv, Typed, Passes, Running
  <2>2. pass'.counted \subseteq seen' /\ DOMAIN pass'.actual \subseteq seen'
    BY <1>1, <2>1, SeenGrows DEF FindMatchingPods
  <2> QED
    BY <1>1, <2>1, <2>2, PassGoesOn DEF FindMatchingPods, IInv, Typed
<1>2. CASE NodeDone
  <2>1. /\ pass' \in Passes /\ pass'.at = "nodes" /\ pass'.res = pass.res
        /\ pass'.counted = pass.counted /\ DOMAIN pass'.actual = {}
    BY <1>2, EmptyAnswer DEF NodeDone, IInv, Typed, Passes
  <2>2. pass'.counted \subseteq seen' /\ DOMAIN pass'.actual \subseteq seen'
    BY <1>2, <2>1, SeenGrows DEF NodeDone
  <2>3. pass.at # "idle" /\ pass.res.finalizer
    BY <1>2 DEF NodeDone, IInv, Finalized
  <2> QED
    BY <1>2, <2>1, <2>2, <2>3, PassGoesOn DEF NodeDone, IInv, Typed
<1>3. ASSUME NEW n \in Hosts, QueryNode(n)
      PROVE  IInv'
  <2> DEFINE found == {p \in On(n) : session[p] # None}
             answer == [p \in found |-> session[p].spec]
  <2>1. found \in SUBSET Pods /\ \A p \in found : session[p] # None
    BY DEF On
  <2>2. answer \in [found -> SpecRecords]
    BY <2>1 DEF IInv, Typed, Sessions
  <2>3. answer \in Answers /\ DOMAIN answer = found
    BY <2>1, <2>2, SomeAnswer
  <2>4. /\ pass' = [pass EXCEPT !.at = "node", !.todo = @ \ On(n), !.here = pass.todo \cap On(n),
                                !.actual = answer, !.orphans = found \ pass.listed]
        /\ session' = session
    BY <1>3, QueryCall DEF QueryNode, IInv
  <2> HIDE DEF answer, found
  <2>5. /\ pass' \in Passes /\ pass'.at = "node" /\ pass'.res = pass.res
        /\ pass'.counted = pass.counted /\ pass'.actual = answer
    BY <2>1, <2>3, <2>4 DEF IInv, Typed, Passes
  <2>6. pass'.counted \subseteq seen' /\ DOMAIN pass'.actual \subseteq seen'
    BY <1>3, <2>1, <2>3, <2>4, <2>5, SeenGrows DEF QueryNode
  <2>7. pass.at # "idle" /\ pass.res.finalizer
    BY <1>3 DEF QueryNode, IInv, Finalized
  <2> QED
    BY <1>3, <2>4, <2>5, <2>6, <2>7, PassGoesOn DEF QueryNode, IInv, Typed
<1>4. ASSUME NEW n \in Hosts, QueryFails(n)
      PROVE  IInv'
  <2>1. /\ pass' \in Passes /\ pass'.at = "node" /\ pass'.res = pass.res
        /\ pass'.counted = pass.counted /\ pass'.actual = pass.actual
    BY <1>4 DEF QueryFails, IInv, Typed, Passes
  <2>2. pass'.counted \subseteq seen' /\ DOMAIN pass'.actual \subseteq seen'
    BY <1>4, <2>1, SeenGrows DEF QueryFails
  <2>3. pass.at # "idle" /\ pass.res.finalizer
    BY <1>4 DEF QueryFails, IInv, Finalized
  <2>4. session' = session
    BY <1>4, QueryCall DEF QueryFails, IInv
  <2> QED
    BY <1>4, <2>1, <2>2, <2>3, <2>4, PassGoesOn DEF QueryFails, IInv, Typed
<1>5. ASSUME NEW n \in Hosts, SkipNode(n)
      PROVE  IInv'
  <2>1. /\ pass' \in Passes /\ pass'.at = "nodes" /\ pass'.res = pass.res
        /\ pass'.counted = pass.counted /\ pass'.actual = pass.actual
    BY <1>5 DEF SkipNode, IInv, Typed, Passes
  <2>2. pass'.counted \subseteq seen' /\ DOMAIN pass'.actual \subseteq seen'
    BY <1>5, <2>1, SeenGrows DEF SkipNode
  <2>3. pass.at # "idle" /\ pass.res.finalizer
    BY <1>5 DEF SkipNode, IInv, Finalized
  <2> QED
    BY <1>5, <2>1, <2>2, <2>3, PassGoesOn DEF SkipNode, IInv, Typed
<1> QED
  BY <1>1, <1>2, <1>3, <1>4, <1>5

LEMMA SyncedPass ==
    ASSUME IInv, NEW p \in Pods, NEW ok \in BOOLEAN, pass.at = "node", Synced(p, ok)
    PROVE  /\ pass' \in Passes /\ pass'.at = "node" /\ pass'.res = pass.res
           /\ pass'.counted = (IF ok THEN pass.counted \cup {p} ELSE pass.counted)
           /\ pass'.actual = pass.actual
           /\ pass.at # "idle" /\ pass.res.finalizer
<1>1. CASE ok
  BY <1>1 DEF Synced, IInv, Typed, Passes, Finalized
<1>2. CASE ~ok
  BY <1>2 DEF Synced, IInv, Typed, Passes, Finalized
<1> QED
  BY <1>1, <1>2

LEMMA PodsStep ==
    ASSUME IInv, NEW p \in Pods,
           SkipPod(p) \/ SkipMatching(p) \/ CreateSession(p) \/ DestroyOrphan(p)
    PROVE  IInv'
<1>1. CASE SkipPod(p)
  <2>1. /\ pass' \in Passes /\ pass'.at = "node" /\ pass'.res = pass.res
        /\ pass'.counted = pass.counted /\ pass'.actual = pass.actual
        /\ pass.at # "idle" /\ pass.res.finalizer
    BY <1>1, SyncedPass DEF SkipPod
  <2>2. pass'.counted \subseteq seen' /\ DOMAIN pass'.actual \subseteq seen'
    BY <1>1, <2>1, SeenGrows DEF SkipPod
  <2> QED
    BY <1>1, <2>1, <2>2, PassGoesOn DEF SkipPod, IInv, Typed
<1>2. CASE SkipMatching(p)
  <2>1. /\ pass' \in Passes /\ pass'.at = "node" /\ pass'.res = pass.res
        /\ pass'.counted = pass.counted \cup {p} /\ pass'.actual = pass.actual
        /\ pass.at # "idle" /\ pass.res.finalizer
    BY <1>2, SyncedPass DEF SkipMatching
  <2>2. p \in DOMAIN pass.actual
    BY <1>2 DEF SkipMatching, ConfigMatches
  <2>3. pass'.counted \subseteq seen' /\ DOMAIN pass'.actual \subseteq seen'
    BY <1>2, <2>1, <2>2, SeenGrows DEF SkipMatching
  <2> QED
    BY <1>2, <2>1, <2>3, PassGoesOn DEF SkipMatching, IInv, Typed
<1>3. CASE CreateSession(p)
  <2>1. pass.res \in [generation : Nat, finalizer : BOOLEAN, deleting : BOOLEAN, spec : SpecRecords]
    BY <1>3, Stored DEF CreateSession, IInv, Typed, Finalized, Passes
  <2>2. pass.res.spec \in SpecRecords
    BY <2>1
  <2>3. session' \in [Pods -> Sessions]
    BY <1>3, <2>2, CreateCall DEF CreateSession, IInv
  <2>4. PICK ok \in BOOLEAN :
            Synced(p, ok) /\ (ok => Answered(nodeOf[p], Created(p, pass.res.spec)))
    BY <1>3 DEF CreateSession
  <2>5. /\ pass' \in Passes /\ pass'.at = "node" /\ pass'.res = pass.res
        /\ pass'.counted = (IF ok THEN pass.counted \cup {p} ELSE pass.counted)
        /\ pass'.actual = pass.actual
        /\ pass.at # "idle" /\ pass.res.finalizer
    BY <1>3, <2>4, SyncedPass DEF CreateSession
  <2>6. ok => session'[p] # None
    BY <2>2, <2>4, CreateCall DEF IInv
  <2>7. pass'.counted \subseteq seen' /\ DOMAIN pass'.actual \subseteq seen'
    BY <1>3, <2>5, <2>6, SeenGrows DEF CreateSession
  <2> QED
    BY <1>3, <2>3, <2>5, <2>7, PassGoesOn DEF CreateSession
<1>4. CASE DestroyOrphan(p)
  <2>1. /\ pass' \in Passes /\ pass'.at = "node" /\ pass'.res = pass.res
        /\ pass'.counted = pass.counted /\ pass'.actual = pass.actual
    BY <1>4 DEF DestroyOrphan, IInv, Typed, Passes
  <2>2. pass.at # "idle" /\ pass.res.finalizer
    BY <1>4 DEF DestroyOrphan, IInv, Finalized
  <2>3. session' \in [Pods -> Sessions]
    BY <1>4, DestroyCall DEF DestroyOrphan, IInv, NoneNew
  <2>4. pass'.counted \subseteq seen' /\ DOMAIN pass'.actual \subseteq seen'
    BY <1>4, <2>1, SeenGrows DEF DestroyOrphan
  <2> QED
    BY <1>4, <2>1, <2>2, <2>3, <2>4, PassGoesOn DEF DestroyOrphan
<1> QED
  BY <1>1, <1>2, <1>3, <1>4

-----------------------------------------------------------------------------
(* Theorems                                                                  *)

LEMMA Inductive == IInv /\ [RolloutNext]_rolloutVars => IInv'
<1> SUFFICES ASSUME IInv, [RolloutNext]_rolloutVars PROVE IInv'
  OBVIOUS
<1>1. CASE Pass
  BY <1>1, BeginOrEnd, DeletionStep, NodesStep, PodsStep DEF Pass
<1>2. CASE Cluster
  BY <1>2, ClusterStep
<1>3. CASE \/ \E n \in Hosts : Start(n)
           \/ \E p \in Pods : Registered(p) \/ InitContainer(p)
  BY <1>3, DaemonOrPodStep
<1>4. CASE UNCHANGED rolloutVars
  BY <1>4, SameSessions, OtherStep DEF rolloutVars, IInv, Typed
<1> QED
  BY <1>1, <1>2, <1>3, <1>4 DEF RolloutNext

LEMMA AlwaysIInv == RolloutSpec => []IInv
BY InitIInv, Inductive, PTL DEF RolloutSpec

\* Whatever crashes, calls that fail and edits interrupt a pass, and however
\* many pods and nodes there are, the reconciler counts a pod only if its
\* node's daemon had a session for it during the pass.
THEOREM CountsHonestly == RolloutSpec => []StatusHonest
<1>1. IInv => StatusHonest
  BY DEF IInv, Counted, StatusHonest
<1> QED
  BY <1>1, AlwaysIInv, PTL

\* handleDeletion, for any number of pods and nodes: without the finalizer
\* there are no sessions but the ones the deletion knowingly gave up.
THEOREM CleansUp == RolloutSpec => []DeletionCleansUp
<1>1. IInv => DeletionCleansUp
  BY DEF IInv, LeftOver, DeletionCleansUp
<1> QED
  BY <1>1, AlwaysIInv, PTL

=============================================================================
