--------------------------- MODULE EbpfNodeProofs ---------------------------
(***************************************************************************)
(* Proofs about the node that EbpfNode models, under either daemon, for    *)
(* any number of clients, sessions and files and any sizes of maps, ring,  *)
(* channel and broadcast ring: events are attributed to no program that    *)
(* their process had left, and a stream misses only what the broadcast     *)
(* ring had overwritten.  The steps of MCEbpf's scenes are steps of        *)
(* JanusNext and ArgusNext, which have no scenes.  ArgusdEbpfProofs is     *)
(* about argusd's handlers.                                                *)
(***************************************************************************)
EXTENDS MCEbpf, FiniteSetTheorems, SequenceTheorems, TLAPS

-----------------------------------------------------------------------------
(* The maps.                                                                 *)

\* A set of naturals has a least element: the one induction the proofs need.
LEMMA Least ==
  ASSUME NEW T, T \subseteq Nat, T # {}
  PROVE  \E m \in T : \A k \in T : m <= k
  <1> DEFINE R == {ss \in Nat \X Nat : ss[1] < ss[2]}
  <1>1. IsWellFoundedOn(R, Nat)
    BY NatLessThanWellFounded DEF OpToRel
  <1> HIDE DEF R
  <1>2. PICK x \in T : \A y \in T : ~ (<<y, x>> \in R)
    BY <1>1, WFMin
  <1>3. ASSUME NEW y \in T PROVE x <= y
    <2>1. x \in Nat /\ y \in Nat
      OBVIOUS
    <2>2. ~ (<<y, x>> \in R)
      BY <1>2
    <2>3. ~ (y < x)
      BY <2>1, <2>2 DEF R
    <2> QED BY <2>1, <2>3
  <1> QED BY <1>3

\* The fields of an outcome of a list that is added or removed.
LEMMA Outcome ==
  ASSUME NEW a, NEW b, NEW c, NEW r, r = [map |-> a, ok |-> b = c]
  PROVE  r.map = a /\ r.ok = (b = c)
  OBVIOUS

\* What InsertAll returns (the loop of add_guarded_prefix, add_watched_prefix
\* and add_deny_path).
LEMMA InsertOutcome ==
  ASSUME NEW map, NEW ps
  PROVE  LET r == InsertAll(map, ps)
             done == {i \in DOMAIN ps : Cardinality(map \cup {ps[j] : j \in 1..i}) <= MapSize}
         IN r.map = map \cup {ps[i] : i \in done} /\ r.ok = (done = DOMAIN ps)
  <1> DEFINE done == {i \in DOMAIN ps : Cardinality(map \cup {ps[j] : j \in 1..i}) <= MapSize}
             a == map \cup {ps[i] : i \in done}
             r == InsertAll(map, ps)
  <1>1. r = [map |-> map \cup {ps[i] : i \in done}, ok |-> done = DOMAIN ps]
    BY DEF InsertAll
  <1> HIDE DEF a, done, r
  <1>2. r = [map |-> a, ok |-> done = DOMAIN ps]
    BY <1>1 DEF a
  <1>3. r.map = a /\ r.ok = (done = DOMAIN ps)
    BY <1>2, Outcome
  <1> QED BY <1>3 DEF a, done, r

\* An insertion adds keys of the list only, and all of them if it succeeds.
LEMMA InsertAllFacts ==
  ASSUME NEW map, NEW ps \in Seq(Path)
  PROVE  LET r == InsertAll(map, ps)
         IN /\ map \subseteq r.map /\ r.map \subseteq map \cup Range(ps)
            /\ r.ok => r.map = map \cup Range(ps)
            /\ ps = <<>> => r.ok
            /\ r.ok \in BOOLEAN
  <1> DEFINE done == {i \in DOMAIN ps : Cardinality(map \cup {ps[j] : j \in 1..i}) <= MapSize}
             r == InsertAll(map, ps)
  <1>1. r.map = map \cup {ps[i] : i \in done} /\ r.ok = (done = DOMAIN ps)
    BY InsertOutcome
  <1>2. done \subseteq DOMAIN ps /\ Range(ps) = {ps[i] : i \in DOMAIN ps}
    BY DEF Range
  <1>3. ps = <<>> => DOMAIN ps = {}
    OBVIOUS
  <1> HIDE DEF done, r
  <1>4. map \subseteq r.map /\ r.map \subseteq map \cup Range(ps)
    BY <1>1, <1>2
  <1>5. r.ok => r.map = map \cup Range(ps)
    BY <1>1, <1>2
  <1>6. (ps = <<>> => r.ok) /\ r.ok \in BOOLEAN
    BY <1>1, <1>2, <1>3
  <1> QED BY <1>4, <1>5, <1>6 DEF r

\* A removal takes keys of the list only; it fails, with nothing removed, when
\* none of them is there, and succeeds when all are and none is twice on the
\* list.
LEMMA RemoveAllFacts ==
  ASSUME NEW map, NEW ps \in Seq(Path)
  PROVE  LET r == RemoveAll(map, ps)
         IN /\ r.map \subseteq map /\ map \ Range(ps) \subseteq r.map
            /\ r.ok => Range(ps) \subseteq map /\ r.map = map \ Range(ps)
            /\ Range(ps) \cap map = {} => r.map = map /\ (r.ok <=> ps = <<>>)
            /\ IsInjective(ps) /\ Range(ps) \subseteq map => r.ok
            /\ r.ok \in BOOLEAN
  <1> DEFINE done == {i \in DOMAIN ps :
                        \A j \in 1..i : ps[j] \in map \ {ps[k] : k \in 1 .. j - 1}}
             r == RemoveAll(map, ps)
  <1>r. r = [map |-> map \ {ps[i] : i \in done}, ok |-> done = DOMAIN ps]
    BY DEF RemoveAll
  <1>d. Len(ps) \in Nat /\ DOMAIN ps = 1 .. Len(ps) /\ Range(ps) = {ps[i] : i \in 1 .. Len(ps)}
    BY LenProperties, RangeEquality
  <1>1. \A i \in done : ps[i] \in map /\ ps[i] \in Range(ps)
    BY <1>d
  <1>a. r.map = map \ {ps[i] : i \in done} /\ r.ok = (done = DOMAIN ps)
    <2> DEFINE a == map \ {ps[i] : i \in done}
    <2> HIDE DEF a, done, r
    <2>1. r = [map |-> a, ok |-> done = DOMAIN ps]
      BY <1>r DEF a
    <2>2. r.map = a /\ r.ok = (done = DOMAIN ps)
      BY <2>1, Outcome
    <2> QED BY <2>2 DEF a
  <1>2. r.map = map \ {ps[i] : i \in done} /\ (r.ok <=> done = DOMAIN ps) /\ r.ok \in BOOLEAN
    BY <1>a
  <1>3. r.map \subseteq map /\ map \ Range(ps) \subseteq r.map
    BY <1>1, <1>2
  <1>4. ASSUME r.ok PROVE Range(ps) \subseteq map /\ r.map = map \ Range(ps)
    <2>1. done = 1 .. Len(ps)
      BY <1>2, <1>4, <1>d
    <2> QED BY <2>1, <1>1, <1>2, <1>d
  <1>5. ASSUME Range(ps) \cap map = {} PROVE r.map = map /\ (r.ok <=> ps = <<>>)
    <2>1. done = {}
      BY <1>1, <1>5
    <2>2. DOMAIN ps = {} <=> ps = <<>>
      BY <1>d, EmptySeq
    <2> QED BY <1>2, <2>1, <2>2
  <1>6. ASSUME IsInjective(ps), Range(ps) \subseteq map PROVE r.ok
    <2>1. ASSUME NEW i \in DOMAIN ps, NEW j \in 1..i
          PROVE  ps[j] \in map \ {ps[k] : k \in 1 .. j - 1}
      BY <1>d, <1>6 DEF IsInjective
    <2>2. done = DOMAIN ps
      BY <2>1
    <2> QED BY <1>2, <2>2
  <1> QED BY <1>2, <1>3, <1>4, <1>5, <1>6

\* However long the list, an insertion never overfills the map.
LEMMA InsertAllFits ==
  ASSUME NEW map, NEW ps \in Seq(Path), IsFiniteSet(map), Cardinality(map) <= MapSize
  PROVE  /\ IsFiniteSet(InsertAll(map, ps).map)
         /\ Cardinality(InsertAll(map, ps).map) <= MapSize
  <1> DEFINE Keyed(i) == {ps[j] : j \in 1..i}
             done == {i \in DOMAIN ps : Cardinality(map \cup {ps[j] : j \in 1..i}) <= MapSize}
             Last == {i \in Nat : i + 1 \notin done}
  <1>d. Len(ps) \in Nat /\ DOMAIN ps = 1 .. Len(ps)
    BY LenProperties
  <1>f. ASSUME NEW i \in Nat
        PROVE  IsFiniteSet(Keyed(i)) /\ IsFiniteSet(map \cup Keyed(i))
    <2> DEFINE f == [j \in 1..i |-> ps[j]]
    <2>1. f \in Surjection(1..i, Keyed(i))
      BY DEF Surjection
    <2>2. IsFiniteSet(1..i)
      BY FS_Interval
    <2>3. IsFiniteSet(Keyed(i))
      BY <2>1, <2>2, FS_Surjection
    <2> QED BY <2>3, FS_Union
  <1>c. \A i \in Nat : Cardinality(map \cup Keyed(i)) \in Nat
    BY <1>f, FS_CardinalityType
  <1>m. MapSize \in Nat
    BY NodeConstants
  <1>1. PICK m \in Last : \A k \in Last : m <= k
    <2>1. Len(ps) \in Last
      BY <1>d
    <2> QED BY <2>1, Least
  <1>2. \A k \in 1..m : k \in done
    <2> SUFFICES ASSUME NEW k \in 1..m PROVE k \in done
      OBVIOUS
    <2>1. k - 1 \in Nat /\ ~(m <= k - 1) /\ (k - 1) + 1 = k
      OBVIOUS
    <2>2. k - 1 \notin Last
      BY <1>1, <2>1
    <2> QED BY <2>1, <2>2
  <1>3. \A i \in done : i \in 1..m
    <2> SUFFICES ASSUME NEW i \in done, i \notin 1..m PROVE FALSE
      OBVIOUS
    <2>1. i \in Nat /\ m + 1 \in 1..i /\ m + 1 \in DOMAIN ps
      BY <1>d
    <2>2. (map \cup Keyed(m + 1)) \subseteq (map \cup Keyed(i))
      BY <2>1
    <2>3. Cardinality(map \cup Keyed(m + 1)) <= Cardinality(map \cup Keyed(i))
      BY <1>f, <2>1, <2>2, FS_Subset
    <2>4. Cardinality(map \cup Keyed(i)) <= MapSize
      OBVIOUS
    <2>5. Cardinality(map \cup Keyed(m + 1)) \in Nat /\ Cardinality(map \cup Keyed(i)) \in Nat
      <3>1. m + 1 \in Nat /\ i \in Nat
        BY <2>1
      <3> HIDE DEF Keyed
      <3> QED BY <1>c, <3>1
    <2>6. m + 1 \in done
      BY <1>m, <2>1, <2>3, <2>4, <2>5
    <2> QED BY <2>6
  <1>4. done = 1..m
    BY <1>2, <1>3
  <1>5. InsertAll(map, ps).map = map \cup Keyed(m)
    <2> DEFINE r == InsertAll(map, ps)
    <2>1. r.map = map \cup {ps[i] : i \in done} /\ r.ok = (done = DOMAIN ps)
      BY InsertOutcome
    <2> HIDE DEF done
    <2> QED BY <1>4, <2>1
  <1>6. CASE m = 0
    <2>1. map \cup Keyed(m) = map
      BY <1>6
    <2> QED BY <1>5, <2>1
  <1>7. CASE m # 0
    <2>1. m \in done
      <3> HIDE DEF done
      <3>1. m \in 1..m
        BY <1>7
      <3> QED BY <1>2, <3>1
    <2> QED BY <1>5, <1>f, <2>1
  <1> QED BY <1>6, <1>7

-----------------------------------------------------------------------------
(* The steps of the daemons.                                                 *)

\* The entries of the log that janusd's stream of denials lets through, ...
Denials == {i \in DOMAIN log : NotAllowed(log[i])}

\* ... and those that argusd's stream of one watch does.
OfKey(k) == {i \in DOMAIN log : StreamFilterMatches(k, log[i])}

\* The steps that both daemons have.
NodeSteps ==
    \/ EventLoop \/ Receive \/ GetCachedProcess \/ ReadSessions \/ Forwarded
    \/ \E f \in Files : FileAccess(f)
    \/ Exec \/ Exit \/ Evict \/ Subscribe \/ StreamLagged
    \/ \E c \in Clients : Cancel(c)

\* Every step of a node of janusd, and of its surroundings, in any order, ...
JanusNext ==
    \/ NodeSteps \/ GuardStarts \/ ForwardAccess
    \/ \E c \in Clients : GuardSteps(c)
    \/ StreamEvent(Denials) \/ StreamEnds(Denials)

\* ... and of a node of argusd.
ArgusNext ==
    \/ NodeSteps \/ WatchStarts \/ ForwardFileEvent
    \/ \E c \in Clients : WatchSteps(c)
    \/ StreamEvent(OfKey(one)) \/ StreamEnds(OfKey(one))

-----------------------------------------------------------------------------
(* What is outside of the handlers.                                          *)

\* The state the handlers leave alone, their loading of the programs apart.
node == <<loader, enabled, traced, process, events, fwd, out>>

\* A step of the node, whatever the handlers do in it.
NodeMoves(passing) ==
    \/ EventLoop \/ Receive \/ GetCachedProcess \/ ReadSessions \/ Forwarded
    \/ \E f \in Files : FileAccess(f)
    \/ Exec \/ Exit \/ Evict \/ Subscribe \/ StreamLagged
    \/ \E c \in Clients : EnsureInit(c) \/ Load(c)
    \/ \E s \in DOMAIN sess, x \in {"allow", "deny", "event"} : ForwardTo(s, x)
    \/ StreamEvent(passing) \/ StreamEnds(passing)
    \/ UNCHANGED node

Event == [path : Files, program : 1..program]

Entry == [event : Event, to : Nat, exe : 0..program, response : {"allow", "deny", "event"}]

Forwarder ==
    \/ fwd.at \in {"off", "recv"}
    \/ fwd = [at |-> "lookup", event |-> fwd.event] /\ fwd.event \in Event
    \/ /\ fwd = [at |-> "sessions", event |-> fwd.event, exe |-> fwd.exe]
       /\ fwd.event \in Event /\ fwd.exe \in 0..program
    \/ /\ fwd = [at |-> "each", event |-> fwd.event, exe |-> fwd.exe, todo |-> fwd.todo]
       /\ fwd.event \in Event /\ fwd.exe \in 0..program

NTypeOK ==
    /\ loader \in {"none", "attached", "ready"}
    /\ enabled \in BOOLEAN
    /\ traced \in {"none", "exec", "both"}
    /\ program \in 1..MaxPrograms /\ cached \in 0..program
    /\ ring \in Seq(Event) /\ Len(ring) <= RingSize
    /\ channel \in Seq(Event) /\ Len(channel) <= ChannelSize
    /\ accesses \in 0..MaxAccesses
    /\ Forwarder
    /\ log \in Seq(Entry)

\* A program that an event was found to have is none that its process had left.
NotOlder(exe, event) == exe = 0 \/ exe >= event.program

Found == fwd.at \in {"sessions", "each"}

\* Nothing is cached before the tracepoints are attached, and with both of them only what runs.
Attributed ==
    /\ loader # "ready" => traced = "none"
    /\ traced = "none" =>
         cached = 0 /\ (Found => fwd.exe = 0) /\ \A i \in DOMAIN log : log[i].exe = 0
    /\ traced = "both" => cached \in {0, program}
    /\ traced # "exec" =>
         /\ Found => NotOlder(fwd.exe, fwd.event)
         /\ \A i \in DOMAIN log : NotOlder(log[i].exe, log[i].event)

NInv == NTypeOK /\ Attributed

\* A stream before its first step, and later.
StreamInv(passing) ==
    /\ stream \in [at : {"off", "on", "ended"}, first : Nat \ {0}, next : Nat \ {0}, got : Seq(Nat)]
    /\ stream.at = "off" => stream.got = <<>> /\ stream.first = stream.next
    /\ stream.first <= stream.next /\ stream.next <= Len(log) + 1
    /\ StreamIsComplete(passing)

\* Every entry of the log has the session it was forwarded to.
Logged == \A i \in DOMAIN log : log[i].to \in DOMAIN sess

\* Events stay events when the process gets a new program.
LEMMA EventsStay ==
  ASSUME program \in Nat, program' \in Nat, program <= program'
  PROVE  Event \subseteq Event' /\ Entry \subseteq Entry'
  BY DEF Event, Entry

\* A sequence of elements of S is one of elements of a larger set.
LEMMA SeqWider ==
  ASSUME NEW S, NEW T, S \subseteq T, NEW q \in Seq(S)
  PROVE  q \in Seq(T)
  OBVIOUS

\* The sizes are numbers.
LEMMA Sizes ==
  /\ MapSize \in Nat /\ RingSize \in Nat /\ ChannelSize \in Nat /\ Capacity \in Nat
  /\ MaxCalls \in Nat /\ MaxAccesses \in Nat /\ MaxPrograms \in Nat /\ MaxPrograms > 0
  BY NodeConstants

\* The empty sequence.
LEMMA NothingQueued ==
  ASSUME NEW S
  PROVE  <<>> \in Seq(S) /\ Len(<<>>) = 0
  OBVIOUS

\* The node before its programs are loaded.
LEMMA NodeStart ==
  ASSUME NodeInit
  PROVE  NInv
  <1>1. NTypeOK
    <2>1. ring \in Seq(Event) /\ channel \in Seq(Event) /\ log \in Seq(Entry)
      BY NothingQueued DEF NodeInit
    <2>2. Len(ring) <= RingSize /\ Len(channel) <= ChannelSize
      BY NothingQueued, Sizes DEF NodeInit
    <2>3. program \in 1..MaxPrograms /\ cached \in 0..program /\ accesses \in 0..MaxAccesses
      BY Sizes DEF NodeInit
    <2> QED BY <2>1, <2>2, <2>3 DEF NodeInit, NTypeOK, Forwarder
  <1>2. Attributed
    BY DEF NodeInit, Attributed, Found
  <1> QED BY <1>1, <1>2 DEF NInv

\* A step that changes neither program, loader, tracepoints nor log.
LEMMA NodeLoads ==
  ASSUME NInv, StartLoading \/ FinishLoading \/ LoadingFails
  PROVE  NInv'
  <1>1. /\ program' = program /\ cached' = cached /\ channel' = channel /\ accesses' = accesses
        /\ log' = log /\ Event' = Event /\ Entry' = Entry
    BY DEF StartLoading, FinishLoading, LoadingFails, process, events, out, Event, Entry
  <1>2. /\ loader' \in {"none", "attached", "ready"} /\ enabled' \in BOOLEAN
        /\ traced' \in {"none", "exec", "both"}
        /\ ring' \in {ring, <<>>}
        /\ fwd' \in {fwd, [at |-> "recv"]}
        /\ loader # "ready" /\ (loader' # "ready" => traced' = "none")
    BY DEF NInv, NTypeOK, Attributed, StartLoading, FinishLoading, LoadingFails, kernel, events
  <1>3. Forwarder'
    BY <1>1, <1>2 DEF NInv, NTypeOK, Forwarder
  <1>4. NTypeOK'
    <2>1. ring' \in Seq(Event) /\ Len(ring') <= RingSize
      <3>1. CASE ring' = ring
        BY <3>1 DEF NInv, NTypeOK
      <3>2. CASE ring' = <<>>
        BY <3>2, Sizes, NothingQueued
      <3> QED BY <1>2, <3>1, <3>2
    <2> QED BY <1>1, <1>2, <1>3, <2>1 DEF NInv, NTypeOK
  <1>5. /\ cached = 0 /\ \A i \in DOMAIN log : log[i].exe = 0
        /\ Found' => fwd'.exe = 0
    BY <1>2 DEF NInv, Attributed, Found
  <1>6. Attributed'
    BY <1>1, <1>2, <1>5 DEF Attributed, NotOlder
  <1> QED BY <1>4, <1>6 DEF NInv

\* The tracepoints keep the cache at what runs, or empty.
LEMMA ProgramChanges ==
  ASSUME NInv, Exec \/ Exit \/ Evict
  PROVE  NInv'
  <1>1. /\ loader' = loader /\ enabled' = enabled /\ traced' = traced /\ ring' = ring
        /\ channel' = channel /\ accesses' = accesses /\ fwd' = fwd /\ log' = log
    BY DEF Exec, Exit, Evict, kernel, events, out
  <1>2. /\ program \in 1..MaxPrograms /\ cached \in 0..program /\ MaxPrograms \in Nat
        /\ traced = "none" => cached = 0
    BY Sizes DEF NInv, NTypeOK, Attributed
  <1>3. /\ program' \in 1..MaxPrograms /\ program <= program' /\ cached' \in 0..program'
        /\ traced = "none" => cached' = 0
        /\ traced = "both" => cached' \in {0, program'}
    BY <1>2 DEF Exec, Exit, Evict, NInv, Attributed
  <1>4. Event \subseteq Event' /\ Entry \subseteq Entry'
    BY <1>2, <1>3, EventsStay
  <1>5. Forwarder'
    BY <1>1, <1>2, <1>3, <1>4 DEF NInv, NTypeOK, Forwarder
  <1>6. ring \in Seq(Event') /\ channel \in Seq(Event') /\ log \in Seq(Entry')
    BY <1>4, SeqWider DEF NInv, NTypeOK
  <1>7. NTypeOK'
    BY <1>1, <1>3, <1>5, <1>6 DEF NInv, NTypeOK
  <1>8. Attributed'
    BY <1>1, <1>3 DEF NInv, Attributed, Found, NotOlder
  <1> QED BY <1>7, <1>8 DEF NInv

\* An access puts an event of the program that runs into the ring buffer.
LEMMA AccessesKeep ==
  ASSUME NInv, NEW f \in Files, FileAccess(f)
  PROVE  NInv'
  <1>1. /\ loader' = loader /\ enabled' = enabled /\ traced' = traced /\ program' = program
        /\ cached' = cached /\ channel' = channel /\ fwd' = fwd /\ log' = log
        /\ Event' = Event /\ Entry' = Entry
    BY DEF FileAccess, kernel, process, out, Event, Entry
  <1>2. accesses' \in 0..MaxAccesses
    BY Sizes DEF FileAccess, NInv, NTypeOK
  <1>3. [path |-> f, program |-> program] \in Event
    BY Sizes DEF NInv, NTypeOK, Event
  <1>4. ring' = ring \/ (Len(ring) < RingSize /\ ring' = Append(ring, [path |-> f, program |-> program]))
    BY DEF FileAccess
  <1>5. ring' \in Seq(Event) /\ Len(ring') <= RingSize
    <2>1. ring \in Seq(Event) /\ Len(ring) <= RingSize /\ Len(ring) \in Nat
      BY LenProperties DEF NInv, NTypeOK
    <2>2. CASE ring' = ring
      BY <2>1, <2>2
    <2>3. CASE Len(ring) < RingSize /\ ring' = Append(ring, [path |-> f, program |-> program])
      <3>1. ring' \in Seq(Event) /\ Len(ring') = Len(ring) + 1
        BY <1>3, <2>1, <2>3, AppendProperties
      <3> QED BY <2>1, <2>3, <3>1, Sizes
    <2> QED BY <1>4, <2>2, <2>3
  <1>6. NTypeOK'
    BY <1>1, <1>2, <1>5 DEF NInv, NTypeOK, Forwarder
  <1>7. Attributed'
    BY <1>1 DEF NInv, Attributed, Found
  <1> QED BY <1>6, <1>7 DEF NInv

\* Events move through the channel.
LEMMA EventLoopKeeps ==
  ASSUME NInv, EventLoop
  PROVE  NInv'
  <1>1. /\ loader' = loader /\ enabled' = enabled /\ traced' = traced /\ program' = program
        /\ cached' = cached /\ accesses' = accesses /\ fwd' = fwd /\ log' = log
        /\ Event' = Event /\ Entry' = Entry
    BY DEF EventLoop, kernel, process, out, Event, Entry
  <1>2. ring \in Seq(Event) /\ ring # <<>> /\ Len(ring) <= RingSize
    BY DEF EventLoop, NInv, NTypeOK
  <1>3. ring' \in Seq(Event) /\ Len(ring') <= RingSize /\ Head(ring) \in Event
    BY <1>2, Sizes DEF EventLoop
  <1>4. channel' \in Seq(Event) /\ Len(channel') <= ChannelSize
    BY <1>3, Sizes DEF EventLoop, NInv, NTypeOK
  <1>5. NTypeOK'
    BY <1>1, <1>3, <1>4 DEF NInv, NTypeOK, Forwarder
  <1>6. Attributed'
    BY <1>1 DEF NInv, Attributed, Found
  <1> QED BY <1>5, <1>6 DEF NInv

\* The forwarder asks for the program of an event's process.
LEMMA ForwarderKeeps ==
  ASSUME NInv, Receive \/ GetCachedProcess \/ ReadSessions \/ Forwarded
  PROVE  NInv'
  <1>1. /\ loader' = loader /\ enabled' = enabled /\ traced' = traced /\ program' = program
        /\ cached' = cached /\ ring' = ring /\ accesses' = accesses /\ log' = log
        /\ Event' = Event /\ Entry' = Entry
    BY DEF Receive, GetCachedProcess, ReadSessions, Forwarded, kernel, process, events, out, Event, Entry
  <1>2. /\ program \in 1..MaxPrograms /\ cached \in 0..program /\ MaxPrograms \in Nat
    BY Sizes DEF NInv, NTypeOK
  <1>3. CASE Receive
    <2>1. channel \in Seq(Event) /\ channel # <<>> /\ Len(channel) <= ChannelSize
      BY <1>3 DEF Receive, NInv, NTypeOK
    <2>2. /\ Head(channel) \in Event /\ channel' \in Seq(Event) /\ Len(channel') <= ChannelSize
      BY <1>3, <2>1, Sizes DEF Receive
    <2>3. Forwarder'
      BY <1>1, <1>3, <2>2 DEF Receive, Forwarder
    <2>4. NTypeOK'
      BY <1>1, <2>2, <2>3 DEF NInv, NTypeOK
    <2>5. Attributed'
      BY <1>1, <1>3 DEF Receive, NInv, Attributed, Found
    <2> QED BY <2>4, <2>5 DEF NInv
  <1>4. CASE GetCachedProcess
    <2>1. channel' = channel /\ fwd' = [at |-> "sessions", event |-> fwd.event, exe |-> cached]
      BY <1>4 DEF GetCachedProcess, events
    <2>2. fwd.event \in Event
      BY <1>4 DEF GetCachedProcess, NInv, NTypeOK, Forwarder
    <2>3. Forwarder'
      BY <1>1, <1>2, <2>1, <2>2 DEF Forwarder
    <2>4. NTypeOK'
      BY <1>1, <2>1, <2>3 DEF NInv, NTypeOK
    <2>5. traced # "exec" => NotOlder(cached, fwd.event)
      BY <1>2, <2>2 DEF NInv, NTypeOK, Attributed, NotOlder, Event
    <2>6. Attributed'
      BY <1>1, <2>1, <2>5 DEF NInv, Attributed, Found, NotOlder
    <2> QED BY <2>4, <2>6 DEF NInv
  <1>5. CASE ReadSessions
    <2>1. /\ channel' = channel
          /\ fwd' = [at |-> "each", event |-> fwd.event, exe |-> fwd.exe, todo |-> Registered]
      BY <1>5 DEF ReadSessions, events
    <2>r. fwd.at = "sessions" /\ Forwarder /\ Attributed
      BY <1>5 DEF ReadSessions, NInv, NTypeOK
    <2>2. fwd.event \in Event /\ fwd.exe \in 0..program /\ Found
      BY <2>r DEF Forwarder, Found, Attributed
    <2>3. Forwarder'
      BY <1>1, <2>1, <2>2 DEF Forwarder
    <2>4. NTypeOK'
      BY <1>1, <2>1, <2>3 DEF NInv, NTypeOK
    <2>5. Attributed'
      BY <1>1, <2>1, <2>2 DEF NInv, Attributed, NotOlder
    <2> QED BY <2>4, <2>5 DEF NInv
  <1>6. CASE Forwarded
    <2>1. channel' = channel /\ fwd' = [at |-> "recv"]
      BY <1>6 DEF Forwarded, events
    <2>2. Forwarder' /\ ~Found'
      BY <2>1 DEF Forwarder, Found
    <2>3. NTypeOK'
      BY <1>1, <2>1, <2>2 DEF NInv, NTypeOK
    <2>4. Attributed'
      BY <1>1, <2>2 DEF NInv, Attributed, NotOlder
    <2> QED BY <2>3, <2>4 DEF NInv
  <1> QED BY <1>3, <1>4, <1>5, <1>6

\* What the forwarder broadcasts has the program it found.
LEMMA ForwardKeeps ==
  ASSUME NInv, NEW s \in Nat, NEW x \in {"allow", "deny", "event"}, ForwardTo(s, x)
  PROVE  NInv'
  <1>1. /\ loader' = loader /\ enabled' = enabled /\ traced' = traced /\ program' = program
        /\ cached' = cached /\ ring' = ring /\ channel' = channel /\ accesses' = accesses
        /\ Event' = Event /\ Entry' = Entry
    BY DEF ForwardTo, kernel, process, events, Event, Entry
  <1>2. /\ fwd = [at |-> "each", event |-> fwd.event, exe |-> fwd.exe, todo |-> fwd.todo]
        /\ fwd.event \in Event /\ fwd.exe \in 0..program /\ Found
    BY DEF ForwardTo, NInv, NTypeOK, Forwarder, Found
  <1>3. fwd' = [at |-> "each", event |-> fwd.event, exe |-> fwd.exe, todo |-> fwd.todo \ {s}]
    BY <1>2 DEF ForwardTo
  <1>4. Forwarder'
    BY <1>1, <1>2, <1>3 DEF Forwarder
  <1> DEFINE e == [event |-> fwd.event, to |-> s, exe |-> fwd.exe, response |-> x]
  <1>5. e \in Entry /\ e.exe = fwd.exe /\ e.event = fwd.event
    BY <1>2 DEF Entry
  <1>6. log' = log \/ log' = Append(log, e)
    BY DEF ForwardTo
  <1> HIDE DEF e
  <1>7. log \in Seq(Entry)
    BY DEF NInv, NTypeOK
  <1>8. log' \in Seq(Entry) /\ \A i \in DOMAIN log' : log'[i] = e \/ (i \in DOMAIN log /\ log'[i] = log[i])
    BY <1>5, <1>6, <1>7
  <1>9. NTypeOK'
    BY <1>1, <1>4, <1>8 DEF NInv, NTypeOK
  <1>10. Found' /\ fwd'.exe = fwd.exe /\ fwd'.event = fwd.event
    BY <1>3 DEF Found
  <1>11. Attributed'
    BY <1>1, <1>2, <1>5, <1>8, <1>10 DEF NInv, Attributed, NotOlder
  <1> QED BY <1>9, <1>11 DEF NInv

\* NInv is about these variables only.
LEMMA NodeIdles ==
  ASSUME NInv, UNCHANGED <<loader, enabled, traced, program, cached, ring, channel, accesses, fwd, log>>
  PROVE  NInv'
  <1>1. Event' = Event /\ Entry' = Entry
    BY DEF Event, Entry
  <1>2. NTypeOK'
    BY <1>1 DEF NInv, NTypeOK, Forwarder
  <1>3. Attributed'
    BY DEF NInv, Attributed, Found
  <1> QED BY <1>2, <1>3 DEF NInv

\* Every step of a node, whatever its handlers do in it, keeps NInv.
LEMMA NodeKeeps ==
  ASSUME NInv, DOMAIN sess \subseteq Nat, NEW p, NodeMoves(p)
  PROVE  NInv'
  <1>1. CASE \E f \in Files : FileAccess(f)
    BY <1>1, AccessesKeep
  <1>2. CASE \E c \in Clients : EnsureInit(c) \/ Load(c)
    <2>1. StartLoading \/ FinishLoading \/ LoadingFails \/ UNCHANGED node
      BY <1>2 DEF EnsureInit, Load, node, kernel
    <2> QED BY <2>1, NodeLoads, NodeIdles DEF node, process, events, out
  <1>3. CASE \E s \in DOMAIN sess, x \in {"allow", "deny", "event"} : ForwardTo(s, x)
    BY <1>3, ForwardKeeps
  <1>4. CASE UNCHANGED node
    BY <1>4, NodeIdles DEF node, process, events, out
  <1>5. CASE Subscribe \/ StreamLagged \/ StreamEvent(p) \/ StreamEnds(p)
    BY <1>5, NodeIdles DEF Subscribe, StreamLagged, StreamEvent, StreamEnds, Streaming, kernel, process, events
  <1> QED BY <1>1, <1>2, <1>3, <1>4, <1>5, EventLoopKeeps, ForwarderKeeps, ProgramChanges DEF NodeMoves

-----------------------------------------------------------------------------
(* The stream.                                                               *)

\* A stream that was not opened has missed nothing.
LEMMA StreamStart ==
  ASSUME NEW p, NodeInit
  PROVE  StreamInv(p)
  <1>1. stream = [at |-> "off", first |-> 1, next |-> 1, got |-> <<>>] /\ log = <<>>
    BY DEF NodeInit
  <1>2. /\ stream \in [at : {"off", "on", "ended"}, first : Nat \ {0}, next : Nat \ {0}, got : Seq(Nat)]
        /\ stream.first = 1 /\ stream.next = 1 /\ stream.got = <<>>
    BY <1>1
  <1>3. StreamIsComplete(p)
    BY <1>2 DEF StreamIsComplete, Range
  <1> QED BY <1>1, <1>2, <1>3 DEF StreamInv

\* What the ring has overwritten it does not get back.
LEMMA OldestGrows ==
  ASSUME Len(log) \in Nat, Len(log') \in Nat, Len(log) <= Len(log')
  PROVE  Oldest \in Nat /\ Oldest' \in Nat /\ Oldest <= Oldest' /\ Oldest >= 1 /\ Oldest <= Len(log) + 1
  BY Sizes DEF Oldest

\* The log grows, and what it had passes the filter as before.
LEMMA StreamWaits ==
  ASSUME NEW p, NEW q, StreamInv(p), UNCHANGED stream,
         Len(log) \in Nat, Len(log') \in Nat, Len(log) <= Len(log'),
         q \cap (1 .. Len(log)) = p \cap (1 .. Len(log))
  PROVE  StreamInv(q)'
  <1>1. Oldest \in Nat /\ Oldest' \in Nat /\ Oldest <= Oldest'
    BY OldestGrows
  <1>2. /\ stream.first \in Nat \ {0} /\ stream.next \in Nat \ {0}
        /\ stream.first <= stream.next /\ stream.next <= Len(log) + 1
    BY DEF StreamInv
  <1>3. stream.first .. stream.next - 1 \subseteq 1 .. Len(log)
    BY <1>2
  <1>4. q \cap (stream.first .. stream.next - 1) = p \cap (stream.first .. stream.next - 1)
    BY <1>3
  <1>5. p \cap (stream.first .. stream.next - 1) \subseteq Nat
    BY <1>3
  <1>6. StreamIsComplete(q)'
    BY <1>1, <1>4, <1>5 DEF StreamInv, StreamIsComplete
  <1> QED BY <1>2, <1>6 DEF StreamInv

\* A stream is handed what passes its filter, in order.
LEMMA StreamMoves ==
  ASSUME NEW p, StreamInv(p), Len(log) \in Nat,
         Subscribe \/ StreamLagged \/ StreamEvent(p) \/ StreamEnds(p)
  PROVE  StreamInv(p)'
  <1>1. log' = log /\ Oldest' = Oldest
    BY DEF Subscribe, StreamLagged, StreamEvent, StreamEnds, Streaming, Oldest
  <1>2. Oldest \in Nat /\ Oldest >= 1 /\ Oldest <= Len(log) + 1
    BY <1>1, OldestGrows
  <1>3. /\ stream \in [at : {"off", "on", "ended"}, first : Nat \ {0}, next : Nat \ {0}, got : Seq(Nat)]
        /\ stream.first <= stream.next /\ stream.next <= Len(log) + 1
        /\ stream.at = "off" => stream.got = <<>> /\ stream.first = stream.next
    BY DEF StreamInv
  <1>4. PICK from, next, got : from = stream.first /\ next = stream.next /\ got = stream.got
    OBVIOUS
  <1>5. from \in Nat \ {0} /\ next \in Nat \ {0} /\ from <= next /\ next <= Len(log) + 1 /\ got \in Seq(Nat)
    BY <1>3, <1>4
  <1>6. /\ \A i \in 1 .. Len(got) - 1 : got[i] < got[i + 1]
        /\ Range(got) \subseteq p \cap (from .. next - 1)
        /\ \A i \in (p \cap (from .. next - 1)) \ Range(got) : i < Oldest
    BY <1>4 DEF StreamInv, StreamIsComplete
  <1>7. CASE Subscribe
    <2>1. stream' = [at |-> "on", first |-> Len(log) + 1, next |-> Len(log) + 1, got |-> <<>>]
      BY <1>3, <1>7 DEF Subscribe
    <2>2. /\ stream' \in [at : {"off", "on", "ended"}, first : Nat \ {0}, next : Nat \ {0}, got : Seq(Nat)]
          /\ stream'.first = Len(log) + 1 /\ stream'.next = Len(log) + 1 /\ stream'.got = <<>>
          /\ stream'.at = "on"
      BY <2>1
    <2>3. stream'.first .. stream'.next - 1 = {} /\ Range(stream'.got) = {} /\ 1 .. Len(stream'.got) - 1 = {}
      BY <2>2 DEF Range
    <2>4. StreamIsComplete(p)'
      BY <2>3 DEF StreamIsComplete
    <2> QED BY <1>1, <2>2, <2>4 DEF StreamInv
  <1>8. CASE StreamLagged
    <2>1. /\ stream' = [at |-> "on", first |-> from, next |-> Oldest, got |-> got] /\ next < Oldest
      BY <1>3, <1>4, <1>8 DEF StreamLagged
    <2>2. /\ stream' \in [at : {"off", "on", "ended"}, first : Nat \ {0}, next : Nat \ {0}, got : Seq(Nat)]
          /\ stream'.first = from /\ stream'.next = Oldest /\ stream'.got = got /\ stream'.at = "on"
      BY <1>2, <1>5, <2>1
    <2>3. \A i \in from .. Oldest - 1 : i < Oldest
      BY <1>2, <1>5
    <2>4. p \cap (from .. next - 1) \subseteq p \cap (from .. Oldest - 1)
      BY <1>2, <1>5, <2>1
    <2>5. StreamIsComplete(p)'
      BY <1>1, <1>6, <2>2, <2>3, <2>4 DEF StreamIsComplete
    <2>6. from <= Oldest /\ Oldest <= Len(log) + 1
      BY <1>2, <1>5, <2>1
    <2>7. Len(log)' = Len(log)
      BY <1>1
    <2> QED BY <2>2, <2>5, <2>6, <2>7 DEF StreamInv
  <1>9. CASE StreamEvent(p)
    <2>1. next \in Oldest .. Len(log)
      BY <1>4, <1>9 DEF StreamEvent
    <2>2. PICK more : more = IF next \in p THEN Append(got, next) ELSE got
      OBVIOUS
    <2>3. stream' = [at |-> "on", first |-> from, next |-> next + 1, got |-> more]
      BY <1>3, <1>4, <1>9, <2>2 DEF StreamEvent
    <2>4. \A i \in 1 .. Len(got) : got[i] < next
      <3>1. ASSUME NEW i \in 1 .. Len(got) PROVE got[i] < next
        <4>1. got[i] \in Range(got)
          BY <1>5 DEF Range
        <4>2. got[i] \in from .. next - 1
          BY <1>6, <4>1
        <4> QED BY <1>5, <4>2
      <3> QED BY <3>1
    <2>5. /\ more \in Seq(Nat)
          /\ \A i \in 1 .. Len(more) - 1 : more[i] < more[i + 1]
          /\ Range(more) = IF next \in p THEN Range(got) \cup {next} ELSE Range(got)
      <3>1. CASE next \notin p
        BY <1>5, <1>6, <2>2, <3>1
      <3>2. CASE next \in p
        <4>1. more = Append(got, next)
          BY <2>2, <3>2
        <4>2. /\ more \in Seq(Nat) /\ Len(more) = Len(got) + 1 /\ Len(got) \in Nat
              /\ \A i \in 1 .. Len(got) : more[i] = got[i]
              /\ more[Len(got) + 1] = next
          BY <1>5, <4>1
        <4>3. \A i \in 1 .. Len(more) - 1 : more[i] < more[i + 1]
          <5>1. ASSUME NEW i \in 1 .. Len(got) PROVE more[i] < more[i + 1]
            <6>1. CASE i = Len(got)
              BY <2>4, <4>2, <6>1
            <6>2. CASE i # Len(got)
              <7>1. i \in 1 .. Len(got) - 1 /\ i + 1 \in 1 .. Len(got)
                BY <4>2, <6>2
              <7> QED BY <1>6, <4>2, <7>1
            <6> QED BY <6>1, <6>2
          <5>2. Len(more) - 1 = Len(got)
            BY <4>2
          <5> QED BY <5>1, <5>2
        <4>4. Range(more) = Range(got) \cup {next}
          <5>1. DOMAIN more = 1 .. Len(got) + 1 /\ DOMAIN got = 1 .. Len(got)
            BY <1>5, <4>2
          <5> QED BY <4>2, <5>1 DEF Range
        <4> QED BY <3>2, <4>2, <4>3, <4>4
      <3> QED BY <3>1, <3>2
    <2>6. /\ stream' \in [at : {"off", "on", "ended"}, first : Nat \ {0}, next : Nat \ {0}, got : Seq(Nat)]
          /\ stream'.first = from /\ stream'.next = next + 1 /\ stream'.got = more /\ stream'.at = "on"
      BY <1>5, <2>3, <2>5
    <2>7. from .. (next + 1) - 1 = (from .. next - 1) \cup {next}
      BY <1>5
    <2>8. StreamIsComplete(p)'
      BY <1>1, <1>6, <2>5, <2>6, <2>7 DEF StreamIsComplete
    <2>9. from <= next + 1 /\ next + 1 <= Len(log) + 1
      BY <1>2, <1>5, <2>1
    <2> QED BY <1>1, <2>6, <2>8, <2>9 DEF StreamInv
  <1>10. CASE StreamEnds(p)
    <2>1. stream' = [at |-> "ended", first |-> from, next |-> next, got |-> got]
      BY <1>3, <1>4, <1>10 DEF StreamEnds
    <2>2. /\ stream' \in [at : {"off", "on", "ended"}, first : Nat \ {0}, next : Nat \ {0}, got : Seq(Nat)]
          /\ stream'.first = from /\ stream'.next = next /\ stream'.got = got /\ stream'.at = "ended"
      BY <1>5, <2>1
    <2>3. StreamIsComplete(p)'
      BY <1>1, <1>6, <2>2 DEF StreamIsComplete
    <2> QED BY <1>1, <1>5, <2>2, <2>3 DEF StreamInv
  <1> QED BY <1>7, <1>8, <1>9, <1>10

\* Sessions are only added, and keep their key.
KeysKept ==
    /\ DOMAIN sess \subseteq DOMAIN sess'
    /\ \A s \in DOMAIN sess : sess'[s].key = sess[s].key

\* The log is only added to, and not while the stream moves.
LEMMA LogGrows ==
  ASSUME NInv, NEW p, NodeMoves(p)
  PROVE  /\ \/ Subscribe \/ StreamLagged \/ StreamEvent(p) \/ StreamEnds(p)
            \/ UNCHANGED stream
         /\ \/ log' = log
            \/ UNCHANGED <<sess, stream>> /\ \E e : log' = Append(log, e) /\ e.to \in DOMAIN sess
  <1>1. CASE \E s \in DOMAIN sess, x \in {"allow", "deny", "event"} : ForwardTo(s, x)
    <2> PICK s \in DOMAIN sess, x \in {"allow", "deny", "event"} : ForwardTo(s, x)
      BY <1>1
    <2> DEFINE e == [event |-> fwd.event, to |-> s, exe |-> fwd.exe, response |-> x]
    <2>1. log' = log \/ log' = Append(log, e)
      BY DEF ForwardTo
    <2>2. e.to \in DOMAIN sess
      OBVIOUS
    <2> HIDE DEF e
    <2> QED BY <2>1, <2>2 DEF ForwardTo, service
  <1>2. CASE \E c \in Clients : EnsureInit(c) \/ Load(c)
    BY <1>2 DEF EnsureInit, Load, StartLoading, FinishLoading, LoadingFails, out
  <1>3. CASE \/ EventLoop \/ Receive \/ GetCachedProcess \/ ReadSessions \/ Forwarded
             \/ \E f \in Files : FileAccess(f)
             \/ Exec \/ Exit \/ Evict
    BY <1>3 DEF EventLoop, Receive, GetCachedProcess, ReadSessions, Forwarded, FileAccess, Exec, Exit, Evict, out
  <1>4. CASE Subscribe \/ StreamLagged \/ StreamEvent(p) \/ StreamEnds(p)
    BY <1>4 DEF Subscribe, StreamLagged, StreamEvent, StreamEnds, Streaming
  <1>5. CASE UNCHANGED node
    BY <1>5 DEF node, out
  <1> QED BY <1>1, <1>2, <1>3, <1>4, <1>5 DEF NodeMoves

\* What was broadcast stays as it was.
LEMMA LogPrefix ==
  ASSUME NInv, log' = log \/ \E e : log' = Append(log, e)
  PROVE  /\ Len(log) \in Nat /\ Len(log') \in Nat /\ Len(log) <= Len(log')
         /\ DOMAIN log = 1 .. Len(log) /\ DOMAIN log' = 1 .. Len(log')
         /\ \A i \in 1 .. Len(log) : log'[i] = log[i]
  <1>1. log \in Seq(Entry)
    BY DEF NInv, NTypeOK
  <1>2. CASE log' = log
    BY <1>1, <1>2
  <1>3. ASSUME NEW e, log' = Append(log, e)
        PROVE  /\ Len(log) \in Nat /\ Len(log') = Len(log) + 1
               /\ DOMAIN log = 1 .. Len(log) /\ DOMAIN log' = 1 .. Len(log')
               /\ \A i \in 1 .. Len(log) : log'[i] = log[i]
    <2>1. log \in Seq(Entry \cup {e}) /\ e \in Entry \cup {e}
      BY <1>1, SeqWider
    <2> QED BY <1>3, <2>1
  <1> QED BY <1>2, <1>3

\* A stream of the denials.
LEMMA DenialsKeep ==
  ASSUME NInv, StreamInv(Denials), NodeMoves(Denials)
  PROVE  StreamInv(Denials)'
  <1>1. /\ Len(log) \in Nat /\ Len(log') \in Nat /\ Len(log) <= Len(log')
        /\ DOMAIN log = 1 .. Len(log) /\ DOMAIN log' = 1 .. Len(log')
        /\ \A i \in 1 .. Len(log) : log'[i] = log[i]
    BY LogGrows, LogPrefix
  <1>2. Denials' \cap (1 .. Len(log)) = Denials \cap (1 .. Len(log))
    BY <1>1 DEF Denials, NotAllowed
  <1>3. PICK p, q : p = Denials /\ q = Denials'
    OBVIOUS
  <1>4. StreamInv(p)
    BY <1>3
  <1>5. StreamInv(q)'
    <2>1. CASE UNCHANGED stream
      BY <1>1, <1>2, <1>3, <1>4, <2>1, StreamWaits
    <2>2. CASE Subscribe \/ StreamLagged \/ StreamEvent(Denials) \/ StreamEnds(Denials)
      <3>1. p = q
        BY <1>3, <2>2 DEF Subscribe, StreamLagged, StreamEvent, StreamEnds, Streaming, Denials
      <3>2. Subscribe \/ StreamLagged \/ StreamEvent(p) \/ StreamEnds(p)
        BY <1>3, <2>2
      <3> QED BY <1>1, <1>4, <3>1, <3>2, StreamMoves
    <2> QED BY <2>1, <2>2, LogGrows
  <1> QED BY <1>3, <1>5

\* A stream of one watch.
LEMMA OfKeyKeep ==
  ASSUME NInv, Logged, KeysKept, NEW k, StreamInv(OfKey(k)), NodeMoves(OfKey(k))
  PROVE  StreamInv(OfKey(k))' /\ Logged'
  <1>1. /\ Len(log) \in Nat /\ Len(log') \in Nat /\ Len(log) <= Len(log')
        /\ DOMAIN log = 1 .. Len(log) /\ DOMAIN log' = 1 .. Len(log')
        /\ \A i \in 1 .. Len(log) : log'[i] = log[i]
    BY LogGrows, LogPrefix
  <1>2. OfKey(k)' \cap (1 .. Len(log)) = OfKey(k) \cap (1 .. Len(log))
    <2> SUFFICES ASSUME NEW i \in 1 .. Len(log) PROVE i \in OfKey(k)' <=> i \in OfKey(k)
      BY DEF OfKey
    <2>1. i \in DOMAIN log /\ i \in DOMAIN log' /\ log'[i] = log[i]
      BY <1>1
    <2>2. PICK e : e = log[i] /\ e = log'[i]
      BY <2>1
    <2>3. sess'[e.to].key = sess[e.to].key
      BY <2>1, <2>2 DEF Logged, KeysKept
    <2> QED BY <2>1, <2>2, <2>3 DEF OfKey, StreamFilterMatches
  <1>3. PICK p, q : p = OfKey(k) /\ q = OfKey(k)'
    OBVIOUS
  <1>4. StreamInv(p)
    BY <1>3
  <1>5. StreamInv(q)'
    <2>1. CASE UNCHANGED stream
      BY <1>1, <1>2, <1>3, <1>4, <2>1, StreamWaits
    <2>2. CASE Subscribe \/ StreamLagged \/ StreamEvent(OfKey(k)) \/ StreamEnds(OfKey(k))
      <3>1. p = q
        BY <1>3, <2>2 DEF Subscribe, StreamLagged, StreamEvent, StreamEnds, Streaming, service, OfKey,
                          StreamFilterMatches
      <3>2. Subscribe \/ StreamLagged \/ StreamEvent(p) \/ StreamEnds(p)
        BY <1>3, <2>2
      <3> QED BY <1>1, <1>4, <3>1, <3>2, StreamMoves
    <2> QED BY <2>1, <2>2, LogGrows
  <1>6. StreamInv(OfKey(k))'
    BY <1>3, <1>5
  <1>7. Logged'
    <2>1. CASE log' = log
      BY <2>1 DEF Logged, KeysKept
    <2>2. CASE UNCHANGED <<sess, stream>> /\ \E e : log' = Append(log, e) /\ e.to \in DOMAIN sess
      <3> PICK e : log' = Append(log, e) /\ e.to \in DOMAIN sess
        BY <2>2
      <3>1. \A i \in DOMAIN log' : log'[i] = e \/ i \in DOMAIN log
        BY <1>1 DEF NInv, NTypeOK
      <3> QED BY <1>1, <2>2, <3>1 DEF Logged
    <2> QED BY <2>1, <2>2, LogGrows
  <1> QED BY <1>6, <1>7

-----------------------------------------------------------------------------
(* The session objects, which the log refers to.                             *)

\* The session objects are a list, and each has the key it was made for.
Listed ==
    /\ sess \in Seq(Range(sess))
    /\ \A s \in DOMAIN sess : "key" \in DOMAIN sess[s]

\* Setting another field of a session keeps its key.
LEMMA FieldKept ==
  ASSUME NEW w, "key" \in DOMAIN w, NEW v
  PROVE  /\ [w EXCEPT !.lock = v].key = w.key /\ "key" \in DOMAIN [w EXCEPT !.lock = v]
         /\ [w EXCEPT !.ready = v].key = w.key /\ "key" \in DOMAIN [w EXCEPT !.ready = v]
         /\ [w EXCEPT !.paused = v].key = w.key /\ "key" \in DOMAIN [w EXCEPT !.paused = v]
         /\ [w EXCEPT !.deny = v].key = w.key /\ "key" \in DOMAIN [w EXCEPT !.deny = v]
  OBVIOUS

\* A step that changes sessions in place and keeps their keys.
LEMMA Rewritten ==
  ASSUME Listed, sess' = [s \in DOMAIN sess |-> sess'[s]],
         \A s \in DOMAIN sess : "key" \in DOMAIN sess'[s] /\ sess'[s].key = sess[s].key
  PROVE  Listed' /\ KeysKept
  <1>1. Len(sess) \in Nat /\ DOMAIN sess = 1 .. Len(sess)
    BY DEF Listed
  <1>2. sess' \in Seq(Range(sess'))
    <2>1. sess' \in [1 .. Len(sess) -> Range(sess')]
      BY <1>1 DEF Range
    <2> QED BY <1>1, <2>1
  <1>3. DOMAIN sess' = DOMAIN sess
    OBVIOUS
  <1> QED BY <1>2, <1>3 DEF Listed, KeysKept

\* A step that adds a session.
LEMMA Extended ==
  ASSUME Listed, NEW w, "key" \in DOMAIN w, sess' = Append(sess, w)
  PROVE  Listed' /\ KeysKept
  <1>1. Len(sess) \in Nat /\ DOMAIN sess = 1 .. Len(sess)
    BY DEF Listed
  <1>2. sess \in Seq(Range(sess) \cup {w})
    BY SeqWider DEF Listed
  <1>3. /\ Len(sess') = Len(sess) + 1 /\ DOMAIN sess' = 1 .. Len(sess) + 1
        /\ sess' \in Seq(Range(sess) \cup {w})
        /\ \A s \in 1 .. Len(sess) : sess'[s] = sess[s]
        /\ sess'[Len(sess) + 1] = w
    BY <1>1, <1>2, AppendProperties, LenProperties
  <1>4. sess' \in Seq(Range(sess'))
    <2>1. PICK n \in Nat : n = Len(sess) + 1
      BY <1>1
    <2>2. sess' \in [1 .. n -> Range(sess) \cup {w}]
      BY <1>3, <2>1, LenProperties
    <2>3. sess' \in [1 .. n -> Range(sess')]
      BY <2>2 DEF Range
    <2>4. PICK r : r = Range(sess')
      OBVIOUS
    <2>5. sess' \in [1 .. n -> r] /\ Seq(r) = UNION {[1 .. m -> r] : m \in Nat}
      BY <2>3, <2>4, SeqDef
    <2>6. sess' \in Seq(r)
      BY <2>1, <2>5
    <2> QED BY <2>4, <2>6
  <1>5. \A s \in DOMAIN sess' : s \in DOMAIN sess \/ s = Len(sess) + 1
    <2>1. PICK n \in Nat : n = Len(sess)
      BY <1>1
    <2>2. \A s \in 1 .. n + 1 : s \in 1 .. n \/ s = n + 1
      BY <2>1
    <2> QED BY <1>1, <1>3, <2>1, <2>2
  <1> QED BY <1>1, <1>3, <1>4, <1>5 DEF Listed, KeysKept

\* A step that replaces one session.
LEMMA Replaced ==
  ASSUME Listed, NEW i, NEW w, sess' = [sess EXCEPT ![i] = w],
         i \in DOMAIN sess => "key" \in DOMAIN w /\ w.key = sess[i].key
  PROVE  Listed' /\ KeysKept
  <1>1. sess' = [s \in DOMAIN sess |-> sess'[s]]
    OBVIOUS
  <1>2. \A s \in DOMAIN sess : "key" \in DOMAIN sess'[s] /\ sess'[s].key = sess[s].key
    BY DEF Listed
  <1> QED BY <1>1, <1>2, Rewritten

\* What a handler does to the session objects.
SessionsMove(i) ==
    \/ sess' = sess
    \/ \E w : "key" \in DOMAIN w /\ sess' = Append(sess, w)
    \/ \E v : \/ sess' = [sess EXCEPT ![i].lock = v] \/ sess' = [sess EXCEPT ![i].ready = v]
              \/ sess' = [sess EXCEPT ![i].paused = v]
    \/ \E v : \/ sess' = [[sess EXCEPT ![i].lock = None] EXCEPT ![i].paused = v]
              \/ sess' = [[sess EXCEPT ![i].lock = None] EXCEPT ![i].deny = v]

\* Whatever a handler does to the session objects, no session goes, and none
\* changes its key.
LEMMA SessionsMoveListed ==
  ASSUME Listed, NEW i, SessionsMove(i)
  PROVE  Listed' /\ KeysKept
  <1>1. CASE sess' = sess
    BY <1>1 DEF Listed, KeysKept
  <1>2. ASSUME NEW w, "key" \in DOMAIN w, sess' = Append(sess, w) PROVE Listed' /\ KeysKept
    BY <1>2, Extended
  <1>3. ASSUME i \notin DOMAIN sess, sess' = [s \in DOMAIN sess |-> sess[s]]
        PROVE  Listed' /\ KeysKept
    <2>1. sess' = sess
      BY <1>3 DEF Listed
    <2> QED BY <1>1, <2>1
  <1>4. ASSUME NEW v, \/ sess' = [sess EXCEPT ![i].lock = v] \/ sess' = [sess EXCEPT ![i].ready = v]
                      \/ sess' = [sess EXCEPT ![i].paused = v]
        PROVE  Listed' /\ KeysKept
    <2>1. PICK w : /\ sess' = [sess EXCEPT ![i] = w]
                   /\ w = [sess[i] EXCEPT !.lock = v] \/ w = [sess[i] EXCEPT !.ready = v]
                      \/ w = [sess[i] EXCEPT !.paused = v]
      BY <1>4
    <2>2. i \in DOMAIN sess => "key" \in DOMAIN w /\ w.key = sess[i].key
      BY <2>1, FieldKept DEF Listed
    <2> QED BY <2>1, <2>2, Replaced
  <1>5. ASSUME NEW v, \/ sess' = [[sess EXCEPT ![i].lock = None] EXCEPT ![i].paused = v]
                      \/ sess' = [[sess EXCEPT ![i].lock = None] EXCEPT ![i].deny = v]
        PROVE  Listed' /\ KeysKept
    <2>1. CASE i \notin DOMAIN sess
      <3>1. sess' = [s \in DOMAIN sess |-> sess[s]]
        BY <1>5, <2>1
      <3> QED BY <1>3, <2>1, <3>1
    <2>2. CASE i \in DOMAIN sess
      <3>1. PICK u, w : /\ u = [sess[i] EXCEPT !.lock = None]
                        /\ w = [u EXCEPT !.paused = v] \/ w = [u EXCEPT !.deny = v]
                        /\ sess' = [sess EXCEPT ![i] = w]
        BY <1>5, <2>2
      <3>2. "key" \in DOMAIN u /\ u.key = sess[i].key
        BY <2>2, <3>1, FieldKept DEF Listed
      <3>3. "key" \in DOMAIN w /\ w.key = sess[i].key
        BY <3>1, <3>2, FieldKept
      <3> QED BY <3>1, <3>3, Replaced
    <2> QED BY <2>1, <2>2
  <1> QED BY <1>1, <1>2, <1>4, <1>5 DEF SessionsMove

\* A cancelled handler releases its locks and changes nothing else of a
\* session.
LEMMA CancelListed ==
  ASSUME Listed, NEW c, Cancel(c)
  PROVE  Listed' /\ KeysKept
  <1>1. sess' = [s \in DOMAIN sess |-> IF sess[s].lock = c THEN [sess[s] EXCEPT !.lock = None] ELSE sess[s]]
    BY DEF Cancel
  <1>2. \A s \in DOMAIN sess : "key" \in DOMAIN sess'[s] /\ sess'[s].key = sess[s].key
    <2> SUFFICES ASSUME NEW s \in DOMAIN sess PROVE "key" \in DOMAIN sess'[s] /\ sess'[s].key = sess[s].key
      OBVIOUS
    <2>1. PICK w : w = sess[s] /\ "key" \in DOMAIN w
      BY DEF Listed
    <2>2. sess'[s] = w \/ sess'[s] = [w EXCEPT !.lock = None]
      BY <1>1, <2>1
    <2> QED BY <2>1, <2>2, FieldKept
  <1>3. sess' = [s \in DOMAIN sess |-> sess'[s]]
    BY <1>1
  <1> QED BY <1>2, <1>3, Rewritten

\* Only handlers change the session objects.
LEMMA NodeLeavesSessions ==
  ASSUME \/ NodeSteps /\ ~\E c \in Clients : Cancel(c)
         \/ \E c \in Clients : EnsureInit(c) \/ Load(c)
         \/ \E s, x : ForwardTo(s, x)
         \/ \E p : StreamEvent(p) \/ StreamEnds(p)
  PROVE  sess' = sess
  BY DEF NodeSteps, EventLoop, Receive, GetCachedProcess, ReadSessions, Forwarded, FileAccess, Exec, Exit,
         Evict, Subscribe, StreamLagged, EnsureInit, Load, ForwardTo, StreamEvent, StreamEnds, Streaming,
         service

\* janusd's steps keep the list of sessions and their keys.
LEMMA GuardsListed ==
  ASSUME Listed, JanusNext
  PROVE  Listed' /\ KeysKept
  <1>1. CASE \E c \in Clients : Cancel(c)
    BY <1>1, CancelListed
  <1>2. ASSUME NEW i, SessionsMove(i) PROVE Listed' /\ KeysKept
    BY <1>2, SessionsMoveListed
  <1>3. CASE \/ NodeSteps /\ ~\E c \in Clients : Cancel(c)
             \/ ForwardAccess \/ StreamEvent(Denials) \/ StreamEnds(Denials) \/ GuardStarts
    <2>1. sess' = sess
      BY <1>3, NodeLeavesSessions DEF ForwardAccess, GuardStarts, CreateGuard, DestroyGuard, UpdateGuard,
            UpdatePolicy
    <2> QED BY <1>2, <2>1 DEF SessionsMove
  <1>4. ASSUME NEW c \in Clients, GuardSteps(c) PROVE Listed' /\ KeysKept
    <2>1. PICK i : i = call[c].sid
      OBVIOUS
    <2>2. CASE GuardExists(c) \/ EnsureInit(c) \/ Load(c) \/ RegisterGuard(c) \/ AddGuardedPrefixes(c)
               \/ AddDenyPaths(c) \/ DestroyRemovesDeny(c)
      <3>1. sess' = sess
        BY <2>2 DEF GuardExists, EnsureInit, Load, RegisterGuard, AddGuardedPrefixes, AddDenyPaths,
                    DestroyRemovesDeny
      <3> QED BY <1>2, <3>1 DEF SessionsMove
    <2>3. CASE InsertGuard(c)
      <3>1. \E w : "key" \in DOMAIN w /\ sess' = Append(sess, w)
        <4>1. PICK w : sess' = Append(sess, w) /\
                        w = [key |-> call[c].key, prefixes |-> call[c].req.prefixes,
                             deny |-> call[c].req.deny, enforcing |-> call[c].req.enforcing,
                             paused |-> call[c].req.paused, ready |-> FALSE, lock |-> None]
          BY <2>3 DEF InsertGuard
        <4> QED BY <4>1
      <3> QED BY <1>2, <3>1 DEF SessionsMove
    <2>4. CASE GuardReady(c) \/ DestroyRemovesPrefixes(c) \/ UnregisterGuard(c) \/ PausePrefixes(c)
               \/ ResumePrefixes(c) \/ PolicyRemovesDeny(c)
      <3>1. \/ sess' = sess
            \/ \E v : sess' = [sess EXCEPT ![i].lock = v] \/ sess' = [sess EXCEPT ![i].ready = v]
        BY <2>1, <2>4 DEF GuardReady, DestroyRemovesPrefixes, UnregisterGuard, PausePrefixes, ResumePrefixes,
                    PolicyRemovesDeny, Locked, Released
      <3> QED BY <1>2, <3>1 DEF SessionsMove
    <2>5. CASE PauseDeny(c) \/ ResumeDeny(c) \/ PolicyAddsDeny(c)
      <3>1. \/ sess' = [sess EXCEPT ![i].lock = None]
            \/ \E v : \/ sess' = [[sess EXCEPT ![i].lock = None] EXCEPT ![i].paused = v]
                      \/ sess' = [[sess EXCEPT ![i].lock = None] EXCEPT ![i].deny = v]
        BY <2>1, <2>5 DEF PauseDeny, ResumeDeny, PolicyAddsDeny, Released
      <3> QED BY <1>2, <3>1 DEF SessionsMove
    <2> QED BY <1>4, <2>2, <2>3, <2>4, <2>5 DEF GuardSteps
  <1> QED BY <1>1, <1>3, <1>4 DEF JanusNext

\* argusd's steps keep the list of sessions and their keys.
LEMMA WatchesListed ==
  ASSUME Listed, ArgusNext
  PROVE  Listed' /\ KeysKept
  <1>1. CASE \E c \in Clients : Cancel(c)
    BY <1>1, CancelListed
  <1>2. ASSUME NEW i, SessionsMove(i) PROVE Listed' /\ KeysKept
    BY <1>2, SessionsMoveListed
  <1>3. CASE \/ NodeSteps /\ ~\E c \in Clients : Cancel(c)
             \/ ForwardFileEvent \/ StreamEvent(OfKey(one)) \/ StreamEnds(OfKey(one)) \/ WatchStarts
    <2>1. sess' = sess
      BY <1>3, NodeLeavesSessions DEF ForwardFileEvent, WatchStarts, CreateWatch, DestroyWatch, UpdateWatch
    <2> QED BY <1>2, <2>1 DEF SessionsMove
  <1>4. ASSUME NEW c \in Clients, WatchSteps(c) PROVE Listed' /\ KeysKept
    <2>1. PICK i : i = call[c].sid
      OBVIOUS
    <2>2. CASE EnsureInit(c) \/ Load(c) \/ RegisterWatch(c) \/ AddWatchedPrefixes(c)
      <3>1. sess' = sess
        BY <2>2 DEF EnsureInit, Load, RegisterWatch, AddWatchedPrefixes
      <3> QED BY <1>2, <3>1 DEF SessionsMove
    <2>3. CASE InsertWatch(c)
      <3>1. \/ sess' = sess
            \/ \E w : "key" \in DOMAIN w /\ sess' = Append(sess, w)
        <4>1. PICK w : w = [key |-> call[c].key, prefixes |-> call[c].req.prefixes,
                            paused |-> call[c].req.paused, ready |-> FALSE, lock |-> None]
          OBVIOUS
        <4>2. "key" \in DOMAIN w
          BY <4>1
        <4>3. sess' = sess \/ sess' = Append(sess, w)
          BY <2>3, <4>1 DEF InsertWatch
        <4> QED BY <4>2, <4>3
      <3> QED BY <1>2, <3>1 DEF SessionsMove
    <2>4. CASE WatchReady(c) \/ UnwatchPrefixes(c) \/ UnregisterWatch(c) \/ PauseWatch(c) \/ ResumeWatch(c)
      <3>1. \/ sess' = sess
            \/ \E v : \/ sess' = [sess EXCEPT ![i].lock = v] \/ sess' = [sess EXCEPT ![i].ready = v]
                      \/ sess' = [sess EXCEPT ![i].paused = v]
        BY <2>1, <2>4 DEF WatchReady, UnwatchPrefixes, UnregisterWatch, PauseWatch, ResumeWatch, Locked, Released
      <3> QED BY <1>2, <3>1 DEF SessionsMove
    <2> QED BY <1>4, <2>2, <2>3, <2>4 DEF WatchSteps
  <1> QED BY <1>1, <1>3, <1>4 DEF ArgusNext

-----------------------------------------------------------------------------
(* Every step of a daemon is a step of the node.                             *)

\* The responses of janusd's forwarder.
LEMMA GuardResponses ==
  ASSUME NEW s PROVE GuardResponse(s) \in {"allow", "deny", "event"}
  BY DEF GuardResponse

\* Every step of janusd is a step of the node ...
LEMMA JanusMoves ==
  ASSUME JanusNext
  PROVE  NodeMoves(Denials)
  <1>1. CASE NodeSteps
    BY <1>1 DEF NodeSteps, NodeMoves, Cancel, node, kernel
  <1>2. CASE GuardStarts
    <2>1. UNCHANGED node
      BY <1>2 DEF GuardStarts, CreateGuard, DestroyGuard, UpdateGuard, UpdatePolicy, Janus, node
    <2> QED BY <2>1 DEF NodeMoves
  <1>3. CASE ForwardAccess
    BY <1>3, GuardResponses DEF ForwardAccess, NodeMoves
  <1>4. CASE \E c \in Clients : GuardSteps(c)
    <2> PICK c \in Clients : GuardSteps(c)
      BY <1>4
    <2>1. EnsureInit(c) \/ Load(c) \/ UNCHANGED node
      BY DEF GuardSteps, GuardExists, InsertGuard, RegisterGuard, AddGuardedPrefixes, AddDenyPaths, GuardReady,
             DestroyRemovesPrefixes, DestroyRemovesDeny, UnregisterGuard, PausePrefixes, PauseDeny,
             ResumePrefixes, ResumeDeny, PolicyRemovesDeny, PolicyAddsDeny, Janus, node
    <2> QED BY <2>1 DEF NodeMoves
  <1>5. CASE StreamEvent(Denials) \/ StreamEnds(Denials)
    BY <1>5 DEF NodeMoves
  <1> QED BY <1>1, <1>2, <1>3, <1>4, <1>5 DEF JanusNext

\* ... and every step of argusd is.
LEMMA ArgusMoves ==
  ASSUME ArgusNext
  PROVE  NodeMoves(OfKey(one))
  <1>1. CASE NodeSteps
    BY <1>1 DEF NodeSteps, NodeMoves, Cancel, node, kernel
  <1>2. CASE WatchStarts
    <2>1. UNCHANGED node
      BY <1>2 DEF WatchStarts, CreateWatch, DestroyWatch, UpdateWatch, Argus, node
    <2> QED BY <2>1 DEF NodeMoves
  <1>3. CASE ForwardFileEvent
    BY <1>3 DEF ForwardFileEvent, NodeMoves
  <1>4. CASE \E c \in Clients : WatchSteps(c)
    <2> PICK c \in Clients : WatchSteps(c)
      BY <1>4
    <2>1. EnsureInit(c) \/ Load(c) \/ UNCHANGED node
      BY DEF WatchSteps, RegisterWatch, InsertWatch, AddWatchedPrefixes, WatchReady, UnwatchPrefixes,
             UnregisterWatch, PauseWatch, ResumeWatch, Argus, node
    <2> QED BY <2>1 DEF NodeMoves
  <1>5. CASE StreamEvent(OfKey(one)) \/ StreamEnds(OfKey(one))
    BY <1>5 DEF NodeMoves
  <1> QED BY <1>1, <1>2, <1>3, <1>4, <1>5 DEF ArgusNext

-----------------------------------------------------------------------------
(* The scenes of MCEbpf.                                                     *)

\* The stream of a scene is one of denials or of the events of one watch.
LEMMA Wanted == (janus => wanted = Denials) /\ (~janus => wanted = OfKey(one))
  BY DEF wanted, Denials, OfKey

\* A step of MCEbpf is one of the daemon that its scene is about.
LEMMA Scenes ==
  ASSUME Next
  PROVE  scene' = scene /\ (janus => JanusNext) /\ (~janus => ArgusNext)
  <1>1. scene' = scene
    BY DEF Next
  <1>2. CASE System
    <2>1. CASE \E c \in Clients : Handling(c)
      BY <1>1, <2>1 DEF Handling, JanusNext, ArgusNext
    <2>2. CASE Forwarding
      BY <1>1, <2>2 DEF Forwarding, JanusNext, ArgusNext
    <2>3. CASE EventLoop \/ Receive \/ GetCachedProcess \/ ReadSessions \/ Forwarded
      BY <1>1, <2>3 DEF NodeSteps, JanusNext, ArgusNext
    <2> QED BY <1>2, <2>1, <2>2, <2>3 DEF System
  <1>3. CASE Environment
    <2>1. CASE Starting
      BY <1>1, <2>1 DEF Starting, JanusNext, ArgusNext
    <2>2. CASE Stream
      BY <1>1, <2>2, Wanted DEF Stream, JanusNext, ArgusNext
    <2>3. CASE \/ \E c \in Clients : Cancel(c)
               \/ \E f \in Files : FileAccess(f)
               \/ Exec \/ Exit \/ Evict \/ Subscribe \/ StreamLagged
      BY <1>1, <2>3 DEF NodeSteps, JanusNext, ArgusNext
    <2> QED BY <1>3, <2>1, <2>2, <2>3 DEF Environment
  <1> QED BY <1>1, <1>2, <1>3 DEF Next

NodeInv ==
    /\ NInv /\ Listed
    /\ StreamInv(wanted)
    /\ ~janus => Logged

\* The inductive invariant holds at the start, ...
LEMMA NodeInvStarts ==
  ASSUME Init
  PROVE  NodeInv
  <1>1. NodeInit
    BY DEF Init
  <1>2. NInv
    BY <1>1, NodeStart
  <1>3. sess = <<>> /\ log = <<>>
    BY <1>1 DEF NodeInit
  <1>4. Listed
    BY <1>3 DEF Listed, Range
  <1>5. StreamInv(wanted)
    BY <1>1, StreamStart
  <1>6. Logged
    BY <1>3 DEF Logged
  <1> QED BY <1>2, <1>4, <1>5, <1>6 DEF NodeInv

\* ... is kept by every step, ...
LEMMA NodeInvKept ==
  ASSUME NodeInv, Next
  PROVE  NodeInv'
  <1>1. scene' = scene /\ (janus' <=> janus) /\ NInv /\ Listed
    BY Scenes DEF janus, NodeInv
  <1>2. DOMAIN sess \subseteq Nat
    BY <1>1, LenProperties DEF Listed
  <1>3. CASE janus
    <2>1. JanusNext /\ NodeMoves(Denials)
      BY <1>3, Scenes, JanusMoves
    <2>2. Listed' /\ NInv'
      BY <1>1, <1>2, <2>1, GuardsListed, NodeKeeps
    <2>3. StreamInv(Denials)
      BY <1>3, Wanted DEF NodeInv
    <2>4. StreamInv(Denials)'
      BY <1>1, <2>1, <2>3, DenialsKeep
    <2>5. wanted' = Denials'
      BY <1>1, <1>3 DEF wanted, Denials
    <2>6. StreamInv(wanted)'
      BY <2>4, <2>5 DEF StreamInv, StreamIsComplete
    <2> QED BY <1>1, <1>3, <2>2, <2>6 DEF NodeInv
  <1>4. CASE ~janus
    <2>1. ArgusNext /\ NodeMoves(OfKey(one)) /\ Logged
      BY <1>4, Scenes, ArgusMoves DEF NodeInv
    <2>2. Listed' /\ KeysKept /\ NInv'
      BY <1>1, <1>2, <2>1, WatchesListed, NodeKeeps
    <2>3. StreamInv(OfKey(one))
      BY <1>4, Wanted DEF NodeInv
    <2>4. StreamInv(OfKey(one))' /\ Logged'
      BY <1>1, <2>1, <2>2, <2>3, OfKeyKeep
    <2>5. wanted' = OfKey(one)'
      BY <1>1, <1>4 DEF wanted, OfKey
    <2>6. StreamInv(wanted)'
      BY <2>4, <2>5 DEF StreamInv, StreamIsComplete
    <2> QED BY <2>2, <2>4, <2>6 DEF NodeInv
  <1> QED BY <1>3, <1>4

\* ... and by none.
LEMMA NodeInvIdles ==
  ASSUME NodeInv, UNCHANGED <<vars, scene>>
  PROVE  NodeInv'
  <1>1. UNCHANGED vars /\ scene' = scene
    OBVIOUS
  <1>2. NInv'
    BY <1>1, NodeIdles DEF NodeInv, vars
  <1>3. sess' = sess /\ log' = log /\ stream' = stream
    BY <1>1 DEF vars
  <1>4. Listed'
    BY <1>3 DEF NodeInv, Listed
  <1>5. (janus' <=> janus) /\ (Logged' <=> Logged)
    BY <1>1, <1>3 DEF janus, Logged
  <1>6. wanted' = wanted
    BY <1>3, <1>5 DEF wanted, NotAllowed, StreamFilterMatches
  <1>7. StreamInv(wanted)'
    BY <1>3, <1>6 DEF NodeInv, StreamInv, StreamIsComplete, Oldest
  <1> QED BY <1>2, <1>4, <1>5, <1>7 DEF NodeInv

\* The forwarder, the caches, the log and the stream of every node, for every
\* number of clients, sessions and files, and every size of ring, channel and
\* broadcast ring.
THEOREM NodeInvariant == Spec => []NodeInv
  <1>1. NodeInv /\ [Next]_<<vars, scene>> => NodeInv'
    BY NodeInvKept, NodeInvIdles
  <1> QED BY <1>1, NodeInvStarts, PTL DEF Spec

\* With both tracepoints or none, no event is ever attributed to a program
\* that its process had left before the access (get_cached_process in the
\* forwarders of janusd and argusd).
THEOREM Attribution == Spec => []ProgramNotOlder
  <1>1. NodeInv => ProgramNotOlder
    BY DEF NodeInv, NInv, Attributed, NotOlder, ProgramNotOlder
  <1> QED BY <1>1, NodeInvariant, PTL

\* A stream of janusd's denials, or of one watch's events, hands out events in
\* order and misses only what the broadcast ring had overwritten, however
\* sessions come and go meanwhile (filtered_broadcast_stream,
\* stream_access_events).
THEOREM Streams == Spec => []StreamComplete
  <1>1. NodeInv => StreamComplete
    BY DEF NodeInv, StreamInv, StreamComplete
  <1> QED BY <1>1, NodeInvariant, PTL

-----------------------------------------------------------------------------
(* What the handlers have in common.                                         *)

\* A map is never larger than it was made.
Fits(map) == IsFiniteSet(map) /\ Cardinality(map) <= MapSize

\* A map changes by a list that is added or removed.
MapMoves(map, map1) ==
    \/ map1 = map
    \/ \E ps \in Seq(Path) : map1 = InsertAll(map, ps).map \/ map1 = RemoveAll(map, ps).map

\* A list that is added or removed leaves the map within its size.
LEMMA MapMovesFit ==
  ASSUME NEW map, NEW map1, Fits(map), MapMoves(map, map1)
  PROVE  Fits(map1)
  <1>1. CASE map1 = map
    BY <1>1
  <1>2. ASSUME NEW ps \in Seq(Path), map1 = InsertAll(map, ps).map PROVE Fits(map1)
    BY <1>2, InsertAllFits DEF Fits
  <1>3. ASSUME NEW ps \in Seq(Path), map1 = RemoveAll(map, ps).map PROVE Fits(map1)
    <2>1. map1 \subseteq map
      BY <1>3, RemoveAllFacts
    <2>2. IsFiniteSet(map1) /\ Cardinality(map1) <= Cardinality(map)
      BY <2>1, FS_Subset DEF Fits
    <2>3. Cardinality(map) \in Nat /\ Cardinality(map1) \in Nat
      BY <2>2, FS_CardinalityType DEF Fits
    <2> QED BY <2>2, <2>3, Sizes DEF Fits
  <1> QED BY <1>1, <1>2, <1>3 DEF MapMoves

HandlersMove ==
    /\ MapMoves(prefix_map, prefix_map') /\ MapMoves(deny_map, deny_map')
    /\ calls' = calls \/ (calls < MaxCalls /\ calls' = calls + 1)

\* Only handlers change the maps.
LEMMA NodeLeavesMaps ==
  ASSUME NodeSteps \/ (\E s, x : ForwardTo(s, x)) \/ (\E p : StreamEvent(p) \/ StreamEnds(p))
  PROVE  HandlersMove
  <1>1. UNCHANGED <<prefix_map, deny_map, calls>>
    BY DEF NodeSteps, EventLoop, Receive, GetCachedProcess, ReadSessions, Forwarded, FileAccess, Exec, Exit, Evict,
           Subscribe, StreamLagged, StreamEvent, StreamEnds, ForwardTo, Streaming, Cancel, kernel, service
  <1> QED BY <1>1 DEF HandlersMove, MapMoves

\* Loading the programs does not fill the maps.
LEMMA LoadLeavesMaps ==
  ASSUME NEW c, EnsureInit(c) \/ Load(c)
  PROVE  HandlersMove
  <1>1. UNCHANGED <<prefix_map, deny_map, calls>>
    BY DEF EnsureInit, Load, StartLoading, FinishLoading, LoadingFails, kernel
  <1> QED BY <1>1 DEF HandlersMove, MapMoves

\* The maps stay within their sizes, and the calls within their bound.
LEMMA BoundsKept ==
  ASSUME Fits(prefix_map), Fits(deny_map), calls \in 0..MaxCalls, HandlersMove
  PROVE  Fits(prefix_map)' /\ Fits(deny_map)' /\ calls' \in 0..MaxCalls
  <1>1. Fits(prefix_map') /\ Fits(deny_map')
    BY MapMovesFit DEF HandlersMove
  <1>2. calls' \in 0..MaxCalls
    BY Sizes DEF HandlersMove
  <1> QED BY <1>1, <1>2 DEF Fits

\* The calls of other clients stay.
Others(c) == \A b \in Clients \ {c} : call'[b] = call[b]

\* A handler ends.
Finishes(c) == Others(c) /\ call'[c].pc = "idle"

Locks == Clients \cup {None}

Sids == 1 .. Len(sess)

AllOrNone(S, map) == S \subseteq map \/ S \cap map = {}

\* Maps hold paths.
LEMMA MapTyped ==
  ASSUME NEW map \in SUBSET Path, NEW ps \in Seq(Path)
  PROVE  InsertAll(map, ps).map \in SUBSET Path /\ RemoveAll(map, ps).map \in SUBSET Path
  BY InsertAllFacts, RemoveAllFacts, RangeOfSeq

\* A list without entries is the empty list.
LEMMA EmptyList ==
  ASSUME NEW q \in Seq(Path)
  PROVE  Range(q) = {} <=> q = <<>>
  BY EmptySeq, LenProperties DEF Range

\* What the handlers work on.
handled == <<prefix_map, deny_map, sessions, sess, call, active, spoilt>>

\* What is outside of the handlers leaves sessions and maps alone.
LEMMA NodeLeavesHandled ==
  ASSUME \/ EventLoop \/ Receive \/ GetCachedProcess \/ ReadSessions \/ Forwarded
         \/ \E f \in Files : FileAccess(f)
         \/ Exec \/ Exit \/ Evict \/ Subscribe \/ StreamLagged
         \/ \E p : StreamEvent(p) \/ StreamEnds(p)
         \/ \E s, x : ForwardTo(s, x)
  PROVE  UNCHANGED handled
  BY DEF EventLoop, Receive, GetCachedProcess, ReadSessions, Forwarded, FileAccess, Exec, Exit, Evict,
         Subscribe, StreamLagged, StreamEvent, StreamEnds, ForwardTo, Streaming, kernel, service,
         handled

\* A finite set that gains at most one element.
LEMMA OneMore ==
  ASSUME NEW S, IsFiniteSet(S), NEW x
  PROVE  /\ IsFiniteSet(S \cup {x}) /\ Cardinality(S \cup {x}) \in Nat /\ Cardinality(S) \in Nat
         /\ Cardinality(S \cup {x}) <= Cardinality(S) + 1
  <1>1. Cardinality(S) \in Nat
    BY FS_CardinalityType
  <1>2. /\ IsFiniteSet(S \cup {x})
        /\ Cardinality(S \cup {x}) = IF x \in S THEN Cardinality(S) ELSE Cardinality(S) + 1
    BY FS_AddElement
  <1>3. Cardinality(S \cup {x}) \in Nat
    BY <1>2, FS_CardinalityType
  <1> QED BY <1>1, <1>2, <1>3
=============================================================================
