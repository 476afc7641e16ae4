---------------------------- MODULE GuardPipeline ----------------------------
(***************************************************************************)
(* The event pipeline of one guard: the fanotify queue, the event loop     *)
(* (janusd/src/guard.rs) with its deduplication cache (dedupe.rs), the     *)
(* bounded channel and the forwarding task (janusd/src/service.rs).        *)
(*                                                                         *)
(* An event is about a key, its (path, pid) pair.  The guard's policy does *)
(* not change once it is built, so a decision is a function of the key     *)
(* (PolicyEvaluator has the decision and its cache).  The kernel is        *)
(* external: a process waits until its permission event is answered or the *)
(* fanotify group is closed.                                               *)
(***************************************************************************)
EXTENDS Integers, Sequences, FiniteSets

CONSTANTS
    Keys,             \* (path, pid) pairs
    Deny,             \* the keys the policy denies
    Matched,          \* the keys whose path matches a pattern
    Enforce,          \* GuardConfig.enforce
    MaxEvents,        \* bound on the events that ever happen
    QueueSize,        \* the kernel's queue, 16384 by default
    ChannelSize,      \* the event channel, 1000 in the code
    CacheSize,        \* DedupeCache.max_size, 64 in the code
    Window,           \* the deduplication window
    MaxTime           \* bound on the clock

MaxRetries == 3       \* MAX_RETRIES

ASSUME ConstantsAssumption ==
    /\ Deny \subseteq Matched /\ Matched \subseteq Keys
    /\ Enforce \in BOOLEAN /\ Keys # {}
    /\ MaxEvents \in Nat /\ MaxTime \in Nat /\ Window \in Nat
    /\ QueueSize \in Nat \ {0} /\ ChannelSize \in Nat \ {0} /\ CacheSize \in Nat \ {0}

VARIABLES
    happened,   \* the number of accesses so far
    event,      \* the key of each, and whether it needs permission
    verdict,    \* what the kernel told the accessing process
    queue,      \* the fanotify queue; Overflow stands for FAN_Q_OVERFLOW
    lost,       \* accesses the full queue had no room for
    now,        \* the clock
    pc, batch, attempt,  \* the loop: next step, events read, write attempts
    position,   \* each key's place in the dedupe buffer: 1 newest, 0 absent
    stamp,      \* when each key was recorded there
    channel,    \* events sent and not yet received
    receiving,  \* the forwarding task is alive
    counted,    \* events in the metrics
    logged,     \* events logged, audited and broadcast
    overflows,  \* metrics: queue overflows
    failed,     \* events with a response_write_failure
    reported    \* history: when the loop last let each key through, or Never

kernelVars == <<happened, event, verdict, queue, lost>>
loopVars == <<pc, batch, attempt>>
dedupeVars == <<position, stamp, reported>>
sinkVars == <<receiving, counted, logged>>
vars == <<kernelVars, now, loopVars, dedupeVars, channel, sinkVars, overflows, failed>>

Events == 1..MaxEvents
Overflow == 0
Never == 0 - 1
LoopSteps == {"read", "write", "dedupe", "send", "stopped"}

TypeOK ==
    /\ happened \in 0..MaxEvents
    /\ event \in [Events -> [key : Keys, perm : BOOLEAN]]
    /\ verdict \in [Events -> {"none", "allow", "deny"}]
    /\ queue \in Seq(0..MaxEvents) /\ batch \in Seq(0..MaxEvents)
    /\ lost \subseteq Events /\ failed \subseteq Events
    /\ now \in 0..MaxTime
    /\ pc \in LoopSteps
    /\ attempt \in 0..MaxRetries - 1
    /\ position \in [Keys -> 0..CacheSize]
    /\ stamp \in [Keys -> 0..MaxTime]
    /\ reported \in [Keys -> {Never} \cup 0..MaxTime]
    /\ channel \in Seq(Events) /\ Len(channel) <= ChannelSize
    /\ receiving \in BOOLEAN
    /\ counted \subseteq Events /\ logged \subseteq Events
    /\ overflows \in Nat

\* Guard::new, and the start of the loop and of the forwarding task.
Init ==
    /\ happened = 0
    /\ event = [e \in Events |-> [key |-> CHOOSE k \in Keys : TRUE, perm |-> FALSE]]
    /\ verdict = [e \in Events |-> "none"]
    /\ queue = <<>> /\ batch = <<>> /\ channel = <<>>
    /\ lost = {} /\ failed = {} /\ counted = {} /\ logged = {}
    /\ now = 0 /\ attempt = 0 /\ overflows = 0
    /\ pc = "read"
    /\ position = [k \in Keys |-> 0]
    /\ stamp = [k \in Keys |-> 0]
    /\ reported = [k \in Keys |-> Never]
    /\ receiving = TRUE

-----------------------------------------------------------------------------
(* The kernel *)

\* events_to_mask: only an enforcing guard asks for permission events; it may
\* ask for notifications (close, modify) as well.
NewEvent(k, perm) ==
    /\ pc # "stopped" /\ happened < MaxEvents
    /\ perm => Enforce
    /\ happened' = happened + 1
    /\ event' = [event EXCEPT ![happened'] = [key |-> k, perm |-> perm]]

Access(k, perm) ==
    /\ NewEvent(k, perm)
    /\ Len(queue) < QueueSize
    /\ queue' = Append(queue, happened')
    /\ UNCHANGED <<verdict, lost, now, loopVars, dedupeVars, channel, sinkVars, overflows, failed>>

\* A full queue: the access goes ahead and an overflow event is queued once.
AccessLost(k, perm) ==
    /\ NewEvent(k, perm)
    /\ Len(queue) >= QueueSize
    /\ lost' = lost \cup {happened'}
    /\ verdict' = [verdict EXCEPT ![happened'] = IF perm THEN "allow" ELSE "none"]
    /\ queue' = IF queue[Len(queue)] = Overflow THEN queue ELSE Append(queue, Overflow)
    /\ UNCHANGED <<now, loopVars, dedupeVars, channel, sinkVars, overflows, failed>>

Tick ==
    /\ now < MaxTime
    /\ now' = now + 1
    /\ UNCHANGED <<kernelVars, loopVars, dedupeVars, channel, sinkVars, overflows, failed>>

-----------------------------------------------------------------------------
(* Guard::guard *)

Current == Head(batch)
CurrentKey == event[Current].key
NextStep == IF Tail(batch) = <<>> THEN "read" ELSE "write"
EndOfEvent == batch' = Tail(batch) /\ pc' = NextStep

\* read_events takes as many events as fit its buffer.
ReadEvents ==
    /\ pc = "read"
    /\ \E n \in 1..Len(queue) :
         /\ batch' = SubSeq(queue, 1, n)
         /\ queue' = SubSeq(queue, n + 1, Len(queue))
    /\ pc' = "write"
    /\ UNCHANGED <<happened, event, verdict, lost, now, attempt, dedupeVars, channel, sinkVars,
                   overflows, failed>>

HandleQueueOverflowSilent ==
    /\ pc = "write" /\ Current = Overflow
    /\ EndOfEvent
    /\ UNCHANGED <<kernelVars, now, attempt, dedupeVars, channel, sinkVars, overflows, failed>>

\* handle_queue_overflow, and continue with the next event.
HandleQueueOverflow ==
    /\ pc = "write" /\ Current = Overflow
    /\ overflows' = overflows + 1
    /\ EndOfEvent
    /\ UNCHANGED <<kernelVars, now, attempt, dedupeVars, channel, sinkVars, failed>>

\* process_event: evaluate the policy if enforcing, else audit.
Response(k) ==
    IF ~Enforce THEN "audit" ELSE IF k \in Deny THEN "deny" ELSE "allow"

\* An entry still in the dedupe buffer once clear_expired has run.
Live(k) == position[k] > 0 /\ now - stamp[k] <= Window

WriteFrame == UNCHANGED <<happened, event, queue, lost, now, batch, dedupeVars, channel, sinkVars, overflows>>

\* write_permission_response: the write succeeds, ...
Answer(v) ==
    /\ pc = "write" /\ Current # Overflow
    /\ event[Current].perm
    /\ verdict' = [verdict EXCEPT ![Current] = v]
    /\ pc' = "dedupe" /\ attempt' = 0
    /\ UNCHANGED failed /\ WriteFrame

WriteSucceedsForRepeats == Answer(IF Response(CurrentKey) = "deny" /\ ~Live(CurrentKey) THEN "deny" ELSE "allow")
WriteSucceeds == Answer(IF Response(CurrentKey) = "deny" THEN "deny" ELSE "allow")

WriteAgainUnrecorded ==
    /\ pc = "write" /\ Current # Overflow
    /\ event[Current].perm
    /\ \/ attempt < MaxRetries - 1 /\ attempt' = attempt + 1 /\ UNCHANGED pc
       \/ attempt = MaxRetries - 1 /\ attempt' = 0 /\ pc' = "dedupe"
    /\ UNCHANGED <<verdict, failed>> /\ WriteFrame

WriteAgainForever ==
    /\ pc = "write" /\ Current # Overflow
    /\ event[Current].perm
    /\ attempt' = (attempt + 1) % MaxRetries
    /\ UNCHANGED <<pc, verdict, failed>> /\ WriteFrame

\* ... or returns EAGAIN and is tried again, MAX_RETRIES times in all, ...
WriteAgain ==
    /\ pc = "write" /\ Current # Overflow
    /\ event[Current].perm
    /\ \/ /\ attempt < MaxRetries - 1
          /\ attempt' = attempt + 1
          /\ UNCHANGED <<pc, failed>>
       \/ /\ attempt = MaxRetries - 1
          /\ attempt' = 0 /\ pc' = "dedupe"
          /\ failed' = failed \cup {Current}
    /\ UNCHANGED verdict /\ WriteFrame

\* ... or fails for good, as it always does for an event nobody waits on.
WriteFails ==
    /\ pc = "write" /\ Current # Overflow
    /\ pc' = "dedupe" /\ attempt' = 0
    /\ failed' = failed \cup {Current}
    /\ UNCHANGED verdict /\ WriteFrame

\* check_and_record: drop the expired entries; a key still there is a
\* duplicate, another one is recorded, evicting the oldest if there is no room.
DedupeFrame == UNCHANGED <<kernelVars, now, attempt, channel, sinkVars, overflows, failed>>
ClearExpired == position' = [k \in Keys |-> IF Live(k) THEN position[k] ELSE 0]
Record(room) ==
    /\ position' = [k \in Keys |->
         IF k = CurrentKey THEN 1 ELSE IF Live(k) /\ position[k] < room THEN position[k] + 1 ELSE 0]
    /\ stamp' = [stamp EXCEPT ![CurrentKey] = now]
    /\ reported' = [reported EXCEPT ![CurrentKey] = now]

DuplicateRefreshed ==
    /\ pc = "dedupe" /\ Live(CurrentKey)
    /\ ClearExpired /\ EndOfEvent
    /\ stamp' = [stamp EXCEPT ![CurrentKey] = now]
    /\ UNCHANGED reported /\ DedupeFrame

Duplicate ==
    /\ pc = "dedupe" /\ Live(CurrentKey)
    /\ ClearExpired /\ EndOfEvent
    /\ UNCHANGED <<stamp, reported>> /\ DedupeFrame

FreshEvictsNone ==
    /\ pc = "dedupe" /\ ~Live(CurrentKey)
    /\ Record(CacheSize + 1)
    /\ pc' = "send"
    /\ UNCHANGED batch /\ DedupeFrame

Fresh ==
    /\ pc = "dedupe" /\ ~Live(CurrentKey)
    /\ Record(CacheSize)
    /\ pc' = "send"
    /\ UNCHANGED batch /\ DedupeFrame

\* tx.send(access_event).await
Send ==
    /\ pc = "send" /\ receiving
    /\ Len(channel) < ChannelSize
    /\ channel' = Append(channel, Current)
    /\ EndOfEvent
    /\ UNCHANGED <<kernelVars, now, attempt, dedupeVars, sinkVars, overflows, failed>>

\* The receiver is gone: the loop ends, the Guard is dropped and the kernel
\* lets every waiting process go on.
SendFails ==
    /\ pc = "send" /\ ~receiving
    /\ pc' = "stopped" /\ batch' = <<>> /\ queue' = <<>>
    /\ verdict' = [e \in Events |->
         IF e <= happened /\ event[e].perm /\ verdict[e] = "none" THEN "allow" ELSE verdict[e]]
    /\ UNCHANGED <<happened, event, lost, now, attempt, dedupeVars, channel, sinkVars, overflows, failed>>

-----------------------------------------------------------------------------
(* spawn_event_forwarding_task *)

\* Count every event; log, audit and broadcast those that match a pattern.
Forward ==
    /\ receiving /\ channel # <<>>
    /\ counted' = counted \cup {Head(channel)}
    /\ logged' = logged \cup {e \in {Head(channel)} : event[e].key \in Matched}
    /\ channel' = Tail(channel)
    /\ UNCHANGED <<kernelVars, now, loopVars, dedupeVars, receiving, overflows, failed>>

\* The task panics: its receiver is dropped with what is in the channel.
ForwarderDies ==
    /\ receiving
    /\ receiving' = FALSE /\ channel' = <<>>
    /\ UNCHANGED <<kernelVars, now, loopVars, dedupeVars, counted, logged, overflows, failed>>

GuardLoop ==
    \/ ReadEvents \/ HandleQueueOverflow
    \/ WriteSucceeds \/ WriteAgain \/ WriteFails
    \/ Duplicate \/ Fresh
    \/ Send \/ SendFails

Next ==
    \/ \E k \in Keys, perm \in BOOLEAN : Access(k, perm) \/ AccessLost(k, perm)
    \/ Tick \/ GuardLoop \/ Forward \/ ForwarderDies

Spec == Init /\ [][Next]_vars

\* tokio keeps running both tasks.
FairSpec == Spec /\ WF_vars(GuardLoop) /\ WF_vars(Forward)

-----------------------------------------------------------------------------
(* Properties *)

\* No access the policy denies goes ahead, neither a repeated one that the
\* dedupe cache keeps from the stream nor one whose answer takes retries,
\* unless the kernel's queue was full or the guard is gone.
DenialsHold ==
    \A e \in Events :
        Response(event[e].key) = "deny" /\ verdict[e] = "allow" => e \in lost \/ pc = "stopped"

\* Nothing is reported before it is settled: an event in the channel or in the
\* metrics has had its answer, or its failure is in the metrics.
ReportedIsSettled ==
    \A e \in Events :
        /\ event[e].perm
        /\ e \in counted \/ \E i \in 1..Len(channel) : channel[i] = e
        => verdict[e] # "none" \/ e \in failed

\* No silent loss: after the kernel dropped an event, the overflow has been
\* counted or its marker is on the way to handle_queue_overflow.
LossReported ==
    lost # {} => \/ overflows > 0 \/ pc = "stopped"
                 \/ \E i \in 1..Len(queue) : queue[i] = Overflow
                 \/ \E i \in 1..Len(batch) : batch[i] = Overflow

\* A burst of one key is reported at least once per window: an event is only
\* suppressed if the same key was let through at most a window ago.
SuppressedOnlyRecent ==
    [][pc = "dedupe" /\ pc' \notin {"dedupe", "send"} =>
         reported[CurrentKey] # Never /\ now - reported[CurrentKey] <= Window]_vars

\* No process hangs unnoticed: every permission event is answered, or the
\* failure is recorded, however slow the forwarding task is.
PermissionsAnswered ==
    \A e \in Events :
        (e <= happened /\ event[e].perm) ~> (verdict[e] # "none" \/ e \in failed)

Quiet == pc = "read" /\ channel = <<>> /\ receiving

\* dedupe.rs: "Denied events must still be logged even if deduplicated for
\* streaming".
DeniedLogged ==
    Quiet => \A e \in Events : verdict[e] = "deny" => e \in logged
=============================================================================
