------------------------- MODULE GuardPipelineProofs -------------------------
(***************************************************************************)
(* Proofs about GuardPipeline for any policy, any number of events and any *)
(* sizes of queue, channel and dedupe buffer.  The inductive invariant     *)
(* says where the loop is with its current event (Shape) and that a live   *)
(* dedupe entry remembers the last report of its key (BufferExact).        *)
(***************************************************************************)
EXTENDS GuardPipeline, SequenceTheorems, TLAPS

Ids == 0..MaxEvents
InLoop == {"write", "dedupe", "send"}

\* An event whose process has its answer, or whose failure is recorded.
Settled(e) == event[e].perm => verdict[e] # "none" \/ e \in failed

\* Only events that have happened are anywhere in the pipeline.
Known(s) == \A i \in 1..Len(s) : s[i] <= happened

Shape ==
    /\ pc \in InLoop => batch # <<>>
    /\ pc \in {"dedupe", "send"} => Current # Overflow /\ Settled(Current)
    /\ Known(queue) /\ Known(batch) /\ Known(channel)
    /\ \A e \in counted : e <= happened
    /\ \A e \in Events : e > happened => verdict[e] = "none"

\* What is still in the dedupe buffer was recorded when it was last reported.
BufferExact == \A k \in Keys : position[k] > 0 => reported[k] = stamp[k]

IInv == TypeOK /\ Shape /\ DenialsHold /\ ReportedIsSettled /\ BufferExact

\* A nonempty sequence of ids has an id at its head, and its tail's elements
\* are among its own.
LEMMA HeadTail ==
    ASSUME NEW S, NEW s \in Seq(S), s # <<>>
    PROVE  /\ Head(s) \in S /\ Head(s) = s[1] /\ 1 \in 1..Len(s)
           /\ Tail(s) \in Seq(S) /\ Len(Tail(s)) = Len(s) - 1
           /\ \A i \in 1..Len(Tail(s)) : Tail(s)[i] = s[i + 1] /\ i + 1 \in 1..Len(s)
  <1>1. Len(s) \in Nat \ {0}
    BY EmptySeq
  <1> QED BY <1>1

\* The pieces read_events cuts the queue into.
LEMMA Pieces ==
    ASSUME NEW S, NEW s \in Seq(S), NEW n \in 1..Len(s)
    PROVE  /\ SubSeq(s, 1, n) \in Seq(S) /\ SubSeq(s, 1, n) # <<>>
           /\ SubSeq(s, n + 1, Len(s)) \in Seq(S)
           /\ \A i \in 1..Len(SubSeq(s, 1, n)) : SubSeq(s, 1, n)[i] = s[i] /\ i \in 1..Len(s)
           /\ \A i \in 1..Len(SubSeq(s, n + 1, Len(s))) :
                SubSeq(s, n + 1, Len(s))[i] = s[i + n] /\ i + n \in 1..Len(s)
  <1>0. Len(s) \in Nat
    BY LenProperties
  <1>1. /\ SubSeq(s, 1, n) \in Seq(S) /\ Len(SubSeq(s, 1, n)) = n
        /\ \A i \in 1..n : SubSeq(s, 1, n)[i] = s[i]
    BY <1>0, SubSeqProperties
  <1>2. /\ SubSeq(s, n + 1, Len(s)) \in Seq(S) /\ Len(SubSeq(s, n + 1, Len(s))) = Len(s) - n
        /\ \A i \in 1..Len(s) - n : SubSeq(s, n + 1, Len(s))[i] = s[i + n]
    BY <1>0, SubSeqProperties
  <1>3. SubSeq(s, 1, n) # <<>>
    BY <1>1, EmptySeq
  <1> QED BY <1>0, <1>1, <1>2, <1>3

\* The end of an iteration over the batch keeps the loop well-formed.
LEMMA EndOfEventShape ==
    ASSUME TypeOK, Shape, pc \in InLoop, EndOfEvent, happened' = happened
    PROVE  /\ batch' \in Seq(Ids) /\ pc' \in {"read", "write"}
           /\ pc' = "write" => batch' # <<>>
           /\ Known(batch)'
  <1>1. batch \in Seq(Ids) /\ batch # <<>>
    BY DEF TypeOK, Shape, Ids
  <1>2. /\ Tail(batch) \in Seq(Ids)
        /\ \A i \in 1..Len(Tail(batch)) : Tail(batch)[i] = batch[i + 1] /\ i + 1 \in 1..Len(batch)
    BY <1>1, HeadTail
  <1> QED BY <1>1, <1>2 DEF EndOfEvent, NextStep, Shape, Known

\* The event the loop works on exists and has happened.
LEMMA CurrentHappened ==
    ASSUME TypeOK, Shape, pc \in InLoop, Current # Overflow
    PROVE  Current \in Events /\ Current <= happened
  <1>1. batch \in Seq(Ids) /\ batch # <<>>
    BY DEF TypeOK, Shape, Ids
  <1>2. Head(batch) \in Ids /\ Head(batch) = batch[1] /\ 1 \in 1..Len(batch)
    BY <1>1, HeadTail
  <1> QED BY <1>2, ConstantsAssumption DEF Current, Overflow, Ids, Events, Shape, Known

LEMMA InitIInv == Init => IInv
  <1> SUFFICES ASSUME Init PROVE IInv
    OBVIOUS
  <1> USE ConstantsAssumption
  <1>1. (CHOOSE k \in Keys : TRUE) \in Keys
    OBVIOUS
  <1>2. TypeOK
    BY <1>1 DEF Init, TypeOK, LoopSteps, MaxRetries, Never
  <1>3. Shape
    BY DEF Init, Shape, InLoop, Known
  <1>4. DenialsHold /\ ReportedIsSettled /\ BufferExact
    BY DEF Init, DenialsHold, ReportedIsSettled, BufferExact
  <1> QED BY <1>2, <1>3, <1>4 DEF IInv

\* A new access touches nothing that has happened before.
LEMMA AccessIInv ==
    ASSUME IInv, NEW k \in Keys, NEW perm \in BOOLEAN, Access(k, perm) \/ AccessLost(k, perm)
    PROVE  IInv'
  <1> USE ConstantsAssumption DEF IInv
  <1> DEFINE n == happened + 1
  <1>1. /\ happened \in 0..MaxEvents /\ happened' = n /\ n \in Events /\ happened' \in 0..MaxEvents
        /\ event' = [event EXCEPT ![n] = [key |-> k, perm |-> perm]]
        /\ UNCHANGED <<now, pc, batch, attempt, position, stamp, reported, channel, receiving,
                       counted, logged, overflows, failed>>
    <2>1. NewEvent(k, perm) /\ happened \in 0..MaxEvents
      BY DEF Access, AccessLost, TypeOK
    <2>2. happened' = n /\ happened < MaxEvents
      BY <2>1 DEF NewEvent
    <2>3. event' = [event EXCEPT ![n] = [key |-> k, perm |-> perm]]
      BY <2>1, <2>2 DEF NewEvent
    <2>4. UNCHANGED <<now, pc, batch, attempt, position, stamp, reported, channel, receiving,
                      counted, logged, overflows, failed>>
      BY DEF Access, AccessLost, loopVars, dedupeVars, sinkVars
    <2> QED BY <2>1, <2>2, <2>3, <2>4 DEF Events
  <1>2. /\ event' \in [Events -> [key : Keys, perm : BOOLEAN]]
        /\ \A e \in Events \ {n} : event'[e] = event[e]
    BY <1>1 DEF TypeOK
  <1>3. /\ queue' \in Seq(Ids)
        /\ \A i \in 1..Len(queue') : queue'[i] <= n
    <2>0. queue \in Seq(Ids) /\ Len(queue) \in Nat /\ n \in Ids /\ Overflow \in Ids
      BY <1>1 DEF TypeOK, Ids, Events, Overflow
    <2>1. queue' = queue \/ \E x \in {n, Overflow} : queue' = Append(queue, x)
      BY <1>1 DEF Access, AccessLost
    <2>2. \A i \in 1..Len(queue) : queue[i] \in Ids /\ queue[i] <= n
      BY <1>1, <2>0 DEF Shape, Known, Ids
    <2>3. CASE queue' = queue
      BY <2>0, <2>2, <2>3
    <2>4. ASSUME NEW x \in {n, Overflow}, queue' = Append(queue, x)
          PROVE  <1>3!1 /\ <1>3!2
      <3>1. x \in Ids /\ x <= n
        BY <1>1, <2>0 DEF Overflow
      <3> QED BY <2>0, <2>2, <2>4, <3>1
    <2> QED BY <2>1, <2>3, <2>4
  <1>4. /\ verdict' \in [Events -> {"none", "allow", "deny"}]
        /\ \A e \in Events \ {n} : verdict'[e] = verdict[e]
        /\ lost' \subseteq Events /\ lost \subseteq lost'
        /\ verdict'[n] # "none" => n \in lost'
    <2>1. verdict[n] = "none"
      BY <1>1 DEF Shape
    <2>2. CASE Access(k, perm)
      BY <1>1, <2>1, <2>2 DEF Access, TypeOK
    <2>3. CASE AccessLost(k, perm)
      BY <1>1, <2>3 DEF AccessLost, TypeOK
    <2> QED BY <2>2, <2>3
  <1>5. TypeOK'
    BY <1>1, <1>2, <1>3, <1>4 DEF TypeOK, Ids
  <1>6. pc \in {"dedupe", "send"} => Current' = Current /\ Current \in Events \ {n}
    <2>1. pc \in {"dedupe", "send"} => Current \in Events /\ Current <= happened
      BY CurrentHappened DEF Shape, InLoop
    <2> QED BY <1>1, <2>1 DEF Current
  <1>7. Shape'
    <2>1. (pc \in {"dedupe", "send"} => Current # Overflow /\ Settled(Current))'
      BY <1>1, <1>2, <1>4, <1>6 DEF Shape, Settled
    <2>2. Known(queue)' /\ Known(batch)' /\ Known(channel)'
      <3>0. batch \in Seq(Ids)
        BY DEF TypeOK, Ids
      <3>1. \A i \in 1..Len(batch) : batch[i] \in Ids
        BY <3>0
      <3>2. \A i \in 1..Len(channel) : channel[i] \in Events
        BY DEF TypeOK
      <3> QED BY <1>1, <1>3, <3>1, <3>2 DEF Shape, Known, Ids, Events
    <2>3. (\A e \in counted : e <= happened)'
      BY <1>1 DEF Shape, TypeOK, Events
    <2>4. (\A e \in Events : e > happened => verdict[e] = "none")'
      BY <1>1, <1>4 DEF Shape, Events
    <2> QED BY <1>1, <2>1, <2>2, <2>3, <2>4 DEF Shape
  <1>8. DenialsHold'
    BY <1>1, <1>2, <1>4 DEF DenialsHold, Response
  <1>9. ReportedIsSettled'
    <2>1. \A e \in Events : e \in counted \/ (\E i \in 1..Len(channel) : channel[i] = e) => e # n
      BY <1>1 DEF Shape, Known
    <2> QED BY <1>1, <1>2, <1>4, <2>1 DEF ReportedIsSettled
  <1>10. BufferExact'
    BY <1>1 DEF BufferExact
  <1> QED BY <1>5, <1>7, <1>8, <1>9, <1>10

\* read_events moves a prefix of the queue to the batch.
LEMMA ReadIInv == IInv /\ ReadEvents => IInv'
  <1> SUFFICES ASSUME IInv, ReadEvents PROVE IInv'
    OBVIOUS
  <1> USE ConstantsAssumption DEF IInv
  <1>1. PICK n \in 1..Len(queue) : batch' = SubSeq(queue, 1, n) /\ queue' = SubSeq(queue, n + 1, Len(queue))
    BY DEF ReadEvents
  <1>2. queue \in Seq(Ids)
    BY DEF TypeOK, Ids
  <1>3. /\ batch' \in Seq(Ids) /\ batch' # <<>> /\ queue' \in Seq(Ids)
        /\ \A i \in 1..Len(batch') : batch'[i] <= happened
        /\ \A i \in 1..Len(queue') : queue'[i] <= happened
    <2>1. /\ SubSeq(queue, 1, n) \in Seq(Ids) /\ SubSeq(queue, 1, n) # <<>>
          /\ SubSeq(queue, n + 1, Len(queue)) \in Seq(Ids)
          /\ \A i \in 1..Len(SubSeq(queue, 1, n)) : SubSeq(queue, 1, n)[i] = queue[i] /\ i \in 1..Len(queue)
          /\ \A i \in 1..Len(SubSeq(queue, n + 1, Len(queue))) :
               SubSeq(queue, n + 1, Len(queue))[i] = queue[i + n] /\ i + n \in 1..Len(queue)
      BY <1>2, Pieces
    <2>2. \A i \in 1..Len(queue) : queue[i] <= happened
      BY DEF Shape, Known
    <2>3. \A i \in 1..Len(batch') : batch'[i] <= happened
      BY <1>1, <2>1, <2>2
    <2>4. \A i \in 1..Len(queue') : queue'[i] <= happened
      BY <1>1, <2>1, <2>2
    <2> QED BY <1>1, <2>1, <2>3, <2>4
  <1>4. /\ pc = "read" /\ pc' = "write"
        /\ UNCHANGED <<happened, event, verdict, lost, now, attempt, position, stamp, reported,
                       channel, receiving, counted, logged, overflows, failed>>
    BY DEF ReadEvents, dedupeVars, sinkVars
  <1>5. TypeOK'
    BY <1>3, <1>4 DEF TypeOK, Ids, LoopSteps
  <1>6. Shape'
    BY <1>3, <1>4 DEF Shape, Known, InLoop
  <1>7. DenialsHold' /\ ReportedIsSettled' /\ BufferExact'
    BY <1>4 DEF DenialsHold, Response, ReportedIsSettled, BufferExact
  <1> QED BY <1>5, <1>6, <1>7

\* Steps that end with the current event and report nothing.
LEMMA SkipIInv == IInv /\ (HandleQueueOverflow \/ Duplicate) => IInv'
  <1> SUFFICES ASSUME IInv, HandleQueueOverflow \/ Duplicate PROVE IInv'
    OBVIOUS
  <1> USE ConstantsAssumption DEF IInv
  <1>1. /\ pc \in InLoop /\ EndOfEvent
        /\ UNCHANGED <<happened, event, verdict, queue, lost, now, attempt, stamp, reported,
                       channel, receiving, counted, logged, failed>>
    BY DEF HandleQueueOverflow, Duplicate, DedupeFrame, kernelVars, dedupeVars, sinkVars, InLoop
  <1>2. /\ batch' \in Seq(Ids) /\ pc' \in {"read", "write"}
        /\ pc' = "write" => batch' # <<>>
        /\ Known(batch)'
    BY <1>1, EndOfEventShape
  <1>3. /\ position' \in [Keys -> 0..CacheSize]
        /\ \A k \in Keys : position'[k] > 0 => position[k] > 0
    <2>1. position' = position \/ position' = [k \in Keys |-> IF Live(k) THEN position[k] ELSE 0]
      BY DEF HandleQueueOverflow, Duplicate, ClearExpired, dedupeVars
    <2>2. position \in [Keys -> 0..CacheSize] /\ 0 \in 0..CacheSize
      BY DEF TypeOK
    <2> QED BY <2>1, <2>2
  <1>4. overflows' \in Nat
    BY DEF HandleQueueOverflow, Duplicate, DedupeFrame, TypeOK
  <1>5. TypeOK'
    BY <1>1, <1>2, <1>3, <1>4 DEF TypeOK, Ids, LoopSteps
  <1>6. Shape'
    BY <1>1, <1>2 DEF Shape, Known, InLoop
  <1>7. DenialsHold'
    BY <1>1, <1>2 DEF DenialsHold, Response, InLoop
  <1>8. ReportedIsSettled' /\ BufferExact'
    BY <1>1, <1>3 DEF ReportedIsSettled, BufferExact
  <1> QED BY <1>5, <1>6, <1>7, <1>8

\* A write attempt answers the event, records its failure, or is repeated.
LEMMA WriteIInv == IInv /\ (WriteSucceeds \/ WriteAgain \/ WriteFails) => IInv'
  <1> SUFFICES ASSUME IInv, WriteSucceeds \/ WriteAgain \/ WriteFails PROVE IInv'
    OBVIOUS
  <1> USE ConstantsAssumption DEF IInv
  <1>1. /\ pc = "write" /\ Current # Overflow /\ pc' \in {"write", "dedupe"}
        /\ UNCHANGED <<happened, event, queue, lost, now, batch, position, stamp, reported,
                       channel, receiving, counted, logged, overflows>>
    BY DEF WriteSucceeds, Answer, WriteAgain, WriteFails, WriteFrame, dedupeVars, sinkVars
  <1>2. Current \in Events /\ Current <= happened /\ Current' = Current
    BY <1>1, CurrentHappened DEF InLoop, Current
  <1>3. attempt' \in 0..MaxRetries - 1
    BY DEF WriteSucceeds, Answer, WriteAgain, WriteFails, TypeOK, MaxRetries
  <1>4. /\ verdict' \in [Events -> {"none", "allow", "deny"}]
        /\ \A e \in Events \ {Current} : verdict'[e] = verdict[e]
        /\ failed' \subseteq Events /\ failed \subseteq failed'
        /\ verdict'[Current] = "none" => verdict[Current] = "none"
        /\ pc' = "dedupe" => verdict'[Current] # "none" \/ Current \in failed'
        /\ Response(CurrentKey) = "deny" /\ verdict'[Current] = "allow" => verdict[Current] = "allow"
    <2>1. CASE WriteSucceeds
      BY <1>2, <2>1 DEF WriteSucceeds, Answer, TypeOK
    <2>2. CASE WriteAgain
      BY <1>1, <1>2, <2>2 DEF WriteAgain, TypeOK
    <2>3. CASE WriteFails
      BY <1>2, <2>3 DEF WriteFails, TypeOK
    <2> QED BY <2>1, <2>2, <2>3
  <1>5. TypeOK'
    BY <1>1, <1>3, <1>4 DEF TypeOK, LoopSteps
  <1>6. Shape'
    <2>1. (pc \in {"dedupe", "send"} => Current # Overflow /\ Settled(Current))'
      BY <1>1, <1>2, <1>4 DEF Settled
    <2>2. (pc \in InLoop => batch # <<>>)'
      BY <1>1 DEF Shape, InLoop
    <2>3. Known(queue)' /\ Known(batch)' /\ Known(channel)' /\ (\A e \in counted : e <= happened)'
      BY <1>1 DEF Shape, Known
    <2>4. (\A e \in Events : e > happened => verdict[e] = "none")'
      <3>1. happened \in Nat
        BY DEF TypeOK
      <3>2. \A e \in Events : e > happened => e # Current
        BY <1>2, <3>1 DEF Events
      <3> QED BY <1>1, <1>4, <3>2 DEF Shape
    <2> QED BY <2>1, <2>2, <2>3, <2>4 DEF Shape
  <1>7. DenialsHold'
    BY <1>1, <1>2, <1>4 DEF DenialsHold, Response, CurrentKey
  <1>8. ReportedIsSettled'
    BY <1>1, <1>4 DEF ReportedIsSettled
  <1>9. BufferExact'
    BY <1>1 DEF BufferExact
  <1> QED BY <1>5, <1>6, <1>7, <1>8, <1>9

\* A new key is recorded with the time of its report.
LEMMA FreshIInv == IInv /\ Fresh => IInv'
  <1> SUFFICES ASSUME IInv, Fresh PROVE IInv'
    OBVIOUS
  <1> USE ConstantsAssumption DEF IInv
  <1>1. /\ pc = "dedupe" /\ pc' = "send"
        /\ UNCHANGED <<happened, event, verdict, queue, lost, now, batch, attempt,
                       channel, receiving, counted, logged, overflows, failed>>
    BY DEF Fresh, DedupeFrame, kernelVars, sinkVars
  <1>2. Current \in Events /\ CurrentKey \in Keys
    BY <1>1, CurrentHappened DEF InLoop, Shape, CurrentKey, TypeOK
  <1>3. /\ stamp' = [stamp EXCEPT ![CurrentKey] = now]
        /\ reported' = [reported EXCEPT ![CurrentKey] = now]
    BY DEF Fresh, Record
  <1>4. /\ position' \in [Keys -> 0..CacheSize]
        /\ \A k \in Keys \ {CurrentKey} : position'[k] > 0 => position[k] > 0
    <2>1. position \in [Keys -> 0..CacheSize]
      BY DEF TypeOK
    <2>2. position' = [k \in Keys |->
            IF k = CurrentKey THEN 1
            ELSE IF Live(k) /\ position[k] < CacheSize THEN position[k] + 1 ELSE 0]
      BY DEF Fresh, Record
    <2>3. \A k \in Keys : position'[k] \in 0..CacheSize
      BY <2>1, <2>2
    <2>4. \A k \in Keys \ {CurrentKey} : position'[k] > 0 => Live(k)
      BY <2>2
    <2>5. \A k \in Keys : Live(k) => position[k] > 0
      BY DEF Live
    <2> QED BY <2>2, <2>3, <2>4, <2>5
  <1>5. /\ stamp' \in [Keys -> 0..MaxTime]
        /\ reported' \in [Keys -> {Never} \cup 0..MaxTime]
    BY <1>2, <1>3 DEF TypeOK
  <1>6. TypeOK'
    BY <1>1, <1>4, <1>5 DEF TypeOK, LoopSteps
  <1>7. Shape'
    BY <1>1 DEF Shape, Known, InLoop, Current, Settled
  <1>8. DenialsHold' /\ ReportedIsSettled'
    BY <1>1 DEF DenialsHold, Response, ReportedIsSettled
  <1>9. BufferExact'
    BY <1>2, <1>3, <1>4 DEF BufferExact, TypeOK
  <1> QED BY <1>6, <1>7, <1>8, <1>9

\* Only a settled event enters the channel.
LEMMA SendIInv == IInv /\ Send => IInv'
  <1> SUFFICES ASSUME IInv, Send PROVE IInv'
    OBVIOUS
  <1> USE ConstantsAssumption DEF IInv
  <1>1. /\ pc = "send" /\ pc \in InLoop /\ EndOfEvent /\ Len(channel) < ChannelSize
        /\ channel' = Append(channel, Current)
        /\ UNCHANGED <<happened, event, verdict, queue, lost, now, attempt, position, stamp, reported,
                       receiving, counted, logged, overflows, failed>>
    BY DEF Send, kernelVars, dedupeVars, sinkVars, InLoop
  <1>2. /\ batch' \in Seq(Ids) /\ pc' \in {"read", "write"}
        /\ pc' = "write" => batch' # <<>>
        /\ Known(batch)'
    BY <1>1, EndOfEventShape
  <1>3. Current \in Events /\ Current <= happened /\ Settled(Current)
    BY <1>1, CurrentHappened DEF Shape
  <1>4. channel \in Seq(Events) /\ Len(channel) \in Nat
    BY DEF TypeOK
  <1>5. /\ channel' \in Seq(Events) /\ Len(channel') = Len(channel) + 1 /\ Len(channel') <= ChannelSize
        /\ \A i \in 1..Len(channel) : channel'[i] = channel[i]
        /\ channel'[Len(channel) + 1] = Current
    BY <1>1, <1>3, <1>4
  <1>6. \A i \in 1..Len(channel') : channel'[i] = Current \/ \E j \in 1..Len(channel) : channel'[i] = channel[j]
    BY <1>4, <1>5
  <1>7. TypeOK'
    BY <1>1, <1>2, <1>5 DEF TypeOK, Ids, LoopSteps
  <1>8. Shape'
    BY <1>1, <1>2, <1>3, <1>6 DEF Shape, Known, InLoop
  <1>9. DenialsHold' /\ BufferExact'
    BY <1>1, <1>2 DEF DenialsHold, Response, BufferExact
  <1>10. ReportedIsSettled'
    BY <1>1, <1>3, <1>6 DEF ReportedIsSettled, Settled
  <1> QED BY <1>7, <1>8, <1>9, <1>10

\* When the loop ends the kernel lets the waiting processes go.
LEMMA StopIInv == IInv /\ SendFails => IInv'
  <1> SUFFICES ASSUME IInv, SendFails PROVE IInv'
    OBVIOUS
  <1> USE ConstantsAssumption DEF IInv
  <1>1. /\ pc' = "stopped" /\ batch' = <<>> /\ queue' = <<>>
        /\ UNCHANGED <<happened, event, lost, now, attempt, position, stamp, reported,
                       channel, receiving, counted, logged, overflows, failed>>
    BY DEF SendFails, dedupeVars, sinkVars
  <1>2. /\ verdict' \in [Events -> {"none", "allow", "deny"}]
        /\ \A e \in Events : verdict'[e] = "none" => verdict[e] = "none"
        /\ \A e \in Events : e > happened => verdict'[e] = verdict[e]
    <2>1. \A e \in Events : \/ verdict'[e] = verdict[e]
                            \/ e <= happened /\ verdict'[e] = "allow"
      BY DEF SendFails
    <2>2. DOMAIN verdict' = Events /\ happened \in Nat /\ verdict' = [e \in Events |-> verdict'[e]]
      BY DEF SendFails, TypeOK
    <2>3. verdict \in [Events -> {"none", "allow", "deny"}]
      BY DEF TypeOK
    <2>4. \A e \in Events : verdict'[e] \in {"none", "allow", "deny"}
      BY <2>1, <2>3
    <2>5. \A e \in Events : verdict'[e] = "none" => verdict[e] = "none"
      BY <2>1
    <2>6. \A e \in Events : e > happened => verdict'[e] = verdict[e]
      BY <2>1, <2>2 DEF Events
    <2> QED BY <2>2, <2>4, <2>5, <2>6
  <1>3. TypeOK'
    <2>1. batch' \in Seq(0..MaxEvents) /\ queue' \in Seq(0..MaxEvents)
      BY <1>1
    <2> QED BY <1>1, <1>2, <2>1 DEF TypeOK, LoopSteps
  <1>4. Shape'
    BY <1>1, <1>2 DEF Shape, Known, InLoop
  <1>5. DenialsHold' /\ ReportedIsSettled' /\ BufferExact'
    BY <1>1, <1>2 DEF DenialsHold, ReportedIsSettled, BufferExact
  <1> QED BY <1>3, <1>4, <1>5

\* The forwarding task only moves what the loop settled, and time only passes.
LEMMA ForwardIInv == IInv /\ (Forward \/ ForwarderDies \/ Tick) => IInv'
  <1> SUFFICES ASSUME IInv, Forward \/ ForwarderDies \/ Tick PROVE IInv'
    OBVIOUS
  <1> USE ConstantsAssumption DEF IInv
  <1>1. UNCHANGED <<happened, event, verdict, queue, lost, pc, batch, attempt, position, stamp,
                    reported, overflows, failed>>
    BY DEF Forward, ForwarderDies, Tick, kernelVars, loopVars, dedupeVars
  <1>2. channel \in Seq(Events)
    BY DEF TypeOK
  <1>3. /\ channel' \in Seq(Events) /\ Len(channel') <= ChannelSize
        /\ \A i \in 1..Len(channel') : \E j \in 1..Len(channel) : channel'[i] = channel[j]
        /\ \A e \in counted' : e \in counted \/ \E j \in 1..Len(channel) : e = channel[j]
        /\ counted' \subseteq Events /\ logged' \subseteq Events
        /\ receiving' \in BOOLEAN /\ now' \in 0..MaxTime
    <2>1. CASE Forward
      <3>1. channel # <<>> /\ channel' = Tail(channel) /\ counted' = counted \cup {Head(channel)}
            /\ logged' \subseteq logged \cup {Head(channel)} /\ receiving' = receiving /\ now' = now
        BY <2>1 DEF Forward
      <3>2. /\ Head(channel) \in Events /\ Head(channel) = channel[1] /\ 1 \in 1..Len(channel)
            /\ Tail(channel) \in Seq(Events) /\ Len(Tail(channel)) = Len(channel) - 1
            /\ \A i \in 1..Len(Tail(channel)) : Tail(channel)[i] = channel[i + 1] /\ i + 1 \in 1..Len(channel)
        BY <1>2, <3>1, HeadTail
      <3>3. Len(channel) \in Nat /\ Len(channel) <= ChannelSize
        BY <1>2 DEF TypeOK
      <3>4. channel' \in Seq(Events) /\ Len(channel') <= ChannelSize
        BY <3>1, <3>2, <3>3
      <3>5. \A i \in 1..Len(channel') : \E j \in 1..Len(channel) : channel'[i] = channel[j]
        BY <3>1, <3>2
      <3>6. \A e \in counted' : e \in counted \/ \E j \in 1..Len(channel) : e = channel[j]
        BY <3>1, <3>2
      <3>7. counted' \subseteq Events /\ logged' \subseteq Events
        BY <3>1, <3>2 DEF TypeOK
      <3>8. receiving' \in BOOLEAN /\ now' \in 0..MaxTime
        BY <3>1 DEF TypeOK
      <3> QED BY <3>4, <3>5, <3>6, <3>7, <3>8
    <2>2. CASE ForwarderDies
      <3>1. channel' = <<>> /\ receiving' = FALSE /\ UNCHANGED <<counted, logged, now>>
        BY <2>2 DEF ForwarderDies
      <3>2. channel' \in Seq(Events) /\ Len(channel') = 0 /\ 0 <= ChannelSize
        BY <3>1
      <3>3. 1..Len(channel') = {}
        BY <3>2
      <3>4. /\ counted' \subseteq Events /\ logged' \subseteq Events
            /\ now' \in 0..MaxTime /\ receiving' \in BOOLEAN
        BY <3>1 DEF TypeOK
      <3> QED BY <3>1, <3>2, <3>3, <3>4
    <2>3. CASE Tick
      BY <2>3 DEF Tick, sinkVars, TypeOK
    <2> QED BY <2>1, <2>2, <2>3
  <1>4. TypeOK'
    BY <1>1, <1>3 DEF TypeOK
  <1>5. Shape'
    <2>1. Known(queue)' /\ Known(batch)' /\ Known(channel)' /\ (\A e \in counted : e <= happened)'
      BY <1>1, <1>3 DEF Shape, Known
    <2> QED BY <1>1, <2>1 DEF Shape, Current, Settled
  <1>6. DenialsHold' /\ BufferExact'
    BY <1>1 DEF DenialsHold, Response, BufferExact
  <1>7. ReportedIsSettled'
    BY <1>1, <1>3 DEF ReportedIsSettled
  <1> QED BY <1>4, <1>5, <1>6, <1>7

\* The invariant is inductive.
LEMMA Invariance == Spec => []IInv
  <1>1. IInv /\ [Next]_vars => IInv'
    <2> SUFFICES ASSUME IInv, [Next]_vars PROVE IInv'
      OBVIOUS
    <2>1. CASE UNCHANGED vars
      BY <2>1 DEF vars, kernelVars, loopVars, dedupeVars, sinkVars, IInv, TypeOK, Shape, Known,
         Settled, Current, DenialsHold, Response, ReportedIsSettled, BufferExact
    <2>2. CASE Next
      BY <2>2, AccessIInv, ReadIInv, SkipIInv, WriteIInv, FreshIInv, SendIInv, StopIInv, ForwardIInv
         DEF Next, GuardLoop
    <2> QED BY <2>1, <2>2
  <1> QED BY <1>1, InitIInv, PTL DEF Spec

\* No denied access goes ahead while the guard runs and its queue has room
\* (process_event, write_permission_response).
THEOREM DenialsAreEnforced == Spec => []DenialsHold
  BY Invariance, PTL DEF IInv

\* No event reaches the metrics, the log or the stream before its process has
\* an answer or the failure is recorded (guard, spawn_event_forwarding_task).
THEOREM ReportsFollowAnswers == Spec => []ReportedIsSettled
  BY Invariance, PTL DEF IInv

\* An event is suppressed only if its key was let through within the window
\* (check_and_record).
THEOREM BurstsAreReported == Spec => SuppressedOnlyRecent
  <1>1. IInv /\ [Next]_vars =>
          [pc = "dedupe" /\ pc' \notin {"dedupe", "send"} =>
             reported[CurrentKey] # Never /\ now - reported[CurrentKey] <= Window]_vars
    <2> SUFFICES ASSUME IInv, Next, pc = "dedupe", pc' \notin {"dedupe", "send"}
                 PROVE  reported[CurrentKey] # Never /\ now - reported[CurrentKey] <= Window
      OBVIOUS
    <2>1. Duplicate
      BY DEF Next, Access, AccessLost, Tick, GuardLoop, ReadEvents, HandleQueueOverflow, WriteSucceeds,
         Answer, WriteAgain, WriteFails, Fresh, Send, SendFails, Forward, ForwarderDies, loopVars
    <2>2. CurrentKey \in Keys
      BY CurrentHappened DEF IInv, Shape, InLoop, CurrentKey, TypeOK
    <2>3. reported[CurrentKey] = stamp[CurrentKey] /\ now - stamp[CurrentKey] <= Window
      BY <2>1, <2>2 DEF Duplicate, Live, IInv, BufferExact
    <2>4. stamp[CurrentKey] \in 0..MaxTime
      BY <2>2 DEF IInv, TypeOK
    <2> QED BY <2>3, <2>4 DEF Never
  <1> QED BY <1>1, Invariance, PTL DEF Spec, SuppressedOnlyRecent

-----------------------------------------------------------------------------
(* Overflows                                                                 *)

Marked(s) == \E i \in 1..Len(s) : s[i] = Overflow

\* A lost event leaves a marker, which the loop meets: it reads a new batch
\* only when it has done with the last one.
OInv == LossReported /\ (pc = "read" => batch = <<>>)

\* The marker stays where it is while the queue grows, or comes to its end.
LEMMA QueueMarked ==
    ASSUME TypeOK, NEW k, NEW perm, Access(k, perm) \/ AccessLost(k, perm)
    PROVE  /\ Marked(queue) => Marked(queue)'
           /\ AccessLost(k, perm) => Marked(queue)'
  <1> USE ConstantsAssumption
  <1>1. queue \in Seq(Ids) /\ Len(queue) \in Nat
    BY DEF TypeOK, Ids
  <1>2. ASSUME NEW x \in Ids, queue' = Append(queue, x)
        PROVE  /\ \A i \in 1..Len(queue) : i \in 1..Len(queue') /\ queue'[i] = queue[i]
               /\ Len(queue') \in 1..Len(queue') /\ queue'[Len(queue')] = x
    BY <1>1, <1>2
  <1>3. Overflow \in Ids
    BY DEF Overflow, Ids
  <1>4. CASE Access(k, perm)
    <2>1. happened' \in Ids /\ queue' = Append(queue, happened') /\ Len(queue) < QueueSize
      BY <1>4 DEF Access, NewEvent, TypeOK, Ids
    <2>2. ~AccessLost(k, perm)
      BY <1>1, <2>1 DEF AccessLost
    <2> QED BY <1>2, <2>1, <2>2 DEF Marked
  <1>5. CASE AccessLost(k, perm)
    <2>1. CASE queue[Len(queue)] = Overflow
      <3>1. queue' = queue /\ Len(queue) \in 1..Len(queue)
        BY <1>1, <1>5, <2>1 DEF AccessLost
      <3> QED BY <2>1, <3>1 DEF Marked
    <2>2. CASE queue[Len(queue)] # Overflow
      <3>1. queue' = Append(queue, Overflow)
        BY <1>5, <2>2 DEF AccessLost
      <3> QED BY <1>2, <1>3, <3>1 DEF Marked
    <2> QED BY <2>1, <2>2
  <1> QED BY <1>4, <1>5

\* read_events puts the marker into the batch or leaves it in the queue.
LEMMA ReadMarked ==
    ASSUME TypeOK, ReadEvents, Marked(queue)
    PROVE  Marked(queue)' \/ Marked(batch)'
  <1>1. queue \in Seq(Ids) /\ Len(queue) \in Nat
    BY DEF TypeOK, Ids
  <1>2. PICK n \in 1..Len(queue) :
            batch' = SubSeq(queue, 1, n) /\ queue' = SubSeq(queue, n + 1, Len(queue))
    BY DEF ReadEvents
  <1>3. PICK i \in 1..Len(queue) : queue[i] = Overflow
    BY DEF Marked
  <1>4. CASE i <= n
    <2>1. i \in 1..Len(batch') /\ batch'[i] = queue[i]
      BY <1>1, <1>2, <1>4, SubSeqProperties
    <2> QED BY <1>3, <2>1 DEF Marked
  <1>5. CASE i > n
    <2>1. /\ Len(queue') = Len(queue) - n
          /\ \A j \in 1..Len(queue) - n : queue'[j] = queue[j + n]
      BY <1>1, <1>2, SubSeqProperties
    <2>2. i - n \in 1..Len(queue') /\ queue'[i - n] = queue[(i - n) + n] /\ (i - n) + n = i
      BY <1>1, <1>5, <2>1
    <2> QED BY <1>3, <2>2 DEF Marked
  <1> QED BY <1>1, <1>4, <1>5

\* An event that is no marker leaves the batch, and the marker stays.
LEMMA EndMarked ==
    ASSUME TypeOK, Shape, pc \in InLoop, EndOfEvent
    PROVE  /\ pc' = "read" => batch' = <<>>
           /\ Current # Overflow /\ Marked(batch) => Marked(batch)'
  <1>1. batch \in Seq(Ids) /\ batch # <<>>
    BY DEF TypeOK, Shape, Ids
  <1>2. /\ Head(batch) = batch[1] /\ Len(batch) \in Nat
        /\ Len(Tail(batch)) = Len(batch) - 1
        /\ \A j \in 1..Len(Tail(batch)) : Tail(batch)[j] = batch[j + 1]
    BY <1>1, HeadTail
  <1>3. pc' = "read" => batch' = <<>>
    BY DEF EndOfEvent, NextStep
  <1>4. ASSUME Current # Overflow, NEW i \in 1..Len(batch), batch[i] = Overflow
        PROVE  Marked(batch)'
    <2>1. i # 1
      BY <1>2, <1>4 DEF Current
    <2>2. i - 1 \in 1..Len(Tail(batch)) /\ (i - 1) + 1 = i
      BY <1>2, <2>1
    <2>3. Tail(batch)[i - 1] = Overflow
      BY <1>2, <1>4, <2>2
    <2> QED BY <2>2, <2>3 DEF EndOfEvent, Marked
  <1> QED BY <1>3, <1>4 DEF Marked

LEMMA OverflowStep == IInv /\ OInv /\ [Next]_vars => OInv'
  <1> SUFFICES ASSUME IInv, OInv, [Next]_vars PROVE OInv'
    OBVIOUS
  <1>0. TypeOK /\ Shape /\ overflows \in Nat
    BY DEF IInv, TypeOK
  <1>1. ASSUME NEW k \in Keys, NEW perm \in BOOLEAN, Access(k, perm) \/ AccessLost(k, perm)
        PROVE  OInv'
    <2>1. /\ Marked(queue) => Marked(queue)'
          /\ AccessLost(k, perm) => Marked(queue)'
      BY <1>0, <1>1, QueueMarked
    <2>2. UNCHANGED <<batch, pc, overflows>> /\ (Access(k, perm) => UNCHANGED lost)
      BY <1>1 DEF Access, AccessLost, loopVars
    <2> QED BY <1>1, <2>1, <2>2 DEF OInv, LossReported, Marked
  <1>2. CASE ReadEvents
    <2>1. batch = <<>> /\ ~Marked(batch) /\ pc' # "read"
      BY <1>2 DEF ReadEvents, OInv, Marked
    <2>2. Marked(queue) => Marked(queue)' \/ Marked(batch)'
      BY <1>0, <1>2, ReadMarked
    <2>3. UNCHANGED <<lost, overflows>> /\ pc # "stopped"
      BY <1>2 DEF ReadEvents
    <2> QED BY <2>1, <2>2, <2>3 DEF OInv, LossReported, Marked
  <1>3. CASE HandleQueueOverflow
    <2>1. overflows' > 0
      BY <1>0, <1>3 DEF HandleQueueOverflow
    <2>2. pc' = "read" => batch' = <<>>
      BY <1>0, <1>3, EndMarked DEF HandleQueueOverflow, InLoop
    <2> QED BY <2>1, <2>2 DEF OInv, LossReported
  <1>4. CASE Duplicate \/ Send
    <2>1. /\ pc \in {"dedupe", "send"} /\ EndOfEvent
          /\ UNCHANGED <<queue, lost, overflows>>
      BY <1>4 DEF Duplicate, Send, DedupeFrame, kernelVars
    <2>2. Current # Overflow
      BY <1>0, <2>1 DEF Shape
    <2>3. /\ pc' = "read" => batch' = <<>>
          /\ Marked(batch) => Marked(batch)'
      BY <1>0, <2>1, <2>2, EndMarked DEF InLoop
    <2> QED BY <2>1, <2>3 DEF OInv, LossReported, Marked
  <1>5. CASE WriteSucceeds \/ WriteAgain \/ WriteFails \/ Fresh
    <2>1. pc' # "read" /\ pc # "stopped" /\ UNCHANGED <<queue, batch, lost, overflows>>
      BY <1>5 DEF WriteSucceeds, Answer, WriteAgain, WriteFails, WriteFrame, Fresh, DedupeFrame,
                  kernelVars
    <2> QED BY <2>1 DEF OInv, LossReported
  <1>6. CASE SendFails
    BY <1>6 DEF SendFails, OInv, LossReported
  <1>7. CASE Forward \/ ForwarderDies \/ Tick \/ UNCHANGED vars
    <2>1. UNCHANGED <<pc, queue, batch, lost, overflows>>
      BY <1>7 DEF Forward, ForwarderDies, Tick, vars, kernelVars, loopVars
    <2> QED BY <2>1 DEF OInv, LossReported
  <1> QED
    BY <1>1, <1>2, <1>3, <1>4, <1>5, <1>6, <1>7 DEF Next, GuardLoop

\* No event is lost in silence: whatever the queue's size and wherever in a
\* batch the overflow marker is, it is counted or on its way to
\* handle_queue_overflow.
THEOREM LossesAreReported == Spec => []LossReported
  <1>1. Init => OInv
    BY DEF Init, OInv, LossReported
  <1>2. OInv => LossReported
    BY DEF OInv
  <1> QED BY <1>1, <1>2, Invariance, OverflowStep, PTL DEF Spec
=============================================================================
