--------------------------- MODULE AccessRecords ---------------------------
(***************************************************************************)
(* What becomes of a denied or matched access after the guard has answered *)
(* it: the forwarding task (janusd/src/service.rs) asks /proc who did it   *)
(* (common/src/proc.rs), writes an audit record (janusd/src/audit.rs) and  *)
(* streams the event.  The tasks of all guards share one audit logger.     *)
(*                                                                         *)
(* A process is a number, in the order they are started; its pid may stand *)
(* for another one later.  /proc has five files per pid, read one after    *)
(* the other, and a read finds the process that has the pid then, or       *)
(* nothing (0).  The text of /proc/pid/stat is a sequence of characters.   *)
(***************************************************************************)
EXTENDS Naturals, Sequences, FiniteSets, SequencesExt

CONSTANTS
    Tasks,           \* forwarding tasks, one per guard
    Pids,
    Comms,           \* process names, sequences of characters
    MaxProcesses,    \* bound on the processes started
    MaxEvents,       \* bound on the accesses forwarded
    SeqLimit         \* 2^32 in the code

VARIABLES
    process,         \* per pid, the process that has it, or 0
    name,            \* per process, its name
    logger,          \* create_audit_logger: "netlink" or "null"
    sequence,        \* NetlinkAuditLogger.sequence
    pc, event, info, \* per task: next step, its event, what /proc said
    events,          \* accesses so far
    drawn,           \* history: per event, how many numbers were drawn before its own
    records,         \* the audit records the kernel got
    streamed,        \* the events broadcast
    dropped          \* history: events whose record was too long or not sent

procVars == <<process, name>>
auditVars == <<logger, sequence, drawn, records, dropped>>
vars == <<process, name, logger, sequence, pc, event, info, events, drawn, records, streamed,
          dropped>>

Parts == {"stat", "status", "exe", "cmdline", "cwd"}
Nobody == [p \in Parts |-> 0]

-----------------------------------------------------------------------------
(* /proc/pid/stat                                                            *)

\* What the kernel writes: the name in parentheses, the state, the parent.
StatOf(comm) == <<"1", " ", "(">> \o comm \o <<")", " ", "S", " ", "7", " ", "9">>

FirstIndex(s, ch) == CHOOSE i \in DOMAIN s : s[i] = ch /\ \A j \in 1..i - 1 : s[j] # ch
LastIndex(s, ch) == CHOOSE i \in DOMAIN s : s[i] = ch /\ \A j \in i + 1..Len(s) : s[j] # ch

ParseStatFirst(s) ==
    LET start == FirstIndex(s, "(")
        end == FirstIndex(s, ")")
        fields == SelectSeq(SubSeq(s, end + 2, Len(s)), LAMBDA ch : ch # " ")
    IN [comm |-> SubSeq(s, start + 1, end - 1), ppid |-> fields[2]]

\* parse_stat: the name is between the first '(' and the last ')', the parent
\* is the second field after it.  Fields are one character here.
ParseStat(s) ==
    LET start == FirstIndex(s, "(")
        end == LastIndex(s, ")")
        fields == SelectSeq(SubSeq(s, end + 2, Len(s)), LAMBDA ch : ch # " ")
    IN [comm |-> SubSeq(s, start + 1, end - 1), ppid |-> fields[2]]

-----------------------------------------------------------------------------

\* A message of to_audit_message is over 8192 bytes for some paths.
TooLong(e) == e.long

\* create_audit_logger: without the capability or the socket there is no
\* logging.
Init ==
    /\ process = [p \in Pids |-> 0]
    /\ name = <<>>
    /\ logger \in {"netlink", "null"}
    /\ sequence = 1 % SeqLimit
    /\ pc = [t \in Tasks |-> "recv"]
    /\ event = [t \in Tasks |-> [id |-> 0]]
    /\ info = [t \in Tasks |-> Nobody]
    /\ events = 0
    /\ drawn = <<>>
    /\ records = {}
    /\ streamed = <<>>
    /\ dropped = {}

\* The node: a process starts under a free pid, or ends.
Fork(p, comm) ==
    /\ process[p] = 0
    /\ Len(name) < MaxProcesses
    /\ name' = Append(name, comm)
    /\ process' = [process EXCEPT ![p] = Len(name')]
    /\ UNCHANGED <<auditVars, pc, event, info, events, streamed>>

Exit(p) ==
    /\ process[p] # 0
    /\ process' = [process EXCEPT ![p] = 0]
    /\ UNCHANGED <<name, auditVars, pc, event, info, events, streamed>>

\* A matched access of a live process reaches the task of its guard, which
\* counts and logs it.
ReceiveEvent(t, p, long) ==
    /\ pc[t] = "recv" /\ process[p] # 0
    /\ events < MaxEvents
    /\ events' = events + 1
    /\ event' = [event EXCEPT ![t] = [id |-> events', pid |-> p, by |-> process[p], long |-> long]]
    /\ pc' = [pc EXCEPT ![t] = "stat"]
    /\ UNCHANGED <<procVars, auditVars, info, streamed>>

-----------------------------------------------------------------------------
(* get_process_info                                                          *)

Reading == UNCHANGED <<procVars, auditVars, event, events, streamed>>
Found(t) == process[event[t].pid]
Reads(t, part, found, next) ==
    /\ pc[t] = part
    /\ info' = [info EXCEPT ![t][part] = found]
    /\ pc' = [pc EXCEPT ![t] = next]
    /\ Reading

\* A failure of either of the first two is an error, and the event is
\* recorded with nothing but its pid.
Required(t, part, next) ==
    /\ pc[t] = part
    /\ IF Found(t) # 0 THEN Reads(t, part, Found(t), next)
       ELSE /\ info' = [info EXCEPT ![t] = Nobody]
            /\ pc' = [pc EXCEPT ![t] = "audit"]
            /\ Reading

ReadStat(t) == Required(t, "stat", "status")

ReadStatusOrRoot(t) == Reads(t, "status", Found(t), "exe")

\* parse_status
ReadStatus(t) == Required(t, "status", "exe")

\* The links may be unreadable though the process is there, and are empty then.
ReadExe(t) == pc[t] = "exe" /\ \E found \in {Found(t), 0} : Reads(t, "exe", found, "cmdline")
ReadCmdline(t) == Reads(t, "cmdline", Found(t), "cwd")
ReadCwd(t) == pc[t] = "cwd" /\ \E found \in {Found(t), 0} : Reads(t, "cwd", found, "audit")

-----------------------------------------------------------------------------
(* log_to_audit and the stream                                               *)

LogToAuditLoading(t) ==
    /\ pc[t] = "audit"
    /\ IF logger = "netlink" /\ ~TooLong(event[t])
       THEN /\ event' = [event EXCEPT ![t] = [seq |-> sequence] @@ @]
            /\ drawn' = Append(drawn, event[t].id)
            /\ pc' = [pc EXCEPT ![t] = "send"]
            /\ UNCHANGED <<sequence, dropped>>
       ELSE /\ pc' = [pc EXCEPT ![t] = "stream"]
            /\ dropped' = dropped \cup {event[t].id}
            /\ UNCHANGED <<event, drawn, sequence>>
    /\ UNCHANGED <<procVars, logger, records, info, events, streamed>>

\* log_access: the null logger does nothing; a message that is too long is an
\* error before a number is drawn.  Errors are logged at debug level only.
LogToAudit(t) ==
    /\ pc[t] = "audit"
    /\ IF logger = "netlink" /\ ~TooLong(event[t])
       THEN /\ event' = [event EXCEPT ![t] = [seq |-> sequence] @@ @]
            /\ sequence' = (sequence + 1) % SeqLimit
            /\ drawn' = Append(drawn, event[t].id)
            /\ pc' = [pc EXCEPT ![t] = "send"]
            /\ UNCHANGED dropped
       ELSE /\ pc' = [pc EXCEPT ![t] = "stream"]
            /\ dropped' = dropped \cup {event[t].id}
            /\ UNCHANGED <<event, drawn, sequence>>
    /\ UNCHANGED <<procVars, logger, records, info, events, streamed>>

SendMessageOrGiveUp(t, ok) ==
    /\ pc[t] = "send"
    /\ records' = IF ok THEN records \cup {[id |-> event[t].id, seq |-> event[t].seq]}
                  ELSE records
    /\ dropped' = IF ok THEN dropped ELSE dropped \cup {event[t].id}
    /\ pc' = [pc EXCEPT ![t] = IF ok THEN "stream" ELSE "recv"]
    /\ UNCHANGED <<procVars, logger, sequence, drawn, event, info, events, streamed>>

\* sendto, which may fail; the acknowledgement asked for is never read.
SendMessage(t, ok) ==
    /\ pc[t] = "send"
    /\ records' = IF ok THEN records \cup {[id |-> event[t].id, seq |-> event[t].seq]}
                  ELSE records
    /\ dropped' = IF ok THEN dropped ELSE dropped \cup {event[t].id}
    /\ pc' = [pc EXCEPT ![t] = "stream"]
    /\ UNCHANGED <<procVars, logger, sequence, drawn, event, info, events, streamed>>

\* create_proto_access_event and the broadcast.
StreamAccess(t) ==
    /\ pc[t] = "stream"
    /\ streamed' = Append(streamed, event[t].id)
    /\ pc' = [pc EXCEPT ![t] = "recv"]
    /\ event' = [event EXCEPT ![t] = [id |-> 0]]
    /\ info' = [info EXCEPT ![t] = Nobody]
    /\ UNCHANGED <<procVars, auditVars, events>>

Next ==
    \/ \E p \in Pids : Exit(p) \/ \E comm \in Comms : Fork(p, comm)
    \/ \E t \in Tasks, p \in Pids, long \in BOOLEAN : ReceiveEvent(t, p, long)
    \/ \E t \in Tasks : \/ ReadStat(t) \/ ReadStatus(t) \/ ReadExe(t) \/ ReadCmdline(t) \/ ReadCwd(t)
                        \/ LogToAudit(t) \/ StreamAccess(t)
                        \/ \E ok \in BOOLEAN : SendMessage(t, ok)
Spec == Init /\ [][Next]_vars

-----------------------------------------------------------------------------
(* Properties                                                                *)

TypeOK ==
    /\ process \in [Pids -> 0..Len(name)]
    /\ name \in Seq(Comms) /\ Len(name) <= MaxProcesses
    /\ logger \in {"netlink", "null"}
    /\ sequence \in 0..SeqLimit - 1
    /\ pc \in [Tasks -> Parts \cup {"recv", "audit", "send", "stream"}]
    /\ info \in [Tasks -> [Parts -> 0..Len(name)]]
    /\ events \in 0..MaxEvents
    /\ dropped \subseteq 1..events /\ logger = "null" => drawn = <<>>

\* Who is named in an audit record and in the streamed event: the reads go on
\* in time, so no part is about a process from before the access or from before
\* the part read earlier; there is all that is required or nothing; and while
\* the process that made the access is alive, no part is about another one.
\* Nothing more holds: a pid that is reused between two reads gives a record of
\* two processes (get_process_info).
Order == <<"stat", "status", "exe", "cmdline", "cwd">>
AttributedInOrder ==
    \A t \in {t \in Tasks : pc[t] \in {"audit", "send", "stream"}} :
      LET by == event[t].by
          part(i) == info[t][Order[i]]
      IN /\ info[t] = Nobody \/ (part(1) # 0 /\ part(2) # 0)
         /\ \A i \in 1..5 : part(i) = 0 \/ part(i) >= by
         /\ \A i, j \in 1..5 : i < j => part(j) = 0 \/ part(i) <= part(j)
         /\ Found(t) = by => \A i \in 1..5 : part(i) \in {0, by}

\* Two audit records have the same number only if the 32-bit counter went
\* round between them, though the tasks draw numbers and send concurrently
\* (send_message).
PositionOf(id) == CHOOSE i \in DOMAIN drawn : drawn[i] = id
NumbersDistinct ==
    \A r, s \in records :
      r # s /\ r.seq = s.seq =>
        PositionOf(r.id) % SeqLimit = PositionOf(s.id) % SeqLimit /\ r.id # s.id

\* A failure of the audit log holds back no event: every event a task is done
\* with was streamed once, and has one audit record unless there is no logger,
\* its record was too long or the send failed (spawn_event_forwarding_task,
\* log_to_audit).
Done == 1..events \ {event[t].id : t \in {t \in Tasks : pc[t] # "recv"}}
StreamedOnce ==
    /\ Range(streamed) = Done
    /\ Len(streamed) = Cardinality(Done)
    /\ \A id \in Done \ dropped : Cardinality({r \in records : r.id = id}) = 1
    /\ \A id \in dropped : \A r \in records : r.id # id

\* Whatever a process is called, its name and its parent are read out of its
\* stat line (parse_stat against the name's parentheses and spaces).
NamesParsed ==
    \A i \in DOMAIN name : ParseStat(StatOf(name[i])) = [comm |-> name[i], ppid |-> "7"]
=============================================================================
