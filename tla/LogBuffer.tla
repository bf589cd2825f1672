----------------------------- MODULE LogBuffer ------------------------------
(***************************************************************************)
(* logger.cpp: the process-wide logger, called by all threads of the       *)
(* daemon.  The macros ask should_log first and then log, each under the   *)
(* logger's mutex; the level is set from the command line before the       *)
(* threads start.                                                          *)
(***************************************************************************)
EXTENDS Integers, Sequences

CONSTANTS
    Loggers,    \* threads that log
    Levels,     \* an interval of LogLevel
    MaxLogs,    \* MAX_LOGS, 100 in the code
    MaxHistory  \* messages logged in a behaviour (bound)

ASSUME LogAssumption == MaxLogs \in Nat \ {0} /\ MaxHistory \in Nat /\ Levels \subseteq Nat

VARIABLES
    min_level,
    buffer,     \* buffer_: the messages kept
    pending,    \* of every thread: the level of the message it is about to log
    answered,   \* what daemon.logs last returned
    history,    \* every message that was logged, in the order of the mutex
    atAnswer    \* how many of them there were when daemon.logs was answered

logs == <<min_level, buffer, pending, answered, history, atAnswer>>

Idle == -1

LogInit ==
    /\ min_level \in Levels
    /\ buffer = <<>>
    /\ pending = [t \in Loggers |-> Idle]
    /\ answered = <<>>
    /\ history = <<>>
    /\ atAnswer = 0

(* LOG_AT_LEVEL: a level that is not enabled is not logged at all. *)
should_log(t, level) ==
    /\ pending[t] = Idle
    /\ Len(history) < MaxHistory
    /\ level >= min_level
    /\ pending' = [pending EXCEPT ![t] = level]
    /\ UNCHANGED <<min_level, buffer, answered, history, atAnswer>>

(* The newest message makes room for itself. *)
EraseSlip(messages) ==
    IF Len(messages) > MaxLogs THEN SubSeq(messages, 1, Len(messages) - 1) ELSE messages

(* The oldest message goes when there is one too many. *)
Erase(messages) == IF Len(messages) > MaxLogs THEN Tail(messages) ELSE messages

(* A message is told apart by its level, its thread and its number. *)
log(t) ==
    LET message == [level |-> pending[t], by |-> t, nr |-> Len(history) + 1] IN
    /\ pending[t] # Idle
    /\ buffer' = Erase(Append(buffer, message))
    /\ history' = Append(history, message)
    /\ pending' = [pending EXCEPT ![t] = Idle]
    /\ UNCHANGED <<min_level, answered, atAnswer>>

(* get_recent_logs with its default count, which is MAX_LOGS. *)
get_recent_logs ==
    /\ answered' = IF MaxLogs >= Len(buffer) THEN buffer
                   ELSE SubSeq(buffer, Len(buffer) - MaxLogs + 1, Len(buffer))
    /\ atAnswer' = Len(history)
    /\ UNCHANGED <<min_level, buffer, pending, history>>

LogNext ==
    \/ \E t \in Loggers : (\E level \in Levels : should_log(t, level)) \/ log(t)
    \/ get_recent_logs

LogSpec == LogInit /\ [][LogNext]_logs

(* daemon.logs shows the newest messages at the moment it was answered, as *)
(* many as the logger may keep, in the order in which they were logged and *)
(* without a gap, whichever threads logged them.                           *)
LogsAreNewest ==
    LET kept == IF atAnswer < MaxLogs THEN atAnswer ELSE MaxLogs
    IN  answered = SubSeq(history, atAnswer - kept + 1, atAnswer)
=============================================================================
