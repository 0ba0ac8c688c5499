------------------------- MODULE ClarificationSessions -------------------------
(***************************************************************************)
(* The sessions in which a user answers a question about an execution.     *)
(* Every method runs under the manager's lock and writes the status of the *)
(* execution without the lock of the table of executions.                  *)
(***************************************************************************)
EXTENDS ExecutionStates, FiniteSets

CONSTANTS
  SessionIds,        \* generated identifiers
  NoSession,         \* the absence of a session
  MaximumSessions,   \* config.maximum_active_sessions
  SessionTimeout,    \* the time to answer, in ticks
  LastMoment         \* bound on the clock

VARIABLES
  sessions,   \* _active_sessions
  opened,     \* history: the identifiers used so far
  time        \* the clock

sessionVars == <<sessions, opened, time>>

SessionStatus == {"PENDING", "RESPONDED", "TIMED_OUT", "CANCELLED", "COMPLETED"}

Session == [execution : ExecutionIds, status : SessionStatus,
            expires : 0 .. LastMoment + SessionTimeout]

ASSUME SessionAssumption ==
  /\ MaximumSessions \in Nat \ {0}
  /\ SessionTimeout \in Nat
  /\ LastMoment \in Nat
  /\ IsFiniteSet(SessionIds)
  /\ NoSession \notin Session

SessionsTypeOK ==
  /\ sessions \in [SessionIds -> Session \cup {NoSession}]
  /\ opened \subseteq SessionIds
  /\ time \in 0 .. LastMoment

SessionsInit ==
  /\ sessions = [s \in SessionIds |-> NoSession]
  /\ opened = {}
  /\ time = 0

-----------------------------------------------------------------------------
IsOpen(s)    == sessions[s] # NoSession
IsPending(s) == IsOpen(s) /\ sessions[s].status = "PENDING"
IsLate(s)    == time > sessions[s].expires

\* expire_sessions: the executions keep their status.
Expired == [s \in SessionIds |-> IF IsPending(s) /\ IsLate(s)
                                 THEN [sessions[s] EXCEPT !.status = "TIMED_OUT"]
                                 ELSE sessions[s]]

\* At the maximum the late sessions time out, but none of them leaves the table,
\* and the new session is added whether there is room or not.
CreateSession(s, e) ==
  /\ s \notin opened
  /\ opened' = opened \cup {s}
  /\ LET full == Cardinality({r \in SessionIds : IsOpen(r)}) >= MaximumSessions
         kept == IF full THEN Expired ELSE sessions
     IN  sessions' = [kept EXCEPT ![s] = [execution |-> e, status |-> "PENDING",
                                          expires |-> time + SessionTimeout]]
  /\ Mark(e, "WAITING_FOR_CONFIRMATION")
  /\ UNCHANGED time

\* An answer the clarification engine does not accept changes nothing.
SubmitResponse(s) ==
  /\ IsPending(s)
  /\ sessions' = [sessions EXCEPT ![s].status = IF IsLate(s) THEN "TIMED_OUT" ELSE "RESPONDED"]
  /\ UNCHANGED <<executions, opened, time>>

ResumeExecution(s) ==
  /\ IsOpen(s) /\ sessions[s].status = "RESPONDED"
  /\ sessions' = [sessions EXCEPT ![s].status = "COMPLETED"]
  /\ IF HasStatus(sessions[s].execution, {"WAITING_FOR_CONFIRMATION"})
     THEN Mark(sessions[s].execution, "RUNNING")
     ELSE UNCHANGED executions
  /\ UNCHANGED <<opened, time>>

ExpireSessions ==
  /\ sessions' = Expired
  /\ UNCHANGED <<executions, opened, time>>

\* Also a session that timed out or was answered can be cancelled, and the status
\* of its execution is overwritten whatever it is.
CancelSession(s) ==
  /\ IsOpen(s) /\ sessions[s].status \notin {"COMPLETED", "CANCELLED"}
  /\ sessions' = [sessions EXCEPT ![s].status = "CANCELLED"]
  /\ Mark(sessions[s].execution, "CANCELLED")
  /\ UNCHANGED <<opened, time>>

RemoveSession(s) ==
  /\ IsOpen(s)
  /\ sessions' = [sessions EXCEPT ![s] = NoSession]
  /\ UNCHANGED <<executions, opened, time>>

ClearSessions ==
  /\ \E s \in SessionIds : IsOpen(s)
  /\ sessions' = [s \in SessionIds |-> NoSession]
  /\ UNCHANGED <<executions, opened, time>>

SessionStep ==
  \/ \E s \in SessionIds : \/ \E e \in ExecutionIds : CreateSession(s, e)
                           \/ SubmitResponse(s) \/ ResumeExecution(s)
                           \/ CancelSession(s) \/ RemoveSession(s)
  \/ ExpireSessions \/ ClearSessions

TimePasses ==
  /\ time < LastMoment
  /\ time' = time + 1
  /\ UNCHANGED <<executions, sessions, opened>>
=============================================================================
