----------------------------- MODULE AiTaskTable -----------------------------
(***************************************************************************)
(* The rows of table ai_tasks (domain/AiTask.java) and the retry policy    *)
(* (ai/AiRetryPolicy.java).  Clock columns are left out: nextAttemptAt and *)
(* leaseExpiresAt are reached at an arbitrary later moment, so a PENDING   *)
(* task is due, and a RUNNING task expired, whenever an action says so.    *)
(***************************************************************************)
EXTENDS TicketTable

CONSTANTS Tasks,        \* identities of AI tasks that may be created
          MaxAttempts   \* resolveflow.ai.retry.max-attempts

\* AiRetryPolicy's constructor refuses a smaller maximum.
ASSUME MaxAttemptsAssumption == MaxAttempts \in Nat \ {0}

VARIABLES taskStatus,   \* an AiTaskStatus, or "absent" while no row exists
          taskTicket,   \* ticket_id
          taskVersion,  \* business_version, fixed when the row is inserted
          attemptCount  \* attempts started so far

taskVars == <<taskStatus, taskTicket, taskVersion, attemptCount>>

LiveStatuses == {"PENDING", "RUNNING"}
TerminalStatuses == {"SUCCEEDED", "FAILED"}
TaskStatuses == {"absent"} \cup LiveStatuses \cup TerminalStatuses

TaskTypeOK ==
    /\ taskStatus \in [Tasks -> TaskStatuses]
    /\ taskTicket \in [Tasks -> Tickets \cup {NoTicket}]
    /\ taskVersion \in [Tasks -> Nat]
    /\ attemptCount \in [Tasks -> Nat]

TaskInit ==
    /\ taskStatus = [k \in Tasks |-> "absent"]
    /\ taskTicket = [k \in Tasks |-> NoTicket]
    /\ taskVersion = [k \in Tasks |-> 0]
    /\ attemptCount = [k \in Tasks |-> 0]

\* AiRetryPolicy.shouldRetry.
OneRetryTooMany(completed, retryable) == retryable /\ completed <= MaxAttempts
ShouldRetry(completed, retryable) == retryable /\ completed < MaxAttempts

\* The unique idempotency key ticket:<id>:version:<v> is still free.
TaskKeyIsFree(t, v) ==
    ~ \E k \in Tasks : /\ taskStatus[k] # "absent"
                       /\ taskTicket[k] = t
                       /\ taskVersion[k] = v

InsertTask(k, t, v) ==
    /\ taskStatus[k] = "absent"
    /\ TaskKeyIsFree(t, v)
    /\ taskStatus' = [taskStatus EXCEPT ![k] = "PENDING"]
    /\ taskTicket' = [taskTicket EXCEPT ![k] = t]
    /\ taskVersion' = [taskVersion EXCEPT ![k] = v]
    /\ UNCHANGED attemptCount

\* AiTask.start.
StartTask(k) ==
    /\ taskStatus[k] = "PENDING"
    /\ taskStatus' = [taskStatus EXCEPT ![k] = "RUNNING"]
    /\ attemptCount' = [attemptCount EXCEPT ![k] = @ + 1]
    /\ UNCHANGED <<taskTicket, taskVersion>>

\* AiTask.succeed, fail, scheduleRetry, recoverExpiredLease: only the status
\* matters here.
SetTaskStatus(k, status) ==
    /\ taskStatus' = [taskStatus EXCEPT ![k] = status]
    /\ UNCHANGED <<taskTicket, taskVersion, attemptCount>>

=============================================================================
