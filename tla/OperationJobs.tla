---------------------------- MODULE OperationJobs ----------------------------
(***************************************************************************)
(* The operational job queue of sports_federation_base and its two users:  *)
(* report schedules, whose failed runs are repeated through it, and        *)
(* inbound deliveries, which only hand their failure to an operator.       *)
(*                                                                         *)
(* A cron run is one transaction over a batch of due jobs.  A job row that *)
(* another transaction holds is skipped (SKIP LOCKED); an attempt that     *)
(* raises is rolled back to its own savepoint and only its outcome stays.  *)
(* A worker that dies rolls the whole batch back.                          *)
(***************************************************************************)
EXTENDS Naturals, FiniteSets

CONSTANTS
    Reports,           \* federation.report.schedule records
    FailedDeliveries,  \* failed federation.integration.delivery records
    BatchLimit,        \* jobs one cron run searches for (50 in the code)
    MaxAttempts,       \* max_attempts of a report's job (3 in the code)
    MaxFailures,       \* bound: consecutive failures of a schedule
    MaxOperatorSteps   \* bound: how often operators act on one job

ASSUME JobsAssumption ==
    /\ IsFiniteSet(Reports) /\ IsFiniteSet(FailedDeliveries)
    /\ Reports \cap FailedDeliveries = {}
    /\ {BatchLimit, MaxAttempts, MaxFailures} \subseteq Nat \ {0}
    /\ MaxOperatorSteps \in Nat

(* A source has one job per correlation: a report's carries the number of   *)
(* its consecutive failures, a delivery's its idempotency key.              *)
Jobs == (Reports \X (1..MaxFailures)) \cup (FailedDeliveries \X {0})
Limit(j) == IF j[1] \in Reports THEN MaxAttempts ELSE 1

VARIABLES
    lastRun,           \* lastRun[r]: last_run_status
    failures,          \* failures[r]: consecutive_failure_count
    sources,           \* the sources that still exist
    jobState,          \* jobState[j], "none" before ensure_job created it
    attempts, due,     \* attempt_count; whether next_retry_on has passed
    held,              \* jobs whose row an operator's transaction holds
    operatorSteps,     \* how often operators took the job
    requested          \* requested[r]: its present failure was given to the queue

reportVars == <<lastRun, failures, requested>>
jobVars == <<jobState, attempts, due>>
queueVars == <<reportVars, sources, jobVars, held, operatorSteps>>

Waiting == {"pending", "retry"}

JobsTypeOK ==
    /\ lastRun \in [Reports -> {"never", "success", "failed"}]
    /\ failures \in [Reports -> 0..MaxFailures]
    /\ sources \subseteq Reports \cup FailedDeliveries
    /\ jobState \in [Jobs -> {"none", "done", "operator_action"} \cup Waiting]
    /\ attempts \in [Jobs -> Nat] /\ \A j \in Jobs : attempts[j] <= Limit(j)
    /\ due \in [Jobs -> BOOLEAN]
    /\ held \subseteq Jobs
    /\ operatorSteps \in [Jobs -> 0..MaxOperatorSteps]
    /\ requested \in [Reports -> BOOLEAN]

JobsInit ==
    /\ lastRun = [r \in Reports |-> "never"]
    /\ failures = [r \in Reports |-> 0]
    /\ requested = [r \in Reports |-> FALSE]
    /\ sources = Reports \cup FailedDeliveries
    /\ jobState = [j \in Jobs |-> "none"]
    /\ attempts = [j \in Jobs |-> 0]
    /\ due = [j \in Jobs |-> FALSE]
    /\ held = {}
    /\ operatorSteps = [j \in Jobs |-> 0]

-----------------------------------------------------------------------------
(* Report schedules run on their own cron and from their form. *)

RunReport(r, good) ==
    /\ r \in sources
    /\ good \/ failures[r] < MaxFailures
    /\ lastRun' = [lastRun EXCEPT ![r] = IF good THEN "success" ELSE "failed"]
    /\ failures' = [failures EXCEPT ![r] = IF good THEN 0 ELSE @ + 1]
    /\ requested' = [requested EXCEPT ![r] = FALSE]
    /\ UNCHANGED <<sources, jobVars, held, operatorSteps>>

DeleteSource(s) ==
    /\ s \in sources
    /\ sources' = sources \ {s}
    /\ UNCHANGED <<reportVars, jobVars, held, operatorSteps>>

-----------------------------------------------------------------------------
(* Requests and operators. *)

ReopenableMutant == {"operator_action"}
Reopenable == {"done", "operator_action"}

(* Queueing a retry creates the job of this failure, or puts its old job back. *)
QueueReportRetry(r) ==
    LET j == <<r, failures[r]>> IN
    /\ r \in sources /\ lastRun[r] = "failed"
    /\ requested' = [requested EXCEPT ![r] = TRUE]
    /\ \/ /\ jobState[j] = "none"
          /\ jobState' = [jobState EXCEPT ![j] = "pending"]
          /\ due' = [due EXCEPT ![j] = TRUE]
          /\ UNCHANGED <<attempts, operatorSteps>>
       \/ /\ jobState[j] \in Reopenable /\ j \notin held
          /\ operatorSteps[j] < MaxOperatorSteps
          /\ operatorSteps' = [operatorSteps EXCEPT ![j] = @ + 1]
          /\ jobState' = [jobState EXCEPT ![j] = "pending"]
          /\ attempts' = [attempts EXCEPT ![j] = 0]
          /\ due' = [due EXCEPT ![j] = TRUE]
       \/ /\ jobState[j] \notin {"none"} \cup Reopenable
          /\ UNCHANGED <<jobVars, operatorSteps>>
    /\ UNCHANGED <<lastRun, failures, sources, held>>

(* A delivery's job is created failed: it only asks for an operator. *)
RecoverDelivery(d) ==
    LET j == <<d, 0>> IN
    /\ d \in sources
    /\ jobState[j] \in {"none", "pending"} /\ j \notin held
    /\ jobState' = [jobState EXCEPT ![j] = "operator_action"]
    /\ attempts' = [attempts EXCEPT ![j] = IF jobState[j] = "none" THEN 1 ELSE @ + 1]
    /\ due' = [due EXCEPT ![j] = FALSE]
    /\ UNCHANGED <<reportVars, sources, held, operatorSteps>>

(* An operator's retry claims the row, and commits or gives up later. *)
ClaimRetry(j) ==
    /\ jobState[j] \in {"retry"} \cup Reopenable
    /\ j \notin held
    /\ operatorSteps[j] < MaxOperatorSteps
    /\ held' = held \cup {j}
    /\ operatorSteps' = [operatorSteps EXCEPT ![j] = @ + 1]
    /\ UNCHANGED <<reportVars, sources, jobVars>>

RetryAttempts(j) == 0

CommitRetry(j) ==
    /\ j \in held
    /\ held' = held \ {j}
    /\ jobState' = [jobState EXCEPT ![j] = "pending"]
    /\ attempts' = [attempts EXCEPT ![j] = RetryAttempts(j)]
    /\ due' = [due EXCEPT ![j] = TRUE]
    /\ UNCHANGED <<reportVars, sources, operatorSteps>>

AbandonRetry(j) ==
    /\ j \in held
    /\ held' = held \ {j}
    /\ UNCHANGED <<reportVars, sources, jobVars, operatorSteps>>

RetryDue(j) ==
    /\ jobState[j] = "retry" /\ ~due[j]
    /\ due' = [due EXCEPT ![j] = TRUE]
    /\ UNCHANGED <<reportVars, sources, jobState, attempts, held, operatorSteps>>

-----------------------------------------------------------------------------
(* One cron run over a batch of due jobs. *)

DueJobsMutant == {j \in Jobs : jobState[j] = "pending" /\ due[j]}
DueJobs == {j \in Jobs : jobState[j] \in Waiting /\ due[j]}
IsBatch(batch) ==
    /\ batch \subseteq DueJobs
    /\ \/ Cardinality(batch) = BatchLimit
       \/ batch = DueJobs /\ Cardinality(batch) <= BatchLimit

HasSource(j) == j[1] \in sources
(* Repeating a delivery raises a ValidationError, which is not retryable. *)
Repeatable == Reports
Retryable(j) == j[1] \in Repeatable

FailedState(j) ==
    IF attempts[j] + 1 >= Limit(j) \/ ~Retryable(j) THEN "operator_action" ELSE "retry"

(* good are the reports the batch regenerates without an error, poisoned     *)
(* the jobs that fail in a way no retry can mend.                            *)
RunJobs(batch, good, poisoned) ==
    LET run == batch \ held
        started == {j \in run : HasSource(j)}
        fixed == {j \in started : j[1] \in good}
    IN
    /\ run # {}
    /\ IsBatch(batch)
    /\ good \subseteq Repeatable
    /\ poisoned \subseteq started \ fixed
    /\ jobState' = [j \in Jobs |->
          IF j \in fixed THEN "done"
          ELSE IF j \in poisoned \cup (run \ started) THEN "operator_action"
          ELSE IF j \in run THEN FailedState(j)
          ELSE jobState[j]]
    /\ attempts' = [j \in Jobs |-> IF j \in started THEN attempts[j] + 1 ELSE attempts[j]]
    /\ due' = [j \in Jobs |-> IF j \in run THEN FALSE ELSE due[j]]
    /\ lastRun' = [r \in Reports |->
          IF \E j \in fixed : j[1] = r THEN "success" ELSE lastRun[r]]
    /\ failures' = [r \in Reports |->
          IF \E j \in fixed : j[1] = r THEN 0 ELSE failures[r]]
    /\ requested' = [r \in Reports |->
          IF \E j \in fixed : j[1] = r THEN FALSE ELSE requested[r]]
    /\ UNCHANGED <<sources, held, operatorSteps>>

CronRun ==
    \E batch \in SUBSET Jobs, good \in SUBSET Repeatable :
        \E poisoned \in SUBSET batch : RunJobs(batch, good, poisoned)

JobStep(j) == ClaimRetry(j) \/ CommitRetry(j) \/ AbandonRetry(j) \/ RetryDue(j)

JobsNext ==
    \/ \E r \in Reports : QueueReportRetry(r) \/ \E good \in BOOLEAN : RunReport(r, good)
    \/ \E d \in FailedDeliveries : RecoverDelivery(d)
    \/ \E s \in sources : DeleteSource(s)
    \/ \E j \in Jobs : JobStep(j)
    \/ CronRun

JobsFairness ==
    /\ WF_queueVars(CronRun)
    /\ \A j \in Jobs : /\ WF_queueVars(RetryDue(j))
                       /\ WF_queueVars(CommitRetry(j) \/ AbandonRetry(j))

JobsSpec == JobsInit /\ [][JobsNext]_queueVars /\ JobsFairness

-----------------------------------------------------------------------------
(* A failure somebody gave to the queue is not lost: until the report       *)
(* succeeds its job waits, or asks for an operator, also when the failure   *)
(* count came back to a value whose job was already done.                   *)
FailureOnRecord ==
    \A r \in Reports : requested[r] /\ lastRun[r] = "failed" =>
        jobState[<<r, failures[r]>>] \in Waiting \cup {"operator_action"}

(* A waiting job always has an attempt left, after any operator retries and *)
(* whatever the batches skipped.                                            *)
AttemptsLeft == \A j \in Jobs : jobState[j] \in Waiting => attempts[j] < Limit(j)

(* An inbound delivery is never replayed by the queue, whoever retries its  *)
(* job: only the import wizard processes it.                                *)
DeliveriesNeedOperator ==
    \A d \in FailedDeliveries : jobState[<<d, 0>>] \notin {"done", "retry"}

(* Every job on the queue is done or in an operator's hands some day, though *)
(* its row may be locked whenever the cron comes by.                         *)
JobsFinish ==
    \A j \in Jobs :
        (jobState[j] \in Waiting) ~> (jobState[j] \in {"done", "operator_action"})
=============================================================================
