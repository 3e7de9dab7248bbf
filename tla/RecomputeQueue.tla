--------------------------- MODULE RecomputeQueue ---------------------------
(***************************************************************************)
(* The queue of recompute jobs of sports_federation_standings.             *)
(*                                                                         *)
(* A cron takes the due jobs of highest priority, at most BatchLimit of    *)
(* them, and runs each to an outcome.  The whole batch is one transaction: *)
(* nobody else sees a job while it is "running", and a worker that dies in *)
(* the middle of a batch leaves the queue as it was.                       *)
(***************************************************************************)
EXTENDS Naturals, FiniteSets

CONSTANTS
    Jobs,                \* federation.standing.recompute.job records
    Priority,            \* Priority[j], higher first
    BatchLimit,          \* jobs one cron run searches for (20 in the code)
    MaxAttempts,         \* max_attempts (3 in the code)
    MaxOperatorRetries   \* bound: how often operators put a job back

ASSUME QueueAssumption ==
    /\ IsFiniteSet(Jobs)
    /\ Priority \in [Jobs -> Nat]
    /\ BatchLimit \in Nat \ {0}
    /\ MaxAttempts \in Nat \ {0}
    /\ MaxOperatorRetries \in Nat

VARIABLES
    jobState,            \* jobState[j], "none" before the job is requested
    attempts,            \* attempt_count
    due,                 \* due[j]: next_retry_on is empty or has passed
    operatorRetries      \* how often action_retry was used on the job

queueVars == <<jobState, attempts, due, operatorRetries>>

JobStates == {"none", "pending", "failed", "done", "dead_letter"}
Waiting == {"pending", "failed"}
Finished == {"done", "dead_letter"}

QueueTypeOK ==
    /\ jobState \in [Jobs -> JobStates]
    /\ attempts \in [Jobs -> 0..MaxAttempts]
    /\ due \in [Jobs -> BOOLEAN]
    /\ operatorRetries \in [Jobs -> 0..MaxOperatorRetries]

QueueInit ==
    /\ jobState = [j \in Jobs |-> "none"]
    /\ attempts = [j \in Jobs |-> 0]
    /\ due = [j \in Jobs |-> FALSE]
    /\ operatorRetries = [j \in Jobs |-> 0]

(* Every request from the standing's form carries a fresh idempotency key. *)
RequestRecompute(j) ==
    /\ jobState[j] = "none"
    /\ jobState' = [jobState EXCEPT ![j] = "pending"]
    /\ due' = [due EXCEPT ![j] = TRUE]
    /\ UNCHANGED <<attempts, operatorRetries>>

DueJobsMutant == {j \in Jobs : jobState[j] = "pending" /\ due[j]}
DueJobs == {j \in Jobs : jobState[j] \in Waiting /\ due[j]}

(* What one search of the cron may return, up to ties in priority. *)
IsBatch(batch) ==
    /\ batch \subseteq DueJobs
    /\ \A j \in DueJobs \ batch, k \in batch : Priority[j] <= Priority[k]
    /\ \/ Cardinality(batch) = BatchLimit
       \/ batch = DueJobs /\ Cardinality(batch) <= BatchLimit

Exhausted(n) == n >= MaxAttempts

FailedStateMutant(j) == IF Exhausted(attempts[j]) THEN "dead_letter" ELSE "failed"
FailedState(j) == IF Exhausted(attempts[j] + 1) THEN "dead_letter" ELSE "failed"

(* One cron run; the recompute of the jobs in good succeeds. *)
RunQueue(batch, good) ==
    /\ batch # {}
    /\ IsBatch(batch)
    /\ good \subseteq batch
    /\ jobState' = [j \in Jobs |-> IF j \in good THEN "done"
                                   ELSE IF j \in batch THEN FailedState(j)
                                   ELSE jobState[j]]
    /\ attempts' = [j \in Jobs |-> attempts[j] + IF j \in batch THEN 1 ELSE 0]
    /\ due' = [j \in Jobs |-> IF j \in batch THEN FALSE ELSE due[j]]
    /\ UNCHANGED operatorRetries

(* The backoff of a failed job, min(60, 2^attempts) minutes, runs out. *)
RetryDue(j) ==
    /\ jobState[j] = "failed" /\ ~due[j]
    /\ due' = [due EXCEPT ![j] = TRUE]
    /\ UNCHANGED <<jobState, attempts, operatorRetries>>

RetryAttempts(j) == [attempts EXCEPT ![j] = 0]

OperatorRetry(j) ==
    /\ jobState[j] \in {"failed", "dead_letter"}
    /\ operatorRetries[j] < MaxOperatorRetries
    /\ jobState' = [jobState EXCEPT ![j] = "pending"]
    /\ attempts' = RetryAttempts(j)
    /\ due' = [due EXCEPT ![j] = TRUE]
    /\ operatorRetries' = [operatorRetries EXCEPT ![j] = @ + 1]

CronRun == \E batch \in SUBSET Jobs : \E good \in SUBSET batch : RunQueue(batch, good)

QueueNext ==
    \/ CronRun
    \/ \E j \in Jobs : RequestRecompute(j) \/ RetryDue(j) \/ OperatorRetry(j)

QueueFairness == WF_queueVars(CronRun) /\ \A j \in Jobs : WF_queueVars(RetryDue(j))

QueueSpec == QueueInit /\ [][QueueNext]_queueVars /\ QueueFairness

-----------------------------------------------------------------------------
(* A job is given up exactly when it used up its attempts, and a job that   *)
(* waits for another attempt still has one left, also after an operator put *)
(* it back.                                                                 *)
AttemptsHonoured ==
    \A j \in Jobs :
        /\ jobState[j] = "dead_letter" => attempts[j] = MaxAttempts
        /\ jobState[j] \in Waiting => attempts[j] < MaxAttempts

(* No job is forgotten: as long as the cron runs and backoffs run out,      *)
(* every requested job is done or handed to an operator, whatever the       *)
(* priorities of the others.                                                *)
JobsFinish ==
    \A j \in Jobs : (jobState[j] \in Waiting) ~> (jobState[j] \in Finished)
=============================================================================
