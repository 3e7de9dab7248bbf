--------------------------- MODULE OfficialTables ---------------------------
(***************************************************************************)
(* League tables over the results of one division: federation.standing,    *)
(* the tables linked to a stage of the competition format, the stage's     *)
(* frozen snapshot, and the recompute queue.                               *)
(*                                                                         *)
(* Composes ResultWorkflow (the results), RecomputeQueue (the jobs) and    *)
(* the tables: a result request also recomputes the tables it concerns and *)
(* then synchronises the stage, all in its own transaction.  The rows of a *)
(* table are abstracted to the set of results they were computed from.     *)
(***************************************************************************)
EXTENDS ResultWorkflow, RecomputeQueue

CONSTANTS
    Tables,            \* federation.standing records of the division
    Linked,            \* those with a structure_stage_id, one per ranked stage
    Feeding,           \* linked tables whose stage has an outgoing progression
    Scope,             \* Scope[t]: the matches in the table's scope
    TableOf,           \* TableOf[j]: the table a recompute job is for
    ManualInclusion    \* whether somebody edits the inclusion box by hand

ASSUME TablesAssumption ==
    /\ Feeding \subseteq Linked
    /\ Linked \subseteq Tables
    /\ Scope \in [Tables -> SUBSET Matches]
    /\ TableOf \in [Jobs -> Tables]
    /\ ManualInclusion \in BOOLEAN

VARIABLES
    tableState,        \* federation.standing.state
    rows,              \* rows[t]: the results the table's lines count
    snapshot,          \* snapshot[t]: the frozen table of the linked stage, a
                       \*   set of at most one set of rows
    progressed         \* progressed[t]: the stage's progression is applied

tableVars == <<tableState, rows, snapshot, progressed>>
allVars == <<matchVars, queueVars, tableVars>>

Results == Matches \X Scores
NoRows == {}
NoSnapshot == {}

TablesTypeOK ==
    /\ tableState \in [Tables -> {"draft", "computed", "frozen"}]
    /\ rows \in [Tables -> SUBSET Results]
    /\ snapshot \in [Linked -> {NoSnapshot} \cup {{r} : r \in SUBSET Results}]
    /\ progressed \in [Linked -> BOOLEAN]

(* A linked table is created computed, when its stage is prepared. *)
TablesInit ==
    /\ tableState = [t \in Tables |-> IF t \in Linked THEN "computed" ELSE "draft"]
    /\ rows = [t \in Tables |-> NoRows]
    /\ snapshot = [t \in Linked |-> NoSnapshot]
    /\ progressed = [t \in Linked |-> FALSE]

-----------------------------------------------------------------------------
(* What a recompute counts: the format engine every approved and included  *)
(* result of the stage, a plain table the done matches that are included.  *)
StageResults(t) ==
    {<<m, score[m]>> : m \in {x \in Scope[t] : resultState[x] = "approved" /\ included[x]}}

Counted(t) ==
    IF t \in Linked THEN StageResults(t)
    ELSE {<<m, score[m]>> : m \in {x \in Scope[t] : state[x] = "done" /\ included[x]}}

(* Matches that still keep a table from being frozen. *)
Remaining(t) ==
    {m \in Scope[t] : /\ state[m] # "cancelled"
                      /\ ~(state[m] = "done" /\ resultState[m] = "approved" /\ included[m])}

(* Tables a result decision recomputes: linked tables carry no legacy stage, *)
(* so every one of the division qualifies.                                   *)
Concerned(m) == {t \in Tables : t \in Linked \/ m \in Scope[t]}

Unfrozen(t) == tableState[t] # "frozen"

(* Rows of the given tables recomputed from the results after the step. *)
RowsRecomputed(which) == [t \in Tables |-> IF t \in which THEN Counted(t)' ELSE rows[t]]
StateComputed(which) ==
    [t \in Tables |-> IF t \in which THEN "computed" ELSE tableState[t]]

ToRecomputeMutant(m) == {t \in Tables : m \in Scope[t] /\ tableState[t] = "computed"}
ToRecompute(m) == {t \in Concerned(m) : Unfrozen(t)}

-----------------------------------------------------------------------------
(* Result decisions. *)

(* Linked stages the match belongs to. *)
StageOf(m) == {t \in Linked : m \in Scope[t]}

ApproveInTables(u, m) ==
    /\ ApprovalStep(u, m)
    /\ rows' = RowsRecomputed(ToRecompute(m))
    /\ tableState' = StateComputed(ToRecompute(m))
    /\ UNCHANGED <<snapshot, progressed, queueVars>>

WithdrawalBlockedMutant(m) == FALSE
WithdrawalBlocked(m) == \E t \in StageOf(m) : progressed[t]

(* The stage's snapshot goes with the result, and its frozen table is only *)
(* relabelled: the recompute before it passed over frozen tables.          *)
SnapshotWithdrawnMutant(m) == snapshot
SnapshotWithdrawn(m) ==
    [t \in Linked |-> IF t \in StageOf(m) THEN NoSnapshot ELSE snapshot[t]]
Relabelled(m) == {t \in StageOf(m) : snapshot[t] # NoSnapshot /\ ~Unfrozen(t)}

WithdrawInTables(u, m) ==
    /\ WithdrawalStep(u, m)
    /\ ~WithdrawalBlocked(m)
    /\ rows' = RowsRecomputed(ToRecompute(m))
    /\ tableState' = StateComputed(ToRecompute(m) \cup Relabelled(m))
    /\ snapshot' = SnapshotWithdrawn(m)
    /\ UNCHANGED <<progressed, queueVars>>

(* Requests that decide nothing official leave the tables alone. *)
QuietMatchStep ==
    /\ \E m \in Matches :
          \/ LifecycleStep(m)
          \/ EntryStep(m)
          \/ ManualInclusion /\ TickInclusion(m)
          \/ \E u \in Users : ReviewStep(u, m)
    /\ UNCHANGED <<tableVars, queueVars>>

-----------------------------------------------------------------------------
(* Operations on a table, as its form offers them. *)

RecomputeTable(t) ==
    /\ Unfrozen(t)
    /\ rows' = [rows EXCEPT ![t] = Counted(t)]
    /\ tableState' = [tableState EXCEPT ![t] = "computed"]
    /\ UNCHANGED <<snapshot, progressed, matchVars, queueVars>>

(* A forced recompute also ends the freeze. *)
ForceRecompute(t) ==
    /\ ~Unfrozen(t)
    /\ rows' = [rows EXCEPT ![t] = Counted(t)]
    /\ tableState' = [tableState EXCEPT ![t] = "computed"]
    /\ UNCHANGED <<snapshot, progressed, matchVars, queueVars>>

FreezePlainTable(t) ==
    /\ t \notin Linked
    /\ tableState[t] = "computed"
    /\ Remaining(t) = {}
    /\ tableState' = [tableState EXCEPT ![t] = "frozen"]
    /\ UNCHANGED <<rows, snapshot, progressed, matchVars, queueVars>>

(* The table of an already frozen stage is recomputed and frozen with it. *)
RefreezeLinkedTable(t) ==
    /\ t \in Linked
    /\ tableState[t] = "computed"
    /\ snapshot[t] # NoSnapshot
    /\ Remaining(t) = {}
    /\ rows' = [rows EXCEPT ![t] = Counted(t)]
    /\ tableState' = [tableState EXCEPT ![t] = "frozen"]
    /\ UNCHANGED <<snapshot, progressed, matchVars, queueVars>>

StageDecided(t) == \A m \in Scope[t] : resultState[m] = "approved" /\ included[m]

(* Freezing the stage (from the stage, or from its table) takes a snapshot, *)
(* applies the progression and freezes the linked table unless it already   *)
(* is.                                                                      *)
FreezeStage(t) ==
    /\ t \in Linked
    /\ StageDecided(t)
    /\ snapshot' = [snapshot EXCEPT ![t] = {StageResults(t)}]
    /\ progressed' = [progressed EXCEPT ![t] = @ \/ t \in Feeding]
    /\ \/ /\ Unfrozen(t)
          /\ Remaining(t) = {}
          /\ rows' = [rows EXCEPT ![t] = Counted(t)]
          /\ tableState' = [tableState EXCEPT ![t] = "frozen"]
       \/ /\ ~Unfrozen(t)
          /\ UNCHANGED <<rows, tableState>>
    /\ UNCHANGED <<matchVars, queueVars>>

UnfreezeTable(t) ==
    /\ ~Unfrozen(t)
    /\ t \in Linked => ~progressed[t]
    /\ tableState' = [tableState EXCEPT ![t] = "computed"]
    /\ snapshot' = [x \in Linked |-> IF x = t THEN NoSnapshot ELSE snapshot[x]]
    /\ UNCHANGED <<rows, progressed, matchVars, queueVars>>

-----------------------------------------------------------------------------
(* The queue; its jobs recompute with force, frozen or not. *)

JobTables(good) == {TableOf[j] : j \in good}

RunQueueInTables(batch, good) ==
    /\ RunQueue(batch, good)
    /\ rows' = [t \in Tables |-> IF t \in JobTables(good) THEN Counted(t) ELSE rows[t]]
    /\ tableState' = StateComputed(JobTables(good))
    /\ UNCHANGED <<snapshot, progressed, matchVars>>

CronRunInTables ==
    \E batch \in SUBSET Jobs : \E good \in SUBSET batch : RunQueueInTables(batch, good)

RetryDueInTables(j) == RetryDue(j) /\ UNCHANGED <<tableVars, matchVars>>

QueueStep ==
    \/ \E j \in Jobs :
          \/ RetryDueInTables(j)
          \/ (RequestRecompute(j) \/ OperatorRetry(j)) /\ UNCHANGED <<tableVars, matchVars>>
    \/ CronRunInTables

TableStep ==
    \E t \in Tables :
        \/ RecomputeTable(t) \/ ForceRecompute(t) \/ FreezePlainTable(t)
        \/ RefreezeLinkedTable(t) \/ FreezeStage(t) \/ UnfreezeTable(t)

Init == MatchInit /\ QueueInit /\ TablesInit

Next ==
    \/ QuietMatchStep
    \/ \E m \in Matches, u \in Users : ApproveInTables(u, m) \/ WithdrawInTables(u, m)
    \/ TableStep
    \/ QueueStep

Spec == Init /\ [][Next]_allVars

(* The cron is run periodically, and backoffs run out. *)
FairSpec ==
    /\ Spec
    /\ WF_allVars(CronRunInTables) /\ \A j \in Jobs : WF_allVars(RetryDueInTables(j))

-----------------------------------------------------------------------------
(* The result becomes official or stops being so in this step. *)
Decided(m) == (resultState[m] = "approved") # (resultState'[m] = "approved")

(* Every decision about a result reaches every unfrozen table it concerns   *)
(* in the same transaction: when it commits, the table counts exactly the   *)
(* results that are now official in its scope.                              *)
TablesFollowDecisions ==
    [][\A m \in Matches : Decided(m) =>
          \A t \in Concerned(m) : Unfrozen(t) => rows'[t] = Counted(t)']_allVars

(* The snapshot of a frozen stage is the table of the results that are      *)
(* official now: no later request leaves a snapshot that some withdrawn or  *)
(* changed result contradicts.                                              *)
SnapshotCurrent ==
    \A t \in Linked : snapshot[t] # NoSnapshot =>
        /\ snapshot[t] = {StageResults(t)}
        /\ StageDecided(t)

(* A stage that fed another stage stays decided: while its progression is   *)
(* applied its snapshot exists, and no request withdraws a result of it.    *)
ProgressionFinal ==
    \A t \in Linked : progressed[t] =>
        /\ snapshot[t] # NoSnapshot
        /\ \A m \in Scope[t] : resultState[m] = "approved"

(* "The table on the website, the frozen stage snapshot and progression to  *)
(* the next stage use the same numbers" (standing_stage_bridge.py): while   *)
(* the stage is frozen its table shows the snapshot, also after forced and  *)
(* queued recomputes, and a frozen table of a stage has its stage frozen.    *)
TableShowsSnapshot ==
    \A t \in Linked :
        /\ snapshot[t] # NoSnapshot => snapshot[t] = {rows[t]}
        /\ tableState[t] = "frozen" => snapshot[t] # NoSnapshot
=============================================================================
