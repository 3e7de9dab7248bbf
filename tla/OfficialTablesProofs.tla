------------------------ MODULE OfficialTablesProofs ------------------------
(***************************************************************************)
(* Results, the tables that count them and the queue that computes them,   *)
(* for any number of matches, users, scores, tables, stages and jobs.      *)
(*                                                                         *)
(* The result workflow by itself is type correct, keeps the reviewers'     *)
(* duties apart, reopens what it withdraws and implements the ledger of    *)
(* results.  The recompute queue by itself counts attempts right.  Both    *)
(* are parts of the tables.  As long as nobody edits the inclusion box by  *)
(* hand, the snapshot of a frozen stage, its table and its progression     *)
(* always agree with the results that are official.                        *)
(*                                                                         *)
(* The other consumer of official results is the stage graph: for every    *)
(* well-formed one, sides and matches follow the results, and a match that *)
(* was played keeps its teams.                                             *)
(***************************************************************************)
EXTENDS OfficialTables, StageGraph, FiniteSetTheorems, TLAPS

-----------------------------------------------------------------------------
(* The result workflow. *)

(* The initial states satisfy the inductive invariant. *)
LEMMA DutiesInit == MatchInit => DutiesInv
  BY ScoresAssumption, UsersAssumption
  DEF MatchInit, DutiesInv, TypeOK, SubmitterKnown, DutiesSeparated, MatchStates, ResultStates

(* A step that leaves the policy, the result states and the signatures alone *)
(* cannot disturb what the invariant says of them.                           *)
LEMMA DutiesUnchanged ==
    ASSUME DutiesInv, TypeOK', UNCHANGED <<edition, resultState, dutyVars>>
    PROVE  DutiesInv'
  BY DEF DutiesInv, SubmitterKnown, DutiesSeparated, dutyVars, AutoVerify, AutoApprove,
         MayVerifyOwn, MayApproveOwn

(* Match operations, score entry and the inclusion box are such steps. *)
LEMMA QuietStepKeepsDuties ==
    ASSUME DutiesInv, NEW m \in Matches,
           LifecycleStep(m) \/ EntryStep(m) \/ TickInclusion(m)
    PROVE  DutiesInv' /\ UNCHANGED <<edition, resultState, dutyVars>>
<1>1. TypeOK
  BY DEF DutiesInv
<1>2. CASE LifecycleStep(m)
  <2>1. PICK from \in SUBSET MatchStates, to \in MatchStates : MoveMatch(m, from, to)
    BY <1>2 DEF LifecycleStep, ScheduleMatch, StartMatch, FinishMatch, CancelMatch,
                ResetMatch, MatchStates
  <2>2. QED
    BY <1>1, <2>1, DutiesUnchanged DEF MoveMatch, TypeOK, entryVars, dutyVars
<1>3. CASE EntryStep(m)
  <2>1. CASE \E s \in Scores, zero \in BOOLEAN : EnterScore(m, s, zero)
    BY <1>1, <2>1, DutiesUnchanged DEF EnterScore, TypeOK, dutyVars
  <2>2. CASE \E entry, zero \in BOOLEAN : EditConfirmation(m, entry, zero)
    BY <1>1, <2>2, DutiesUnchanged DEF EditConfirmation, TypeOK, dutyVars
  <2>3. CASE \E totals \in Scores \cup {NoPeriods} : EditPeriods(m, totals)
    BY <1>1, <2>3, DutiesUnchanged DEF EditPeriods, TypeOK, dutyVars
  <2>4. QED
    BY <1>3, <2>1, <2>2, <2>3 DEF EntryStep
<1>4. CASE TickInclusion(m)
  BY <1>1, <1>4, DutiesUnchanged DEF TickInclusion, TypeOK, entryVars, dutyVars
<1>5. QED
  BY <1>2, <1>3, <1>4

(* Submissions. *)
LEMMA SubmissionKeepsDuties ==
    ASSUME DutiesInv, NEW m \in Matches, NEW u \in Users,
           SubmitResult(u, m) \/ SubmitVerified(u, m) \/ SubmitApproved(u, m)
    PROVE  DutiesInv'
<1> USE UsersAssumption DEF DutiesInv, TypeOK, Stamp, MoveResult, CompletedState
<1>1. CASE SubmitResult(u, m)
  <2>1. TypeOK'
    BY <1>1 DEF SubmitResult, ResultStates, entryVars
  <2>2. SubmitterKnown'
    BY <1>1 DEF SubmitResult, SubmitterKnown
  <2>3. DutiesSeparated'
    BY <1>1 DEF SubmitResult, DutiesSeparated, AutoVerify, AutoApprove, MayVerifyOwn,
                MayApproveOwn
  <2>4. QED
    BY <2>1, <2>2, <2>3
<1>2. CASE SubmitVerified(u, m)
  <2>1. TypeOK'
    BY <1>2 DEF SubmitVerified, ResultStates, entryVars
  <2>2. SubmitterKnown'
    BY <1>2 DEF SubmitVerified, SubmitterKnown
  <2>3. DutiesSeparated'
    BY <1>2 DEF SubmitVerified, DutiesSeparated, AutoVerify, AutoApprove, MayVerifyOwn,
                MayApproveOwn
  <2>4. QED
    BY <2>1, <2>2, <2>3
<1>3. CASE SubmitApproved(u, m)
  <2>1. TypeOK'
    BY <1>3 DEF SubmitApproved, ResultStates, MatchStates, entryVars
  <2>2. SubmitterKnown'
    BY <1>3 DEF SubmitApproved, SubmitterKnown
  <2>3. DutiesSeparated'
    BY <1>3 DEF SubmitApproved, DutiesSeparated, AutoVerify, AutoApprove, MayVerifyOwn,
                MayApproveOwn
  <2>4. QED
    BY <2>1, <2>2, <2>3
<1>4. QED
  BY <1>1, <1>2, <1>3

(* Verification. *)
LEMMA VerificationKeepsDuties ==
    ASSUME DutiesInv, NEW m \in Matches, NEW u \in Users, VerifyResult(u, m)
    PROVE  DutiesInv'
<1> USE UsersAssumption DEF DutiesInv, TypeOK, Stamp, MoveResult, VerifyResult
<1>1. TypeOK'
  BY DEF ResultStates, entryVars
<1>2. SubmitterKnown'
  BY DEF SubmitterKnown
<1>3. DutiesSeparated'
  BY DEF DutiesSeparated, SubmitterKnown, AutoVerify, AutoApprove, MayVerifyOwn, MayApproveOwn
<1>4. QED
  BY <1>1, <1>2, <1>3

(* Approval, by an approver or by a club in the portal. *)
LEMMA ApprovalKeepsDuties ==
    ASSUME DutiesInv, NEW m \in Matches, NEW u \in Users, ApproveBody(u, m)
    PROVE  DutiesInv'
<1> USE UsersAssumption DEF DutiesInv, TypeOK, Stamp, MoveResult, ApproveBody
<1>1. TypeOK'
  BY DEF ResultStates, MatchStates, CompletedState, entryVars
<1>2. SubmitterKnown'
  BY DEF SubmitterKnown
<1>3. DutiesSeparated'
  BY DEF DutiesSeparated, ApprovalDuties, AutoVerify, AutoApprove, MayVerifyOwn, MayApproveOwn
<1>4. QED
  BY <1>1, <1>2, <1>3

(* Contest, correction, reset. *)
LEMMA WithdrawalKeepsDuties ==
    ASSUME DutiesInv, NEW m \in Matches, NEW u \in Users, WithdrawalStep(u, m)
    PROVE  DutiesInv'
<1> USE UsersAssumption DEF DutiesInv, TypeOK, Stamp, MoveResult, Withdraw
<1>1. PICK target \in {"draft", "contested", "corrected"} :
        /\ Withdraw(m, ResultStates, target)
        /\ submittedBy' = submittedBy
        /\ \/ UNCHANGED dutyVars
           \/ /\ verifiedBy' = [verifiedBy EXCEPT ![m] = NoUser]
              /\ approvedBy' = [approvedBy EXCEPT ![m] = NoUser]
  BY DEF WithdrawalStep, ContestResult, CorrectResult, ResetResultToDraft, ResultStates, dutyVars
<1>2. TypeOK'
  BY <1>1 DEF ResultStates, MatchStates, ReopenedState, entryVars, dutyVars
<1>3. SubmitterKnown'
  BY <1>1 DEF SubmitterKnown
<1>4. DutiesSeparated'
  BY <1>1 DEF DutiesSeparated, AutoVerify, AutoApprove, MayVerifyOwn, MayApproveOwn, dutyVars
<1>5. QED
  BY <1>2, <1>3, <1>4

(* The invariant is preserved by every request. *)
LEMMA DutiesStep == DutiesInv /\ [MatchNext]_matchVars => DutiesInv'
<1> SUFFICES ASSUME DutiesInv, [MatchNext]_matchVars PROVE DutiesInv'
  OBVIOUS
<1>1. CASE UNCHANGED matchVars
  BY <1>1, DutiesUnchanged DEF DutiesInv, TypeOK, matchVars, dutyVars
<1>2. CASE MatchNext
  <2>1. PICK m \in Matches :
          \/ LifecycleStep(m) \/ EntryStep(m) \/ TickInclusion(m)
          \/ \E u \in Users : ReviewStep(u, m) \/ ApprovalStep(u, m) \/ WithdrawalStep(u, m)
    BY <1>2 DEF MatchNext
  <2>2. CASE LifecycleStep(m) \/ EntryStep(m) \/ TickInclusion(m)
    BY <2>2, QuietStepKeepsDuties
  <2>3. ASSUME NEW u \in Users, ReviewStep(u, m) PROVE DutiesInv'
    BY <2>3, SubmissionKeepsDuties, VerificationKeepsDuties DEF ReviewStep
  <2>4. ASSUME NEW u \in Users, ApprovalStep(u, m) PROVE DutiesInv'
    BY <2>4, SubmissionKeepsDuties, ApprovalKeepsDuties
    DEF ApprovalStep, ApproveResult, ApprovePortalResult
  <2>5. ASSUME NEW u \in Users, WithdrawalStep(u, m) PROVE DutiesInv'
    BY <2>5, WithdrawalKeepsDuties
  <2>6. QED
    BY <2>1, <2>2, <2>3, <2>4, <2>5
<1>3. QED
  BY <1>1, <1>2

(* Type correctness and separation of duties hold in every reachable state, *)
(* for any number of matches and people and any workflow policy.            *)
THEOREM DutiesAlwaysSeparated == MatchSpec => [](TypeOK /\ DutiesSeparated)
<1>1. DutiesInv => TypeOK /\ DutiesSeparated
  BY DEF DutiesInv
<1>2. QED
  BY <1>1, DutiesInit, DutiesStep, PTL DEF MatchSpec

-----------------------------------------------------------------------------
(* Withdrawing an official result reopens its match, in every behaviour. *)
THEOREM WithdrawalAlwaysReopens == MatchSpec => WithdrawalReopens
<1>1. ASSUME TypeOK, MatchNext, NEW m \in Matches,
             resultState[m] = "approved", resultState'[m] # "approved"
      PROVE  state'[m] # "done" /\ ~included'[m]
  <2>1. PICK n \in Matches :
          \/ LifecycleStep(n) \/ EntryStep(n) \/ TickInclusion(n)
          \/ \E u \in Users : ReviewStep(u, n) \/ ApprovalStep(u, n) \/ WithdrawalStep(u, n)
    BY <1>1 DEF MatchNext
  <2>2. ~(LifecycleStep(n) \/ EntryStep(n) \/ TickInclusion(n))
    BY <1>1 DEF LifecycleStep, ScheduleMatch, StartMatch, FinishMatch, CancelMatch, ResetMatch,
                MoveMatch, EntryStep, EnterScore, EditConfirmation, EditPeriods, TickInclusion
  <2>3. ASSUME NEW u \in Users, ReviewStep(u, n) PROVE FALSE
    BY <1>1, <2>3 DEF TypeOK, ReviewStep, SubmitResult, SubmitVerified, VerifyResult, CanSubmit,
                      MoveResult
  <2>4. ASSUME NEW u \in Users, ApprovalStep(u, n) PROVE FALSE
    BY <1>1, <2>4 DEF TypeOK, ApprovalStep, SubmitApproved, ApproveResult, ApprovePortalResult,
                      ApproveBody, MoveResult
  <2>5. ASSUME NEW u \in Users, WithdrawalStep(u, n)
        PROVE  state'[m] # "done" /\ ~included'[m]
    BY <1>1, <2>5 DEF TypeOK, WithdrawalStep, ContestResult, CorrectResult, ResetResultToDraft,
                      Withdraw, MoveResult, ReopenedState
  <2>6. QED
    BY <2>1, <2>2, <2>3, <2>4, <2>5
<1>2. TypeOK /\ [MatchNext]_matchVars =>
        [\A m \in Matches :
            resultState[m] = "approved" /\ resultState'[m] # "approved"
                => state'[m] # "done" /\ ~included'[m]]_matchVars
  BY <1>1
<1>3. MatchSpec => []TypeOK
  BY DutiesAlwaysSeparated, PTL
<1>4. QED
  BY <1>2, <1>3, PTL DEF MatchSpec, WithdrawalReopens

-----------------------------------------------------------------------------
(* How many people stand behind three signatures. *)
LEMMA SignatureCount ==
    ASSUME NEW a, NEW b, NEW c
    PROVE  /\ Cardinality({a, b, c}) \in Nat
           /\ Cardinality({a, b, c}) >= 1
           /\ a # b \/ c \notin {a, b} => Cardinality({a, b, c}) >= 2
           /\ a # b /\ c \notin {a, b} => Cardinality({a, b, c}) >= 3
<1>1. /\ IsFiniteSet({a}) /\ Cardinality({a}) = 1
  BY FS_Singleton
<1>2. /\ IsFiniteSet({a, b})
      /\ Cardinality({a, b}) = IF a = b THEN 1 ELSE 2
  <2>1. {a, b} = {a} \cup {b}
    OBVIOUS
  <2>2. QED
    BY <1>1, <2>1, FS_AddElement
<1>3. Cardinality({a, b, c}) =
        IF c \in {a, b} THEN Cardinality({a, b}) ELSE Cardinality({a, b}) + 1
  <2>1. {a, b, c} = {a, b} \cup {c}
    OBVIOUS
  <2>2. QED
    BY <1>2, <2>1, FS_AddElement
<1>4. QED
  BY <1>2, <1>3

(* Every official result has the signatures the policy asks for. *)
SignedOff ==
    \A m \in Matches : resultState[m] = "approved" =>
        /\ {submittedBy[m], verifiedBy[m], approvedBy[m]} \subseteq Users
        /\ Cardinality({submittedBy[m], verifiedBy[m], approvedBy[m]}) >= Quorum

(* An approval collects them. *)
LEMMA ApprovedQuorum == DutiesInv => SignedOff
<1> SUFFICES ASSUME DutiesInv, NEW m \in Matches, resultState[m] = "approved"
             PROVE  /\ {submittedBy[m], verifiedBy[m], approvedBy[m]} \subseteq Users
                    /\ Cardinality({submittedBy[m], verifiedBy[m], approvedBy[m]}) >= Quorum
  BY DEF SignedOff
<1>1. {submittedBy[m], verifiedBy[m], approvedBy[m]} \subseteq Users
  BY DEF DutiesInv, DutiesSeparated
<1>2. /\ ~AutoVerify /\ ~MayVerifyOwn => submittedBy[m] # verifiedBy[m]
      /\ ~AutoApprove /\ ~MayApproveOwn =>
            approvedBy[m] \notin {submittedBy[m], verifiedBy[m]}
  BY DEF DutiesInv, DutiesSeparated
<1>3. QED
  BY <1>1, <1>2, SignatureCount DEF Quorum, AutoApprove

(* Also in the state after a step. *)
LEMMA ApprovedQuorumNext == DutiesInv' => SignedOff'
  BY ApprovedQuorum, PTL

-----------------------------------------------------------------------------
(* The quorum depends on the policy only, and a policy never changes. *)
LEMMA QuorumFixed ==
    /\ DutiesInv => Quorum \in 1..3
    /\ edition' = edition => Quorum' = Quorum
  BY DEF Quorum, AutoVerify, AutoApprove, MayVerifyOwn, MayApproveOwn

(* A request that touches neither an official score nor an official signature *)
(* is invisible in the ledger.                                                *)
LEMMA LedgerUnchanged ==
    ASSUME edition' = edition,
           \A m \in Matches : IsOfficial(m)' = IsOfficial(m),
           \A m \in Matches : IsOfficial(m) =>
               /\ score'[m] = score[m]
               /\ submittedBy'[m] = submittedBy[m]
               /\ verifiedBy'[m] = verifiedBy[m]
               /\ approvedBy'[m] = approvedBy[m]
    PROVE  UNCHANGED Ledger!ledgerVars
<1>1. OfficialScores' = OfficialScores
  BY DEF OfficialScores, NotOfficial, IsOfficial
<1>2. Signatures' = Signatures
  BY DEF Signatures, IsOfficial
<1>3. QED
  BY <1>1, <1>2, QuorumFixed DEF Ledger!ledgerVars

(* Submission without approval, verification and every quiet step. *)
LEMMA UnofficialStepStutters ==
    ASSUME DutiesInv, NEW m \in Matches,
           \/ LifecycleStep(m) \/ EntryStep(m) \/ TickInclusion(m)
           \/ \E u \in Users : ReviewStep(u, m)
    PROVE  UNCHANGED Ledger!ledgerVars
<1>1. TypeOK
  BY DEF DutiesInv
<1>2. CASE LifecycleStep(m)
  BY <1>1, <1>2, LedgerUnchanged
  DEF LifecycleStep, ScheduleMatch, StartMatch, FinishMatch, CancelMatch, ResetMatch, MoveMatch,
      IsOfficial, entryVars, dutyVars
<1>3. CASE EntryStep(m)
  BY <1>1, <1>3, LedgerUnchanged
  DEF EntryStep, EnterScore, ScoreWritable, EditConfirmation, EditPeriods, TypeOK, IsOfficial,
      dutyVars
<1>4. CASE TickInclusion(m)
  BY <1>1, <1>4, LedgerUnchanged DEF TickInclusion, IsOfficial, entryVars, dutyVars
<1>5. CASE \E u \in Users : ReviewStep(u, m)
  <2>1. /\ edition' = edition /\ score' = score
        /\ ~IsOfficial(m) /\ ~IsOfficial(m)'
        /\ \A n \in Matches \ {m} :
              /\ resultState'[n] = resultState[n]
              /\ submittedBy'[n] = submittedBy[n]
              /\ verifiedBy'[n] = verifiedBy[n]
              /\ approvedBy'[n] = approvedBy[n]
    BY <1>1, <1>5
    DEF ReviewStep, SubmitResult, SubmitVerified, VerifyResult, CanSubmit, MoveResult, Stamp,
        TypeOK, IsOfficial, entryVars
  <2>2. QED
    BY <2>1, LedgerUnchanged DEF IsOfficial
<1>6. QED
  BY <1>2, <1>3, <1>4, <1>5

(* An approval publishes one result under the signatures of its three duties. *)
LEMMA ApprovalPublishes ==
    ASSUME DutiesInv, DutiesInv', NEW m \in Matches, NEW u \in Users, ApprovalStep(u, m)
    PROVE  Ledger!Next
<1>1. /\ edition' = edition /\ score' = score
      /\ ~IsOfficial(m) /\ IsOfficial(m)'
      /\ \A n \in Matches \ {m} :
            /\ resultState'[n] = resultState[n]
            /\ submittedBy'[n] = submittedBy[n]
            /\ verifiedBy'[n] = verifiedBy[n]
            /\ approvedBy'[n] = approvedBy[n]
  BY DEF DutiesInv, TypeOK, ApprovalStep, ApproveResult, ApprovePortalResult, ApproveBody,
         SubmitApproved, CanSubmit, MoveResult, Stamp, IsOfficial, entryVars
<1> DEFINE who == {submittedBy'[m], verifiedBy'[m], approvedBy'[m]}
<1>2. who \subseteq Users /\ Cardinality(who) >= Quorum
  <2>1. SignedOff'
    BY ApprovedQuorumNext
  <2>2. QED
    BY <1>1, <2>1, QuorumFixed DEF SignedOff, IsOfficial
<1>3. OfficialScores' = [OfficialScores EXCEPT ![m] = score[m]]
  BY <1>1 DEF OfficialScores, NotOfficial, IsOfficial
<1>4. Signatures' = [Signatures EXCEPT ![m] = who]
  BY <1>1 DEF Signatures, IsOfficial
<1>5. OfficialScores[m] = NotOfficial /\ score[m] \in Scores
  BY <1>1 DEF OfficialScores, DutiesInv, TypeOK
<1>6. Ledger!Publish(m, score[m], who)
  BY <1>1, <1>2, <1>3, <1>4, <1>5, QuorumFixed DEF Ledger!Publish, Ledger!Cardinality, Cardinality
<1>7. QED
  BY <1>2, <1>5, <1>6 DEF Ledger!Next

(* A withdrawal takes one official result out of the ledger, or is invisible. *)
LEMMA WithdrawalWithdraws ==
    ASSUME DutiesInv, NEW m \in Matches, NEW u \in Users, WithdrawalStep(u, m)
    PROVE  Ledger!Next \/ UNCHANGED Ledger!ledgerVars
<1>1. /\ edition' = edition /\ score' = score
      /\ ~IsOfficial(m)'
      /\ \A n \in Matches \ {m} :
            /\ resultState'[n] = resultState[n]
            /\ submittedBy'[n] = submittedBy[n]
            /\ verifiedBy'[n] = verifiedBy[n]
            /\ approvedBy'[n] = approvedBy[n]
  BY DEF DutiesInv, TypeOK, WithdrawalStep, ContestResult, CorrectResult, ResetResultToDraft,
         Withdraw, MoveResult, Stamp, IsOfficial, entryVars, dutyVars
<1>2. CASE IsOfficial(m)
  <2>1. OfficialScores' = [OfficialScores EXCEPT ![m] = NotOfficial]
    BY <1>1 DEF OfficialScores, NotOfficial, IsOfficial
  <2>2. Signatures' = [Signatures EXCEPT ![m] = {}]
    BY <1>1 DEF Signatures, IsOfficial
  <2>3. OfficialScores[m] # NotOfficial
    BY <1>2, ScoresAssumption DEF OfficialScores, NotOfficial, DutiesInv, TypeOK
  <2>4. QED
    BY <1>1, <2>1, <2>2, <2>3, QuorumFixed DEF Ledger!Next, Ledger!Withdraw
<1>3. CASE ~IsOfficial(m)
  BY <1>1, <1>3, LedgerUnchanged DEF IsOfficial
<1>4. QED
  BY <1>2, <1>3

(* Every request is a step of the ledger of official results or invisible in *)
(* it: a result becomes official once, with the signatures its policy asks   *)
(* for, is frozen while it is official, and leaves only by being withdrawn.  *)
THEOREM WorkflowImplementsLedger == MatchSpec => ImplementsLedger
<1>1. MatchInit => Ledger!Init
  <2>1. MatchInit => DutiesInv
    BY DutiesInit
  <2>2. MatchInit => /\ OfficialScores = [m \in Matches |-> NotOfficial]
                     /\ Signatures = [m \in Matches |-> {}]
    BY DEF MatchInit, OfficialScores, Signatures, IsOfficial
  <2>3. QED
    BY <2>1, <2>2, QuorumFixed DEF Ledger!Init
<1>2. DutiesInv /\ DutiesInv' /\ [MatchNext]_matchVars => [Ledger!Next]_(Ledger!ledgerVars)
  <2> SUFFICES ASSUME DutiesInv, DutiesInv', [MatchNext]_matchVars
               PROVE  Ledger!Next \/ UNCHANGED Ledger!ledgerVars
    OBVIOUS
  <2>1. CASE UNCHANGED matchVars
    BY <2>1, LedgerUnchanged DEF matchVars, IsOfficial
  <2>2. CASE MatchNext
    <3>1. PICK m \in Matches :
            \/ LifecycleStep(m) \/ EntryStep(m) \/ TickInclusion(m)
            \/ \E u \in Users : ReviewStep(u, m) \/ ApprovalStep(u, m) \/ WithdrawalStep(u, m)
      BY <2>2 DEF MatchNext
    <3>2. QED
      BY <3>1, UnofficialStepStutters, ApprovalPublishes, WithdrawalWithdraws
  <2>3. QED
    BY <2>1, <2>2
<1>3. MatchSpec => []DutiesInv
  BY DutiesInit, DutiesStep, PTL DEF MatchSpec
<1>4. QED
  BY <1>1, <1>2, <1>3, PTL DEF MatchSpec, ImplementsLedger, Ledger!Spec

-----------------------------------------------------------------------------
(* The recompute queue by itself counts attempts right, for any number of   *)
(* jobs, any priorities and any limits.                                     *)

(* A job that was never requested, or waits, has an attempt left. *)
QueueInv ==
    /\ QueueTypeOK
    /\ AttemptsHonoured
    /\ \A j \in Jobs : jobState[j] = "none" => attempts[j] < MaxAttempts

(* The initial states satisfy the inductive invariant. *)
LEMMA QueueInvInit == QueueInit => QueueInv
  BY QueueAssumption DEF QueueInit, QueueInv, QueueTypeOK, AttemptsHonoured, JobStates, Waiting

(* A cron run counts one attempt for each job of its batch. *)
LEMMA CronRunKeepsInv ==
    ASSUME QueueInv, NEW batch \in SUBSET Jobs, NEW good \in SUBSET batch, RunQueue(batch, good)
    PROVE  QueueInv'
<1> USE QueueAssumption
<1>1. \A j \in batch : jobState[j] \in Waiting /\ attempts[j] < MaxAttempts
  BY DEF QueueInv, AttemptsHonoured, RunQueue, IsBatch, DueJobs
<1>2. /\ attempts' \in [Jobs -> 0..MaxAttempts]
      /\ \A j \in Jobs : attempts'[j] = attempts[j] + (IF j \in batch THEN 1 ELSE 0)
  BY <1>1 DEF QueueInv, QueueTypeOK, RunQueue
<1>3. /\ jobState' \in [Jobs -> JobStates]
      /\ \A j \in Jobs : jobState'[j] = IF j \in good THEN "done"
                                        ELSE IF j \in batch THEN FailedState(j)
                                        ELSE jobState[j]
  BY DEF QueueInv, QueueTypeOK, RunQueue, JobStates, FailedState
<1>4. due' \in [Jobs -> BOOLEAN] /\ operatorRetries' = operatorRetries
  BY DEF QueueInv, QueueTypeOK, RunQueue
<1>5. QueueTypeOK'
  BY <1>2, <1>3, <1>4 DEF QueueInv, QueueTypeOK
<1>6. ASSUME NEW j \in Jobs
      PROVE  /\ jobState'[j] = "dead_letter" => attempts'[j] = MaxAttempts
             /\ jobState'[j] \in Waiting \cup {"none"} => attempts'[j] < MaxAttempts
  <2>1. attempts[j] \in 0..MaxAttempts
    BY DEF QueueInv, QueueTypeOK
  <2>2. CASE j \in batch
    BY <1>1, <1>2, <1>3, <2>1, <2>2 DEF FailedState, Exhausted, Waiting
  <2>3. CASE j \notin batch
    BY <1>2, <1>3, <2>1, <2>3 DEF QueueInv, AttemptsHonoured, Waiting
  <2>4. QED
    BY <2>2, <2>3
<1>7. QED
  BY <1>5, <1>6 DEF QueueInv, AttemptsHonoured

(* Requests, backoffs and operators. *)
LEMMA JobStepKeepsInv ==
    ASSUME QueueInv, NEW j \in Jobs, RequestRecompute(j) \/ RetryDue(j) \/ OperatorRetry(j)
    PROVE  QueueInv'
<1> USE QueueAssumption DEF QueueInv, QueueTypeOK, AttemptsHonoured, JobStates, Waiting
<1>1. CASE RequestRecompute(j)
  BY <1>1 DEF RequestRecompute
<1>2. CASE RetryDue(j)
  BY <1>2 DEF RetryDue
<1>3. CASE OperatorRetry(j)
  BY <1>3 DEF OperatorRetry, RetryAttempts
<1>4. QED
  BY <1>1, <1>2, <1>3

(* The invariant is preserved by every step of the queue. *)
LEMMA QueueInvStep == QueueInv /\ [QueueNext]_queueVars => QueueInv'
<1> SUFFICES ASSUME QueueInv, [QueueNext]_queueVars PROVE QueueInv'
  OBVIOUS
<1>1. CASE UNCHANGED queueVars
  BY <1>1 DEF queueVars, QueueInv, QueueTypeOK, AttemptsHonoured
<1>2. CASE QueueNext
  BY <1>2, CronRunKeepsInv, JobStepKeepsInv DEF QueueNext, CronRun
<1>3. QED
  BY <1>1, <1>2

(* A job is given up exactly when its attempts are used up, whatever the     *)
(* priorities, batches and operators do.                                     *)
THEOREM AttemptsAlwaysHonoured == QueueSpec => [](QueueTypeOK /\ AttemptsHonoured)
<1>1. QueueInv => QueueTypeOK /\ AttemptsHonoured
  BY DEF QueueInv
<1>2. QED
  BY <1>1, QueueInvStep, QueueInvInit, PTL DEF QueueSpec

-----------------------------------------------------------------------------
(* What makes the four invariants inductive, for one linked table: they hold *)
(* together, and because a frozen stage is decided, only a withdrawal of one *)
(* of its own results can change what its table should show.                 *)
StageOK(t) ==
    /\ snapshot[t] # NoSnapshot =>
          /\ snapshot[t] = {StageResults(t)}
          /\ StageDecided(t)
          /\ rows[t] = StageResults(t)
    /\ tableState[t] = "frozen" => snapshot[t] # NoSnapshot
    /\ progressed[t] => snapshot[t] # NoSnapshot

StagesOK == \A t \in Linked : StageOK(t)

TablesInv == TypeOK /\ TablesTypeOK /\ StagesOK

-----------------------------------------------------------------------------
(* The composition changes results only through the workflow's requests. *)
LEMMA TablesStepIsMatchStep == [Next]_allVars => [MatchNext]_matchVars
<1> SUFFICES ASSUME [Next]_allVars PROVE [MatchNext]_matchVars
  OBVIOUS
<1>1. CASE UNCHANGED allVars
  BY <1>1 DEF allVars
<1>2. CASE QuietMatchStep
  BY <1>2 DEF QuietMatchStep, MatchNext
<1>3. ASSUME NEW m \in Matches, NEW u \in Users, ApproveInTables(u, m) \/ WithdrawInTables(u, m)
      PROVE  MatchNext
  BY <1>3 DEF ApproveInTables, WithdrawInTables, MatchNext
<1>4. CASE TableStep
  BY <1>4 DEF TableStep, RecomputeTable, ForceRecompute, FreezePlainTable, RefreezeLinkedTable,
              FreezeStage, UnfreezeTable
<1>5. CASE QueueStep
  BY <1>5 DEF QueueStep, CronRunInTables, RetryDueInTables, RunQueueInTables
<1>6. QED
  BY <1>1, <1>2, <1>3, <1>4, <1>5 DEF Next

(* Duties stay separated, and withdrawals reopen, in the composition too. *)
THEOREM TablesImplementWorkflow == Spec => MatchSpec
  BY TablesStepIsMatchStep, PTL DEF Spec, Init, MatchSpec

(* And it uses the recompute queue only through the queue's own steps. *)
LEMMA TablesStepIsQueueStep == [Next]_allVars => [QueueNext]_queueVars
<1> SUFFICES ASSUME [Next]_allVars PROVE [QueueNext]_queueVars
  OBVIOUS
<1>1. CASE UNCHANGED allVars
  BY <1>1 DEF allVars
<1>2. CASE QuietMatchStep
  BY <1>2 DEF QuietMatchStep
<1>3. ASSUME NEW m \in Matches, NEW u \in Users, ApproveInTables(u, m) \/ WithdrawInTables(u, m)
      PROVE  UNCHANGED queueVars
  BY <1>3 DEF ApproveInTables, WithdrawInTables
<1>4. CASE TableStep
  BY <1>4 DEF TableStep, RecomputeTable, ForceRecompute, FreezePlainTable, RefreezeLinkedTable,
              FreezeStage, UnfreezeTable
<1>5. CASE QueueStep
  BY <1>5 DEF QueueStep, CronRunInTables, RetryDueInTables, RunQueueInTables, QueueNext, CronRun
<1>6. QED
  BY <1>1, <1>2, <1>3, <1>4, <1>5 DEF Next

(* Attempts are counted right in the composition: what a recompute does to   *)
(* the tables never costs or gives a job an attempt.                         *)
THEOREM TablesHonourAttempts == Spec => [](QueueTypeOK /\ AttemptsHonoured)
<1>1. QueueInv => QueueTypeOK /\ AttemptsHonoured
  BY DEF QueueInv
<1>2. QED
  BY <1>1, QueueInvInit, QueueInvStep, TablesStepIsQueueStep, PTL DEF Spec, Init

-----------------------------------------------------------------------------
(* A decided stage none of whose results changes still has the same table. *)
LEMMA SameStage ==
    ASSUME NEW t \in Linked, StageDecided(t),
           \A m \in Scope[t] : resultState[m] = "approved" =>
               /\ resultState'[m] = "approved"
               /\ included'[m] = included[m]
               /\ score'[m] = score[m]
    PROVE  StageResults(t)' = StageResults(t) /\ StageDecided(t)'
<1>1. \A m \in Scope[t] : /\ resultState[m] = "approved" /\ resultState'[m] = "approved"
                          /\ included[m] /\ included'[m]
                          /\ score'[m] = score[m]
  BY DEF StageDecided
<1>2. QED
  BY <1>1 DEF StageResults, StageDecided

(* A stage whose snapshot, table and progression a step leaves alone. *)
LEMMA StageKept ==
    ASSUME NEW t \in Linked, StageOK(t),
           snapshot'[t] = snapshot[t], progressed'[t] = progressed[t],
           rows'[t] = rows[t] \/ rows'[t] = StageResults(t)',
           tableState'[t] = "frozen" => tableState[t] = "frozen",
           snapshot[t] # NoSnapshot =>
               StageResults(t)' = StageResults(t) /\ StageDecided(t)'
    PROVE  StageOK(t)'
  BY DEF StageOK

(* What a request does to the results it is not about. *)
LEMMA QuietKeepsOfficial ==
    ASSUME TypeOK, ~ManualInclusion, QuietMatchStep, NEW m \in Matches,
           resultState[m] = "approved"
    PROVE  /\ resultState'[m] = "approved"
           /\ included'[m] = included[m]
           /\ score'[m] = score[m]
<1>1. PICK n \in Matches : LifecycleStep(n) \/ EntryStep(n) \/ \E u \in Users : ReviewStep(u, n)
  BY DEF QuietMatchStep
<1>2. CASE LifecycleStep(n)
  BY <1>2 DEF LifecycleStep, ScheduleMatch, StartMatch, FinishMatch, CancelMatch, ResetMatch,
              MoveMatch, entryVars
<1>3. CASE EntryStep(n)
  BY <1>3 DEF EntryStep, EnterScore, ScoreWritable, EditConfirmation, EditPeriods, TypeOK
<1>4. CASE \E u \in Users : ReviewStep(u, n)
  BY <1>4 DEF ReviewStep, SubmitResult, SubmitVerified, VerifyResult, CanSubmit, MoveResult,
              TypeOK, entryVars
<1>5. QED
  BY <1>1, <1>2, <1>3, <1>4

(* An approval is about a result that was not official, *)
LEMMA ApprovalKeepsOthers ==
    ASSUME TypeOK, NEW u \in Users, NEW n \in Matches, ApprovalStep(u, n)
    PROVE  /\ resultState[n] # "approved"
           /\ score' = score
           /\ \A m \in Matches \ {n} :
                 resultState'[m] = resultState[m] /\ included'[m] = included[m]
  BY DEF TypeOK, ApprovalStep, ApproveResult, ApprovePortalResult, ApproveBody, SubmitApproved,
         CanSubmit, MoveResult, entryVars

(* and a withdrawal leaves every other result as it was. *)
LEMMA WithdrawalKeepsOthers ==
    ASSUME TypeOK, NEW u \in Users, NEW n \in Matches, WithdrawalStep(u, n)
    PROVE  /\ score' = score
           /\ \A m \in Matches \ {n} :
                 resultState'[m] = resultState[m] /\ included'[m] = included[m]
  BY DEF TypeOK, WithdrawalStep, ContestResult, CorrectResult, ResetResultToDraft, Withdraw,
         MoveResult, entryVars

-----------------------------------------------------------------------------
(* Every step keeps every stage consistent: the requests about results. *)
LEMMA ResultStepKeepsStages ==
    ASSUME TablesInv, ~ManualInclusion, NEW t \in Linked,
           \/ QuietMatchStep
           \/ \E m \in Matches, u \in Users : ApproveInTables(u, m) \/ WithdrawInTables(u, m)
    PROVE  StageOK(t)'
<1> USE TablesAssumption
<1>0. TypeOK /\ TablesTypeOK /\ StageOK(t) /\ t \in Tables /\ Scope[t] \subseteq Matches
  BY DEF TablesInv, StagesOK
<1>1. CASE QuietMatchStep
  <2>1. snapshot[t] # NoSnapshot => StageResults(t)' = StageResults(t) /\ StageDecided(t)'
    BY <1>0, <1>1, QuietKeepsOfficial, SameStage DEF StageOK
  <2>2. QED
    BY <1>0, <1>1, <2>1, StageKept DEF QuietMatchStep, tableVars
<1>2. ASSUME NEW m \in Matches, NEW u \in Users, ApproveInTables(u, m)
      PROVE  StageOK(t)'
  <2>1. snapshot[t] # NoSnapshot => StageResults(t)' = StageResults(t) /\ StageDecided(t)'
    <3>1. ApprovalStep(u, m)
      BY <1>2 DEF ApproveInTables
    <3>2. StageDecided(t) => m \notin Scope[t]
      BY <1>0, <3>1, ApprovalKeepsOthers DEF StageDecided
    <3>3. QED
      BY <1>0, <3>1, <3>2, ApprovalKeepsOthers, SameStage DEF StageOK
  <2>2. rows'[t] = rows[t] \/ rows'[t] = StageResults(t)'
    BY <1>0, <1>2 DEF ApproveInTables, RowsRecomputed, Counted
  <2>3. tableState'[t] = "frozen" => tableState[t] = "frozen"
    BY <1>0, <1>2 DEF ApproveInTables, StateComputed
  <2>4. QED
    BY <1>0, <1>2, <2>1, <2>2, <2>3, StageKept DEF ApproveInTables
<1>3. ASSUME NEW m \in Matches, NEW u \in Users, WithdrawInTables(u, m)
      PROVE  StageOK(t)'
  <2>1. rows'[t] = rows[t] \/ rows'[t] = StageResults(t)'
    BY <1>0, <1>3 DEF WithdrawInTables, RowsRecomputed, Counted
  <2>2. tableState'[t] = "frozen" => tableState[t] = "frozen" /\ t \notin Relabelled(m)
    BY <1>0, <1>3 DEF WithdrawInTables, StateComputed
  <2>3. CASE t \in StageOf(m)
    <3>1. snapshot'[t] = NoSnapshot
      BY <1>3, <2>3 DEF WithdrawInTables, SnapshotWithdrawn
    <3>2. tableState'[t] # "frozen"
      BY <1>0, <2>2, <2>3 DEF Relabelled, StageOK, Unfrozen
    <3>3. ~progressed'[t]
      BY <1>3, <2>3 DEF WithdrawInTables, WithdrawalBlocked
    <3>4. QED
      BY <3>1, <3>2, <3>3 DEF StageOK
  <2>4. CASE t \notin StageOf(m)
    <3>1. snapshot'[t] = snapshot[t] /\ progressed'[t] = progressed[t] /\ m \notin Scope[t]
      BY <1>3, <2>4 DEF WithdrawInTables, SnapshotWithdrawn, StageOf
    <3>2. snapshot[t] # NoSnapshot => StageResults(t)' = StageResults(t) /\ StageDecided(t)'
      BY <1>0, <1>3, <3>1, WithdrawalKeepsOthers, SameStage DEF StageOK, WithdrawInTables
    <3>3. QED
      BY <1>0, <2>1, <2>2, <3>1, <3>2, StageKept
  <2>5. QED
    BY <2>3, <2>4
<1>4. QED
  BY <1>1, <1>2, <1>3

(* The requests about tables, and the queue, leave the results alone. *)
LEMMA TableStepKeepsStages ==
    ASSUME TablesInv, NEW t \in Linked, TableStep \/ QueueStep
    PROVE  StageOK(t)'
<1> USE TablesAssumption
<1>0. /\ StageOK(t) /\ t \in Tables
      /\ rows \in [Tables -> SUBSET Results]
      /\ tableState \in [Tables -> {"draft", "computed", "frozen"}]
      /\ DOMAIN snapshot = Linked /\ DOMAIN progressed = Linked
  BY DEF TablesInv, StagesOK, TablesTypeOK
<1>1. /\ StageResults(t)' = StageResults(t)
      /\ Counted(t) = StageResults(t)
      /\ StageDecided(t) => StageDecided(t)'
  <2>1. matchVars' = matchVars
    BY DEF TableStep, RecomputeTable, ForceRecompute, FreezePlainTable, RefreezeLinkedTable,
           FreezeStage, UnfreezeTable, QueueStep, CronRunInTables, RetryDueInTables,
              RunQueueInTables
  <2>2. QED
    BY <2>1 DEF matchVars, StageResults, StageDecided, Counted
<1>2. ASSUME snapshot'[t] = snapshot[t], progressed'[t] = progressed[t],
             rows'[t] = rows[t] \/ rows'[t] = StageResults(t),
             tableState'[t] = "frozen" => tableState[t] = "frozen"
      PROVE  StageOK(t)'
  BY <1>0, <1>1, <1>2 DEF StageOK
<1>3. ASSUME NEW x \in Tables, RecomputeTable(x) \/ ForceRecompute(x) PROVE StageOK(t)'
  BY <1>0, <1>1, <1>2, <1>3 DEF RecomputeTable, ForceRecompute
<1>4. ASSUME NEW x \in Tables, FreezePlainTable(x) PROVE StageOK(t)'
  BY <1>0, <1>2, <1>4 DEF FreezePlainTable
<1>5. ASSUME NEW x \in Tables, RefreezeLinkedTable(x) PROVE StageOK(t)'
  <2>1. CASE x = t
    BY <1>0, <1>1, <1>5, <2>1 DEF RefreezeLinkedTable, StageOK
  <2>2. CASE x # t
    BY <1>0, <1>2, <1>5, <2>2 DEF RefreezeLinkedTable
  <2>3. QED
    BY <2>1, <2>2
<1>6. ASSUME NEW x \in Tables, FreezeStage(x) PROVE StageOK(t)'
  <2>1. CASE x = t
    <3>1. snapshot'[t] = {StageResults(t)} /\ StageDecided(t)
      BY <1>0, <1>6, <2>1 DEF FreezeStage
    <3>2. rows'[t] = StageResults(t)
      BY <1>0, <1>1, <1>6, <2>1 DEF FreezeStage, StageOK, Unfrozen
    <3>3. QED
      BY <1>1, <3>1, <3>2 DEF StageOK, NoSnapshot
  <2>2. CASE x # t
    BY <1>0, <1>2, <1>6, <2>2 DEF FreezeStage
  <2>3. QED
    BY <2>1, <2>2
<1>7. ASSUME NEW x \in Tables, UnfreezeTable(x) PROVE StageOK(t)'
  <2>1. CASE x = t
    BY <1>0, <1>7, <2>1 DEF UnfreezeTable, StageOK
  <2>2. CASE x # t
    BY <1>0, <1>2, <1>7, <2>2 DEF UnfreezeTable
  <2>3. QED
    BY <2>1, <2>2
<1>8. CASE QueueStep
  <2>1. CASE UNCHANGED tableVars
    BY <1>2, <2>1 DEF tableVars
  <2>2. ASSUME NEW batch \in SUBSET Jobs, NEW good \in SUBSET batch,
               RunQueueInTables(batch, good)
        PROVE  StageOK(t)'
    BY <1>0, <1>1, <1>2, <2>2 DEF RunQueueInTables, StateComputed
  <2>3. QED
    BY <1>8, <2>1, <2>2 DEF QueueStep, CronRunInTables, RetryDueInTables
<1>9. QED
  BY <1>3, <1>4, <1>5, <1>6, <1>7, <1>8 DEF TableStep

-----------------------------------------------------------------------------
(* Rows and snapshots are sets of results. *)
LEMMA CountedTyped ==
    ASSUME TypeOK, NEW t \in Tables
    PROVE  Counted(t) \in SUBSET Results /\ StageResults(t) \in SUBSET Results
  BY TablesAssumption DEF TypeOK, Counted, StageResults, Results

(* Also after a step. *)
LEMMA CountedTypedNext == TypeOK' => \A t \in Tables : Counted(t)' \in SUBSET Results
  BY TablesAssumption DEF TypeOK, Counted, StageResults, Results

(* Every step keeps the tables typed. *)
LEMMA TablesTyped ==
    ASSUME TypeOK, TypeOK', TablesTypeOK, [Next]_allVars
    PROVE  TablesTypeOK'
<1> USE TablesAssumption
<1>1. CASE UNCHANGED allVars \/ QuietMatchStep
  BY <1>1 DEF allVars, tableVars, QuietMatchStep, TablesTypeOK
<1>2. ASSUME NEW m \in Matches, NEW u \in Users, ApproveInTables(u, m) \/ WithdrawInTables(u, m)
      PROVE  TablesTypeOK'
  <2>1. rows' = RowsRecomputed(ToRecompute(m)) /\ progressed' = progressed
    BY <1>2 DEF ApproveInTables, WithdrawInTables
  <2>2. rows' \in [Tables -> SUBSET Results]
    BY <2>1, CountedTypedNext DEF RowsRecomputed, TablesTypeOK
  <2>3. PICK which \in SUBSET Tables : tableState' = StateComputed(which)
    BY <1>2 DEF ApproveInTables, WithdrawInTables, ToRecompute, Concerned, Relabelled, StageOf
  <2>4. tableState' \in [Tables -> {"draft", "computed", "frozen"}]
    BY <2>3 DEF StateComputed, TablesTypeOK
  <2>5. snapshot' = snapshot \/ snapshot' = SnapshotWithdrawn(m)
    BY <1>2 DEF ApproveInTables, WithdrawInTables
  <2>6. QED
    BY <2>1, <2>2, <2>4, <2>5 DEF SnapshotWithdrawn, TablesTypeOK
<1>3. ASSUME NEW t \in Tables,
             RecomputeTable(t) \/ ForceRecompute(t) \/ FreezePlainTable(t) \/ RefreezeLinkedTable(t)
      PROVE  TablesTypeOK'
  <2>1. Counted(t) \in SUBSET Results
    BY CountedTyped
  <2>2. snapshot' = snapshot /\ progressed' = progressed
    BY <1>3 DEF RecomputeTable, ForceRecompute, FreezePlainTable, RefreezeLinkedTable
  <2>3. /\ rows' \in [Tables -> SUBSET Results]
        /\ tableState' \in [Tables -> {"draft", "computed", "frozen"}]
    BY <1>3, <2>1 DEF RecomputeTable, ForceRecompute, FreezePlainTable, RefreezeLinkedTable,
                      TablesTypeOK
  <2>4. QED
    BY <2>2, <2>3 DEF TablesTypeOK
<1>4. ASSUME NEW t \in Tables, FreezeStage(t) \/ UnfreezeTable(t) PROVE TablesTypeOK'
  <2>1. Counted(t) \in SUBSET Results /\ StageResults(t) \in SUBSET Results
    BY CountedTyped
  <2>2. /\ rows' \in [Tables -> SUBSET Results]
        /\ tableState' \in [Tables -> {"draft", "computed", "frozen"}]
    BY <1>4, <2>1 DEF FreezeStage, UnfreezeTable, TablesTypeOK
  <2>3. progressed' \in [Linked -> BOOLEAN]
    <3>1. CASE FreezeStage(t)
      <4> DEFINE nowApplied == progressed[t] \/ t \in Feeding
      <4>1. nowApplied \in BOOLEAN /\ progressed' = [progressed EXCEPT ![t] = nowApplied]
        BY <3>1 DEF FreezeStage
      <4>2. QED
        BY <4>1 DEF TablesTypeOK
    <3>2. CASE UnfreezeTable(t)
      BY <3>2 DEF UnfreezeTable, TablesTypeOK
    <3>3. QED
      BY <1>4, <3>1, <3>2
  <2>4. snapshot' \in [Linked -> {NoSnapshot} \cup {{r} : r \in SUBSET Results}]
    <3>1. \A v \in {NoSnapshot} \cup {{r} : r \in SUBSET Results} :
            [snapshot EXCEPT ![t] = v] \in
                [Linked -> {NoSnapshot} \cup {{r} : r \in SUBSET Results}]
      BY DEF TablesTypeOK
    <3>2. {StageResults(t)} \in {{r} : r \in SUBSET Results}
      BY <2>1
    <3>3. CASE FreezeStage(t)
      BY <3>1, <3>2, <3>3 DEF FreezeStage
    <3>4. CASE UnfreezeTable(t)
      BY <3>4 DEF UnfreezeTable, TablesTypeOK
    <3>5. QED
      BY <1>4, <3>3, <3>4
  <2>5. QED
    BY <2>2, <2>3, <2>4 DEF TablesTypeOK
<1>5. CASE QueueStep
  <2>1. CASE UNCHANGED tableVars
    BY <2>1 DEF tableVars, TablesTypeOK
  <2>2. CASE \E batch \in SUBSET Jobs : \E good \in SUBSET batch : RunQueueInTables(batch, good)
    BY <2>2, CountedTyped DEF RunQueueInTables, StateComputed, TablesTypeOK
  <2>3. QED
    BY <1>5, <2>1, <2>2 DEF QueueStep, CronRunInTables, RetryDueInTables
<1>6. QED
  BY <1>1, <1>2, <1>3, <1>4, <1>5 DEF Next, TableStep

(* The initial states satisfy the inductive invariant. *)
LEMMA TablesInvInit == Init => TablesInv
  BY DutiesInit, TablesAssumption
  DEF Init, TablesInit, DutiesInv, TablesInv, TablesTypeOK, StagesOK, StageOK, NoRows, NoSnapshot

(* Every step preserves it. *)
LEMMA TablesInvStep ==
    ASSUME ~ManualInclusion, TablesInv, TypeOK', [Next]_allVars
    PROVE  TablesInv'
<1>1. TablesTypeOK'
  BY TablesTyped DEF TablesInv
<1>2. ASSUME NEW t \in Linked PROVE StageOK(t)'
  <2>1. CASE UNCHANGED allVars
    BY <1>2, <2>1 DEF allVars, matchVars, tableVars, TablesInv, StagesOK, StageOK, StageResults,
                      StageDecided
  <2>2. CASE Next
    BY <1>2, <2>2, ResultStepKeepsStages, TableStepKeepsStages DEF Next
  <2>3. QED
    BY <2>1, <2>2
<1>3. QED
  BY <1>1, <1>2 DEF TablesInv, StagesOK

(* The frozen snapshot of a stage, the rows its table shows and the results *)
(* that are official agree in every reachable state, a frozen table has its  *)
(* stage frozen, and a stage that fed another keeps its results, unless the  *)
(* inclusion box is edited by hand.                                          *)
THEOREM TablesAlwaysAgree ==
    ASSUME ~ManualInclusion
    PROVE  Spec => [](/\ TablesTypeOK /\ SnapshotCurrent /\ ProgressionFinal
                      /\ TableShowsSnapshot)
<1>1. TablesInv => /\ TablesTypeOK /\ SnapshotCurrent /\ ProgressionFinal
                   /\ TableShowsSnapshot
  BY DEF TablesInv, StagesOK, StageOK, SnapshotCurrent, ProgressionFinal, TableShowsSnapshot,
         StageDecided
<1>2. Spec => []TypeOK
  BY TablesImplementWorkflow, DutiesAlwaysSeparated, PTL
<1>3. TablesInv /\ TypeOK' /\ [Next]_allVars => TablesInv'
  BY TablesInvStep
<1>4. QED
  BY <1>1, <1>2, <1>3, TablesInvInit, PTL DEF Spec
-----------------------------------------------------------------------------
(* Nothing becomes official outside the approvals, and nothing stops being so *)
(* outside the withdrawals. *)
LEMMA QuietDecidesNothing ==
    ASSUME TypeOK, QuietMatchStep, NEW m \in Matches
    PROVE  ~Decided(m)
<1>1. PICK n \in Matches : LifecycleStep(n) \/ EntryStep(n) \/ TickInclusion(n)
                           \/ \E u \in Users : ReviewStep(u, n)
  BY DEF QuietMatchStep
<1>2. CASE LifecycleStep(n)
  BY <1>2 DEF LifecycleStep, ScheduleMatch, StartMatch, FinishMatch, CancelMatch, ResetMatch,
              MoveMatch, entryVars, Decided
<1>3. CASE EntryStep(n)
  BY <1>3 DEF EntryStep, EnterScore, ScoreWritable, EditConfirmation, EditPeriods, Decided
<1>4. CASE TickInclusion(n)
  BY <1>4 DEF TickInclusion, Decided
<1>5. CASE \E u \in Users : ReviewStep(u, n)
  BY <1>5 DEF ReviewStep, SubmitResult, SubmitVerified, VerifyResult, CanSubmit, MoveResult,
              TypeOK, entryVars, Decided
<1>6. QED
  BY <1>1, <1>2, <1>3, <1>4, <1>5

(* A decision is about one result, and recomputes every table it concerns. *)
LEMMA DecisionReachesTables ==
    ASSUME TypeOK, NEW n \in Matches, NEW u \in Users,
           ApproveInTables(u, n) \/ WithdrawInTables(u, n),
           NEW m \in Matches, Decided(m), NEW t \in Concerned(m), Unfrozen(t)
    PROVE  rows'[t] = Counted(t)'
<1>1. m = n
  BY ApprovalKeepsOthers, WithdrawalKeepsOthers DEF ApproveInTables, WithdrawInTables, Decided
<1>2. t \in ToRecompute(n) /\ t \in Tables
  BY <1>1 DEF ToRecompute, Concerned
<1>3. rows' = RowsRecomputed(ToRecompute(n))
  BY DEF ApproveInTables, WithdrawInTables
<1>4. QED
  BY <1>2, <1>3 DEF RowsRecomputed

LEMMA TablesFollowStep ==
    ASSUME TypeOK, [Next]_allVars, NEW m \in Matches, Decided(m),
           NEW t \in Concerned(m), Unfrozen(t)
    PROVE  rows'[t] = Counted(t)'
<1>1. CASE UNCHANGED allVars
  BY <1>1 DEF allVars, matchVars, Decided
<1>2. CASE QuietMatchStep
  BY <1>2, QuietDecidesNothing
<1>3. CASE \E n \in Matches, u \in Users : ApproveInTables(u, n) \/ WithdrawInTables(u, n)
  BY <1>3, DecisionReachesTables
<1>4. CASE TableStep \/ QueueStep
  BY <1>4 DEF TableStep, RecomputeTable, ForceRecompute, FreezePlainTable, RefreezeLinkedTable,
              FreezeStage, UnfreezeTable, QueueStep, CronRunInTables, RetryDueInTables,
              RunQueueInTables, matchVars, Decided
<1>5. QED
  BY <1>1, <1>2, <1>3, <1>4 DEF Next

(* Every decision about a result, approval or withdrawal, reaches every      *)
(* unfrozen table it concerns in its own transaction, for any division.      *)
THEOREM TablesAlwaysFollow == Spec => TablesFollowDecisions
<1>1. TypeOK /\ [Next]_allVars =>
          [\A m \in Matches : Decided(m) =>
             \A t \in Concerned(m) : Unfrozen(t) => rows'[t] = Counted(t)']_allVars
  BY TablesFollowStep
<1>2. Spec => []TypeOK
  BY TablesImplementWorkflow, DutiesAlwaysSeparated, PTL
<1>3. QED
  BY <1>1, <1>2, PTL DEF Spec, TablesFollowDecisions

-----------------------------------------------------------------------------
(* The stage graph. *)

Filled == prepared /\ arrived = graph.teams

(* An approved match is decided for one of its teams, no other match is. *)
OutcomesKnown ==
    \A f \in Fixtures : IF match[f] = "approved"
                        THEN outcome[f] \in TeamsOf(f) ELSE outcome[f] = NoTeam

(* Before all teams have arrived there are no matches. *)
NothingEarly ==
    /\ ~prepared => arrived = {}
    /\ ~Filled => \A f \in Fixtures : match[f] = "none"

GraphInv ==
    GraphTypeOK /\ SidesFollowResults /\ MatchShowsFixture /\ OutcomesKnown /\ NothingEarly

-----------------------------------------------------------------------------
(* A source is a seed, nobody, or the winner or loser of a fixture; a bye's *)
(* other side is a seed, and byes have no losers.                           *)
LEMMA SourceKinds ==
    ASSUME graph \in Graphs, NEW f \in Fixtures, NEW s \in Side
    PROVE  /\ graph.sides[f][s] = <<Kind(graph, f, s), Of(graph, f, s)>>
           /\ \/ Kind(graph, f, s) = "seed" /\ Of(graph, f, s) \in graph.teams
              \/ Kind(graph, f, s) = "nobody" /\ Kind(graph, f, Opposite(s)) = "seed"
              \/ Kind(graph, f, s) = "winner" /\ Of(graph, f, s) \in Fixtures
              \/ Kind(graph, f, s) = "loser" /\ Of(graph, f, s) \in Fixtures
                    /\ ~IsBye(Of(graph, f, s))
           /\ graph.teams # {} /\ NoTeam \notin graph.teams /\ Draw \notin graph.teams
  BY GraphsAssumption DEF WellFormed, Fixtures, IsBye

(* The team of a bye is a team of the stage. *)
LEMMA ByeTeamIsTeam ==
    ASSUME graph \in Graphs, NEW f \in Fixtures, IsBye(f)
    PROVE  ByeTeam(f) \in graph.teams
<1>1. "home" \in Side /\ "away" \in Side
  BY DEF Side
<1>2. CASE Kind(graph, f, "home") = "nobody"
  <2>1. Kind(graph, f, "away") = "seed"
    BY <1>1, <1>2, SourceKinds DEF Opposite
  <2> QED BY <1>1, <1>2, <2>1, SourceKinds DEF ByeTeam
<1>3. CASE Kind(graph, f, "home") # "nobody"
  <2>1. Kind(graph, f, "away") = "nobody"
    BY <1>3 DEF IsBye, Bye, Side
  <2>2. Kind(graph, f, "home") = "seed"
    BY <1>1, <2>1, SourceKinds DEF Opposite
  <2> QED BY <1>1, <1>3, <2>2, SourceKinds DEF ByeTeam
<1> QED BY <1>2, <1>3

(* What a source decides for, kind by kind. *)
LEMMA DecidedByKind ==
    ASSUME NEW f \in Fixtures, NEW s \in Side, graph \in Graphs
    PROVE  /\ Kind(graph, f, s) = "seed"
                 => DecidedTeam(graph.sides[f][s])
                       = IF Filled THEN Of(graph, f, s) ELSE NoTeam
           /\ Kind(graph, f, s) = "nobody" => DecidedTeam(graph.sides[f][s]) = NoTeam
           /\ Kind(graph, f, s) = "winner" /\ IsBye(Of(graph, f, s))
                 => DecidedTeam(graph.sides[f][s])
                       = IF Filled THEN ByeTeam(Of(graph, f, s)) ELSE NoTeam
           /\ Kind(graph, f, s) = "winner" /\ ~IsBye(Of(graph, f, s))
                 => DecidedTeam(graph.sides[f][s]) = outcome[Of(graph, f, s)]
           /\ Kind(graph, f, s) = "loser"
                 => DecidedTeam(graph.sides[f][s])
                       = IF match[Of(graph, f, s)] = "approved"
                         THEN Beaten(Of(graph, f, s), outcome[Of(graph, f, s)]) ELSE NoTeam
  BY DEF DecidedTeam, Kind, Of, Filled

(* A fixture with a match is no bye, and its teams are those of the stage. *)
LEMMA MatchesHaveTeams ==
    ASSUME GraphInv, NEW f \in Fixtures, match[f] # "none"
    PROVE  /\ ~IsBye(f) /\ Filled
           /\ pairing[f] = team[f]
           /\ \A s \in Side : team[f][s] \in graph.teams
           /\ TeamsOf(f) \subseteq graph.teams
           /\ \A o \in TeamsOf(f) : Beaten(f, o) \in graph.teams
<1>1. pairing[f] = team[f] /\ \A s \in Side : team[f][s] # NoTeam
  BY DEF GraphInv, MatchShowsFixture
<1>2. \A s \in Side : team[f][s] \in graph.teams
  BY <1>1 DEF GraphInv, GraphTypeOK
<1>3. ~IsBye(f)
  <2> SUFFICES ASSUME NEW s \in Side, Kind(graph, f, s) = "nobody" PROVE FALSE
    BY DEF IsBye, Bye
  <2>1. team[f][s] = DecidedTeam(graph.sides[f][s])
    BY DEF GraphInv, SidesFollowResults
  <2>2. DecidedTeam(graph.sides[f][s]) = NoTeam
    BY DecidedByKind DEF GraphInv, GraphTypeOK
  <2> QED BY <1>1, <2>1, <2>2
<1>4. TeamsOf(f) \subseteq graph.teams /\ \A o \in TeamsOf(f) : Beaten(f, o) \in graph.teams
  BY <1>1, <1>2 DEF TeamsOf, Beaten, Side
<1> QED BY <1>1, <1>2, <1>3, <1>4 DEF GraphInv, NothingEarly

-----------------------------------------------------------------------------
(* Nothing is known, decided or played in the beginning. *)
LEMMA InitGraph == GraphInit => GraphInv
<1> SUFFICES ASSUME GraphInit PROVE GraphInv
  OBVIOUS
<1> USE DEF GraphInit
<1>1. GraphTypeOK
  BY DEF GraphTypeOK, Nobody, Phases
<1>2. SidesFollowResults
  <2> SUFFICES ASSUME NEW f \in Fixtures, NEW s \in Side
               PROVE  DecidedTeam(graph.sides[f][s]) = NoTeam
    BY DEF SidesFollowResults, Nobody
  <2>1. ~Filled
    BY DEF Filled
  <2> QED BY <2>1, SourceKinds, DecidedByKind
<1>3. MatchShowsFixture
  BY DEF MatchShowsFixture, Nobody, Side
<1>4. OutcomesKnown /\ NothingEarly
  BY DEF OutcomesKnown, NothingEarly
<1> QED BY <1>1, <1>2, <1>3, <1>4 DEF GraphInv

-----------------------------------------------------------------------------
(* The graph of a stage never changes. *)
LEMMA GraphFixed ==
    ASSUME GraphTypeOK, graph' = graph
    PROVE  /\ graph' \in Graphs /\ Fixtures' = Fixtures
           /\ \A f \in Fixtures : IsBye(f)' = IsBye(f) /\ ByeTeam(f)' = ByeTeam(f)
           /\ \A f \in Fixtures, s \in Side :
                 Kind(graph, f, s)' = Kind(graph, f, s) /\ Of(graph, f, s)' = Of(graph, f, s)
  BY DEF GraphTypeOK, Fixtures, IsBye, ByeTeam

(* DecidedByKind after a step. *)
LEMMA DecidedByKindNext ==
    ASSUME GraphTypeOK, graph' = graph, NEW f \in Fixtures, NEW s \in Side
    PROVE  /\ Kind(graph, f, s) = "seed"
                 => DecidedTeam(graph.sides[f][s])'
                       = IF Filled' THEN Of(graph, f, s) ELSE NoTeam
           /\ Kind(graph, f, s) = "nobody" => DecidedTeam(graph.sides[f][s])' = NoTeam
           /\ Kind(graph, f, s) = "winner" /\ IsBye(Of(graph, f, s))
                 => DecidedTeam(graph.sides[f][s])'
                       = IF Filled' THEN ByeTeam(Of(graph, f, s)) ELSE NoTeam
           /\ Kind(graph, f, s) = "winner" /\ ~IsBye(Of(graph, f, s))
                 => DecidedTeam(graph.sides[f][s])' = outcome'[Of(graph, f, s)]
           /\ Kind(graph, f, s) = "loser"
                 => DecidedTeam(graph.sides[f][s])'
                       = IF match'[Of(graph, f, s)] = "approved"
                         THEN Beaten(Of(graph, f, s), outcome[Of(graph, f, s)])' ELSE NoTeam
  BY DEF DecidedTeam, Kind, Of, Filled, IsBye, ByeTeam, Bye

(* Entering the teams: seeds and byes are known, nothing else is. *)
LEMMA EnterTeamsKeepsInv ==
    ASSUME GraphInv, ~Filled, EnterTeams, graph' = graph, prepared' = TRUE,
           applied' \in BOOLEAN
    PROVE  GraphInv'
<1> USE DEF GraphInv, EnterTeams
<1>0. GraphTypeOK /\ Fixtures' = Fixtures /\ graph \in Graphs
  BY GraphFixed DEF GraphTypeOK
<1>1. \A f \in Fixtures : match[f] = "none" /\ pairing[f] = NoPair /\ outcome[f] = NoTeam
  <2>1. \A f \in Fixtures : match[f] = "none" /\ outcome[f] = NoTeam
    BY DEF NothingEarly, OutcomesKnown
  <2> QED BY <2>1 DEF MatchShowsFixture
<1>2. \A f \in Fixtures, s \in Side : EnteringTeam(f, s) \in graph.teams \cup {NoTeam}
  BY <1>0, SourceKinds, ByeTeamIsTeam DEF EnteringTeam
<1>3. \A f \in Fixtures, s \in Side : team'[f][s] = EnteringTeam(f, s)
  OBVIOUS
<1>4. \A f \in Fixtures :
         IF Playable(f) THEN match'[f] = "unplayed" /\ pairing'[f] = team'[f]
                        ELSE match'[f] = "none" /\ pairing'[f] = NoPair
  BY <1>1 DEF Materialize
<1>5. GraphTypeOK'
  <2>1. team' \in [Fixtures -> [Side -> graph.teams \cup {NoTeam}]]
    BY <1>2
  <2>2. match' \in [Fixtures -> Phases]
    BY <1>0 DEF Materialize, GraphTypeOK, Phases
  <2>3. pairing' \in [Fixtures -> [Side -> graph.teams] \cup {NoPair}]
    <3> SUFFICES ASSUME NEW f \in Fixtures, Playable(f) PROVE team'[f] \in [Side -> graph.teams]
      BY <1>0, <1>4 DEF Materialize, GraphTypeOK
    <3>1. team'[f] = [s \in Side |-> EnteringTeam(f, s)]
      OBVIOUS
    <3> QED BY <1>2, <3>1 DEF Playable
  <2> QED BY <1>0, <2>1, <2>2, <2>3 DEF GraphTypeOK
<1>6. SidesFollowResults'
  <2> SUFFICES ASSUME NEW f \in Fixtures, NEW s \in Side
               PROVE  EnteringTeam(f, s) = DecidedTeam(graph.sides[f][s])'
    BY <1>0, <1>3 DEF SidesFollowResults
  <2>1. Filled'
    BY DEF Filled
  <2>2. \A g \in Fixtures : outcome'[g] = NoTeam /\ match'[g] # "approved"
    BY <1>1, <1>4
  <2> QED BY <1>0, <2>1, <2>2, SourceKinds, DecidedByKindNext DEF EnteringTeam
<1>7. MatchShowsFixture'
  BY <1>0, <1>4 DEF MatchShowsFixture, Playable
<1>8. OutcomesKnown' /\ NothingEarly'
  BY <1>0, <1>1, <1>4 DEF OutcomesKnown, NothingEarly, Filled
<1> QED BY <1>5, <1>6, <1>7, <1>8

-----------------------------------------------------------------------------
(* A fixture that depends on an undecided one has no match. *)
LEMMA DependantsWait ==
    ASSUME GraphInv, NEW f \in Fixtures, match[f] # "approved", ~IsBye(f),
           NEW g \in Fixtures, NEW s \in Side,
           graph.sides[g][s] \in {<<"winner", f>>, <<"loser", f>>}
    PROVE  team[g][s] = NoTeam /\ match[g] = "none" /\ pairing[g] = NoPair
<1>1. Kind(graph, g, s) \in {"winner", "loser"} /\ Of(graph, g, s) = f
  BY DEF Kind, Of
<1>2. outcome[f] = NoTeam
  BY DEF GraphInv, OutcomesKnown
<1>3. team[g][s] = NoTeam
  BY <1>1, <1>2, DecidedByKind DEF GraphInv, SidesFollowResults, GraphTypeOK
<1> QED BY <1>3 DEF GraphInv, MatchShowsFixture

(* An approval decides the dependants of a fixture and touches no other. *)
LEMMA ApproveTouches ==
    ASSUME GraphInv, NEW f \in Fixtures, NEW o \in graph.teams, ApproveFixture(f, o)
    PROVE  /\ ~IsBye(f) /\ Filled /\ o \in TeamsOf(f) /\ Beaten(f, o) \in graph.teams
           /\ match'[f] = "approved" /\ pairing'[f] = pairing[f]
           /\ \A g \in Dependants(f) : match[g] = "none" /\ pairing[g] = NoPair
           /\ \A g \in Fixtures :
                 /\ g \in Dependants(f) /\ Playable(g)
                      => match'[g] = "unplayed" /\ pairing'[g] = team'[g]
                 /\ g # f /\ ~(g \in Dependants(f) /\ Playable(g))
                      => match'[g] = match[g] /\ pairing'[g] = pairing[g]
                 /\ g \notin Dependants(f) => team'[g] = team[g]
<1>1. match[f] = "played" /\ o \in TeamsOf(f)
  BY GraphsAssumption DEF ApproveFixture, GraphInv, GraphTypeOK
<1>2. ~IsBye(f) /\ Filled /\ Beaten(f, o) \in graph.teams
  BY <1>1, MatchesHaveTeams
<1>3. \A g \in Dependants(f) : match[g] = "none" /\ pairing[g] = NoPair
  BY <1>1, <1>2, DependantsWait DEF Dependants
<1>4. f \notin Dependants(f)
  BY <1>1, <1>3
<1>5. \A g \in Fixtures : g \notin Dependants(f) => team'[g] = team[g]
  <2> SUFFICES ASSUME NEW g \in Fixtures, g \notin Dependants(f) PROVE team'[g] = team[g]
    OBVIOUS
  <2>1. \A s \in Side : ResolvedTeam(f, o, g, s) = team[g][s]
    BY DEF Dependants, ResolvedTeam
  <2>2. team[g] = [s \in Side |-> team[g][s]]
    BY DEF GraphInv, GraphTypeOK
  <2> QED BY <2>1, <2>2 DEF ApproveFixture
<1>6. \A g \in Fixtures :
         /\ g \in Dependants(f) /\ Playable(g)
              => match'[g] = "unplayed" /\ pairing'[g] = team'[g]
         /\ g # f /\ ~(g \in Dependants(f) /\ Playable(g))
              => match'[g] = match[g] /\ pairing'[g] = pairing[g]
  BY <1>3 DEF ApproveFixture, Materialize, GraphInv, GraphTypeOK
<1>7. match'[f] = "approved" /\ pairing'[f] = pairing[f]
  BY <1>4 DEF ApproveFixture, Materialize, GraphInv, GraphTypeOK
<1> QED BY <1>1, <1>2, <1>3, <1>5, <1>6, <1>7

(* An approval sends the two teams on, and only them. *)
LEMMA ApproveKeepsInv ==
    ASSUME GraphInv, NEW f \in Fixtures, NEW o \in graph.teams, ApproveFixture(f, o)
    PROVE  GraphInv'
<1>0. /\ GraphTypeOK /\ Fixtures' = Fixtures /\ graph \in Graphs /\ graph' = graph
      /\ Filled' = Filled /\ Filled /\ ~IsBye(f)
  BY GraphFixed, ApproveTouches DEF GraphInv, GraphTypeOK, ApproveFixture, Filled
<1>1. \A g \in Fixtures, s \in Side : team'[g][s] = ResolvedTeam(f, o, g, s)
  BY DEF ApproveFixture
<1>2. \A g \in Fixtures, s \in Side :
         ResolvedTeam(f, o, g, s) \in graph.teams \cup {NoTeam}
  BY <1>0, ApproveTouches DEF ResolvedTeam, GraphTypeOK
<1>3. GraphTypeOK'
  <2>1. team' \in [Fixtures -> [Side -> graph.teams \cup {NoTeam}]]
    BY <1>2 DEF ApproveFixture
  <2>2. match' \in [Fixtures -> Phases]
    BY <1>0 DEF ApproveFixture, Materialize, GraphTypeOK, Phases
  <2>3. pairing' \in [Fixtures -> [Side -> graph.teams] \cup {NoPair}]
    <3> SUFFICES ASSUME NEW g \in Fixtures, Playable(g)
                 PROVE  team'[g] \in [Side -> graph.teams]
      BY <1>0 DEF ApproveFixture, Materialize, GraphTypeOK
    <3> QED BY <2>1 DEF Playable
  <2>4. outcome' \in [Fixtures -> graph.teams \cup {NoTeam}]
    BY <1>0 DEF ApproveFixture, GraphTypeOK
  <2> QED BY <1>0, <2>1, <2>2, <2>3, <2>4 DEF GraphTypeOK, ApproveFixture
<1>4. SidesFollowResults'
  <2> SUFFICES ASSUME NEW g \in Fixtures, NEW s \in Side
               PROVE  ResolvedTeam(f, o, g, s) = DecidedTeam(graph.sides[g][s])'
    BY <1>0, <1>1 DEF SidesFollowResults
  <2>1. graph.sides[g][s] = <<Kind(graph, g, s), Of(graph, g, s)>>
    BY <1>0, SourceKinds
  <2>2. CASE graph.sides[g][s] = <<"winner", f>>
    <3>1. Kind(graph, g, s) = "winner" /\ Of(graph, g, s) = f
      BY <2>2 DEF Kind, Of
    <3>2. outcome'[f] = o
      BY <1>0 DEF ApproveFixture, GraphTypeOK
    <3> QED BY <1>0, <2>2, <3>1, <3>2, DecidedByKindNext DEF ResolvedTeam
  <2>3. CASE graph.sides[g][s] = <<"loser", f>>
    <3>1. Kind(graph, g, s) = "loser" /\ Of(graph, g, s) = f
      BY <2>3 DEF Kind, Of
    <3>2. outcome'[f] = o /\ match'[f] = "approved" /\ pairing'[f] = pairing[f]
      BY <1>0, ApproveTouches DEF ApproveFixture, GraphTypeOK
    <3>3. Beaten(f, outcome[f])' = Beaten(f, o)
      BY <3>2 DEF Beaten
    <3> QED BY <1>0, <2>3, <3>1, <3>2, <3>3, DecidedByKindNext DEF ResolvedTeam
  <2>4. CASE graph.sides[g][s] \notin {<<"winner", f>>, <<"loser", f>>}
    <3>1. ResolvedTeam(f, o, g, s) = DecidedTeam(graph.sides[g][s])
      BY <2>4 DEF ResolvedTeam, GraphInv, SidesFollowResults
    <3>2. \A h \in Fixtures \ {f} :
             /\ outcome'[h] = outcome[h]
             /\ match'[h] = "approved" <=> match[h] = "approved"
             /\ match[h] = "approved" => pairing'[h] = pairing[h]
      BY <1>0, ApproveTouches DEF ApproveFixture, GraphTypeOK
    <3>3. \A h \in Fixtures \ {f} :
             match[h] = "approved" => Beaten(h, outcome[h])' = Beaten(h, outcome[h])
      BY <3>2 DEF Beaten
    <3>4. Kind(graph, g, s) \in {"winner", "loser"} => Of(graph, g, s) \in Fixtures \ {f}
      BY <1>0, <2>1, <2>4, SourceKinds
    <3> QED BY <1>0, <3>1, <3>2, <3>3, <3>4, SourceKinds, DecidedByKind, DecidedByKindNext
  <2> QED BY <2>2, <2>3, <2>4
<1>5. MatchShowsFixture'
  <2> SUFFICES ASSUME NEW g \in Fixtures
               PROVE  IF Playable(g) THEN match'[g] # "none" /\ pairing'[g] = team'[g]
                                     ELSE match'[g] = "none" /\ pairing'[g] = NoPair
    BY <1>0 DEF MatchShowsFixture, Playable
  <2>1. CASE g \in Dependants(f)
    <3>1. match[g] = "none" /\ pairing[g] = NoPair /\ g # f
      BY <2>1, ApproveTouches DEF ApproveFixture
    <3> QED BY <2>1, <3>1, ApproveTouches
  <2>2. CASE g \notin Dependants(f)
    <3>1. /\ team'[g] = team[g] /\ pairing'[g] = pairing[g]
          /\ match'[g] = "none" <=> match[g] = "none"
      BY <2>2, ApproveTouches DEF ApproveFixture
    <3> QED BY <3>1 DEF GraphInv, MatchShowsFixture, Playable
  <2> QED BY <2>1, <2>2
<1>6. OutcomesKnown'
  <2> SUFFICES ASSUME NEW g \in Fixtures
               PROVE  IF match'[g] = "approved"
                      THEN outcome'[g] \in TeamsOf(g)' ELSE outcome'[g] = NoTeam
    BY <1>0 DEF OutcomesKnown
  <2>1. CASE g = f
    BY <1>0, <2>1, ApproveTouches DEF TeamsOf, ApproveFixture, GraphTypeOK
  <2>2. CASE g # f
    <3>1. /\ outcome'[g] = outcome[g]
          /\ match'[g] = "approved" <=> match[g] = "approved"
          /\ match[g] = "approved" => pairing'[g] = pairing[g]
      BY <1>0, <2>2, ApproveTouches DEF ApproveFixture, GraphTypeOK
    <3> QED BY <3>1 DEF GraphInv, OutcomesKnown, TeamsOf
  <2> QED BY <2>1, <2>2
<1>7. NothingEarly'
  BY <1>0 DEF NothingEarly, Filled
<1> QED BY <1>3, <1>4, <1>5, <1>6, <1>7 DEF GraphInv

-----------------------------------------------------------------------------
(* A withdrawal clears exactly the dependants of a fixture. *)
LEMMA WithdrawTouches ==
    ASSUME GraphInv, NEW f \in Fixtures, WithdrawResult(f)
    PROVE  /\ ~IsBye(f) /\ Filled /\ f \notin Dependants(f)
           /\ \A g \in Fixtures : ShowsTeamOf(f, g) <=> g \in Dependants(f)
           /\ \A g \in Dependants(f) :
                 Unplayed(g) /\ match'[g] = "none" /\ pairing'[g] = NoPair
           /\ \A g \in Fixtures \ Dependants(f) :
                 /\ team'[g] = team[g] /\ pairing'[g] = pairing[g]
                 /\ match'[g] = IF g = f THEN "played" ELSE match[g]
<1>1. match[f] = "approved" /\ \A g \in Fixtures : ShowsTeamOf(f, g) => Unplayed(g)
  BY DEF WithdrawResult
<1>2. /\ ~IsBye(f) /\ Filled /\ outcome[f] \in graph.teams
      /\ Beaten(f, outcome[f]) \in graph.teams
  BY <1>1, MatchesHaveTeams DEF GraphInv, OutcomesKnown
<1>3. \A g \in Fixtures : ShowsTeamOf(f, g) <=> g \in Dependants(f)
  <2> SUFFICES ASSUME NEW g \in Fixtures, NEW s \in Side,
                      graph.sides[g][s] \in {<<"winner", f>>, <<"loser", f>>}
               PROVE  team[g][s] # NoTeam
    BY DEF ShowsTeamOf, Dependants
  <2>1. Kind(graph, g, s) \in {"winner", "loser"} /\ Of(graph, g, s) = f
    BY DEF Kind, Of
  <2>2. team[g][s] \in graph.teams
    BY <1>1, <1>2, <2>1, DecidedByKind DEF GraphInv, SidesFollowResults, GraphTypeOK
  <2> QED BY <2>2, SourceKinds DEF GraphInv, GraphTypeOK
<1>4. f \notin Dependants(f)
  BY <1>1, <1>3 DEF Unplayed
<1>5. \A g \in Dependants(f) : g \in Fixtures
  BY DEF Dependants
<1>6. \A g \in Dependants(f) : Unplayed(g) /\ match'[g] = "none" /\ pairing'[g] = NoPair
  BY <1>1, <1>3, <1>5 DEF WithdrawResult
<1>7. \A g \in Fixtures \ Dependants(f) :
         pairing'[g] = pairing[g] /\ match'[g] = IF g = f THEN "played" ELSE match[g]
  BY <1>3 DEF WithdrawResult
<1>8. \A g \in Fixtures \ Dependants(f) : team'[g] = team[g]
  <2> SUFFICES ASSUME NEW g \in Fixtures, g \notin Dependants(f) PROVE team'[g] = team[g]
    OBVIOUS
  <2>1. \A s \in Side : ReopenedTeam(f, g, s) = team[g][s]
    BY DEF Dependants, ReopenedTeam
  <2>2. team[g] = [s \in Side |-> team[g][s]]
    BY DEF GraphInv, GraphTypeOK
  <2> QED BY <2>1, <2>2 DEF WithdrawResult
<1> QED BY <1>2, <1>3, <1>4, <1>6, <1>7, <1>8

(* After a withdrawal nothing that the result decided is left. *)
LEMMA WithdrawKeepsInv ==
    ASSUME GraphInv, NEW f \in Fixtures, WithdrawResult(f)
    PROVE  GraphInv'
<1>0. /\ GraphTypeOK /\ Fixtures' = Fixtures /\ graph \in Graphs /\ graph' = graph
      /\ Filled' = Filled /\ Filled /\ ~IsBye(f)
  BY GraphFixed, WithdrawTouches DEF GraphInv, GraphTypeOK, WithdrawResult, Filled
<1>1. \A g \in Fixtures, s \in Side : team'[g][s] = ReopenedTeam(f, g, s)
  BY DEF WithdrawResult
<1>2. \A h \in Fixtures \ {f} :
         /\ outcome'[h] = outcome[h]
         /\ match'[h] = "approved" <=> match[h] = "approved"
         /\ match[h] = "approved" => pairing'[h] = pairing[h]
  BY <1>0, WithdrawTouches DEF WithdrawResult, GraphTypeOK, Unplayed
<1>3. outcome'[f] = NoTeam /\ match'[f] # "approved"
  BY <1>0, WithdrawTouches DEF WithdrawResult, GraphTypeOK
<1>4. GraphTypeOK'
  <2>1. team' \in [Fixtures -> [Side -> graph.teams \cup {NoTeam}]]
    BY <1>0 DEF WithdrawResult, ReopenedTeam, GraphTypeOK
  <2>2. match' \in [Fixtures -> Phases] /\ outcome' \in [Fixtures -> graph.teams \cup {NoTeam}]
    BY <1>0 DEF WithdrawResult, GraphTypeOK, Phases
  <2>3. pairing' \in [Fixtures -> [Side -> graph.teams] \cup {NoPair}]
    BY <1>0 DEF WithdrawResult, GraphTypeOK
  <2> QED BY <1>0, <2>1, <2>2, <2>3 DEF GraphTypeOK, WithdrawResult
<1>5. SidesFollowResults'
  <2> SUFFICES ASSUME NEW g \in Fixtures, NEW s \in Side
               PROVE  ReopenedTeam(f, g, s) = DecidedTeam(graph.sides[g][s])'
    BY <1>0, <1>1 DEF SidesFollowResults
  <2>1. graph.sides[g][s] = <<Kind(graph, g, s), Of(graph, g, s)>>
    BY <1>0, SourceKinds
  <2>2. CASE graph.sides[g][s] \in {<<"winner", f>>, <<"loser", f>>}
    <3>1. Kind(graph, g, s) \in {"winner", "loser"} /\ Of(graph, g, s) = f
      BY <2>2 DEF Kind, Of
    <3> QED BY <1>0, <1>3, <2>2, <3>1, DecidedByKindNext DEF ReopenedTeam
  <2>3. CASE graph.sides[g][s] \notin {<<"winner", f>>, <<"loser", f>>}
    <3>1. ReopenedTeam(f, g, s) = DecidedTeam(graph.sides[g][s])
      BY <2>3 DEF ReopenedTeam, GraphInv, SidesFollowResults
    <3>2. \A h \in Fixtures \ {f} :
             match[h] = "approved" => Beaten(h, outcome[h])' = Beaten(h, outcome[h])
      BY <1>2 DEF Beaten
    <3>3. Kind(graph, g, s) \in {"winner", "loser"} => Of(graph, g, s) \in Fixtures \ {f}
      BY <1>0, <2>1, <2>3, SourceKinds
    <3> QED BY <1>0, <1>2, <3>1, <3>2, <3>3, SourceKinds, DecidedByKind, DecidedByKindNext
  <2> QED BY <2>2, <2>3
<1>6. MatchShowsFixture'
  <2> SUFFICES ASSUME NEW g \in Fixtures
               PROVE  IF Playable(g) THEN match'[g] # "none" /\ pairing'[g] = team'[g]
                                     ELSE match'[g] = "none" /\ pairing'[g] = NoPair
    BY <1>0 DEF MatchShowsFixture, Playable
  <2>1. CASE g \in Dependants(f)
    <3>1. PICK s \in Side : graph.sides[g][s] \in {<<"winner", f>>, <<"loser", f>>}
      BY <2>1 DEF Dependants
    <3>2. team'[g][s] = NoTeam
      BY <1>1, <3>1 DEF ReopenedTeam
    <3> QED BY <2>1, <3>2, WithdrawTouches DEF Playable
  <2>2. CASE g \notin Dependants(f)
    <3>1. /\ team'[g] = team[g] /\ pairing'[g] = pairing[g]
          /\ match'[g] = "none" <=> match[g] = "none"
      BY <2>2, WithdrawTouches DEF WithdrawResult
    <3> QED BY <3>1 DEF GraphInv, MatchShowsFixture, Playable
  <2> QED BY <2>1, <2>2
<1>7. OutcomesKnown'
  BY <1>0, <1>2, <1>3 DEF OutcomesKnown, GraphInv, TeamsOf
<1>8. NothingEarly'
  BY <1>0 DEF NothingEarly, Filled
<1> QED BY <1>4, <1>5, <1>6, <1>7, <1>8 DEF GraphInv

-----------------------------------------------------------------------------
(* Playing, replanning, preparing placeholders and freezing move no team:   *)
(* what is approved stays approved, what has a match keeps one.             *)
LEMMA QuietStepsKeepInv ==
    ASSUME GraphInv, UNCHANGED <<graph, team, pairing, outcome>>,
           Filled' <=> Filled, GraphTypeOK', ~prepared' => arrived' = {},
           \A f \in Fixtures : /\ match'[f] = "approved" <=> match[f] = "approved"
                               /\ match'[f] = "none" <=> match[f] = "none"
    PROVE  GraphInv'
<1>0. GraphTypeOK /\ Fixtures' = Fixtures /\ graph \in Graphs
  BY GraphFixed DEF GraphInv, GraphTypeOK
<1>1. SidesFollowResults'
  <2> SUFFICES ASSUME NEW f \in Fixtures, NEW s \in Side
               PROVE  DecidedTeam(graph.sides[f][s])' = DecidedTeam(graph.sides[f][s])
    BY <1>0 DEF GraphInv, SidesFollowResults
  <2>1. \A h \in Fixtures : Beaten(h, outcome[h])' = Beaten(h, outcome[h])
    BY DEF Beaten
  <2> QED BY <1>0, <2>1, SourceKinds, DecidedByKind, DecidedByKindNext
<1>2. MatchShowsFixture' /\ OutcomesKnown' /\ NothingEarly'
  BY <1>0 DEF GraphInv, MatchShowsFixture, OutcomesKnown, NothingEarly, TeamsOf
<1> QED BY <1>1, <1>2 DEF GraphInv

(* Every step keeps the invariant. *)
LEMMA NextGraph == GraphInv /\ [GraphNext]_graphVars => GraphInv'
<1> SUFFICES ASSUME GraphInv, [GraphNext]_graphVars PROVE GraphInv'
  OBVIOUS
<1>0. GraphTypeOK /\ (~prepared => arrived = {}) /\ graph \in Graphs /\ graph.teams # {}
  BY GraphsAssumption DEF GraphInv, NothingEarly, GraphTypeOK, WellFormed
<1>1. CASE PrepareStage
  BY <1>0, <1>1, EnterTeamsKeepsInv DEF PrepareStage, Filled, GraphTypeOK
<1>2. CASE PreparePlaceholderStage
  <2>1. ~Filled /\ ~Filled' /\ GraphTypeOK'
    BY <1>0, <1>2 DEF PreparePlaceholderStage, Filled, GraphTypeOK, Fixtures
  <2> QED BY <1>2, <2>1, QuietStepsKeepInv DEF PreparePlaceholderStage
<1>3. ASSUME NEW T \in SUBSET (graph.teams \ arrived), ApplyProgression(T) PROVE GraphInv'
  <2>1. ~Filled
    BY <1>3 DEF ApplyProgression, Filled
  <2>2. CASE arrived \cup T = graph.teams
    BY <1>0, <1>3, <2>1, <2>2, EnterTeamsKeepsInv DEF ApplyProgression, GraphTypeOK
  <2>3. CASE arrived \cup T # graph.teams
    <3>1. ~Filled' /\ GraphTypeOK' /\ prepared'
      BY <1>0, <1>3, <2>3 DEF ApplyProgression, Filled, GraphTypeOK, Fixtures
    <3>2. match' = match /\ UNCHANGED <<graph, team, pairing, outcome>>
      BY <1>3, <2>3 DEF ApplyProgression
    <3> QED BY <2>1, <3>1, <3>2, QuietStepsKeepInv
  <2> QED BY <2>2, <2>3
<1>4. ASSUME NEW f \in Fixtures, PlayMatch(f) \/ ReplanMatch(f) PROVE GraphInv'
  <2>1. /\ UNCHANGED <<graph, prepared, arrived, team, pairing, outcome, applied>>
        /\ \A g \in Fixtures : /\ match'[g] = "approved" <=> match[g] = "approved"
                               /\ match'[g] = "none" <=> match[g] = "none"
    BY <1>0, <1>4 DEF PlayMatch, ReplanMatch, GraphTypeOK
  <2>2. GraphTypeOK' /\ Filled' = Filled
    BY <1>0, <1>4, <2>1 DEF PlayMatch, ReplanMatch, GraphTypeOK, Phases, Fixtures, Filled
  <2> QED BY <1>0, <2>1, <2>2, QuietStepsKeepInv
<1>5. ASSUME NEW f \in Fixtures, WithdrawResult(f) PROVE GraphInv'
  BY <1>5, WithdrawKeepsInv
<1>6. ASSUME NEW f \in Fixtures, NEW o \in graph.teams \cup {Draw}, ApproveFixture(f, o)
      PROVE  GraphInv'
  <2>1. o \in graph.teams
    BY <1>6 DEF ApproveFixture, DecidesWinner
  <2> QED BY <1>6, <2>1, ApproveKeepsInv
<1>7. CASE FreezeStandings
  <2>1. Filled' = Filled /\ GraphTypeOK'
    BY <1>0, <1>7 DEF FreezeStandings, Filled, GraphTypeOK, Fixtures
  <2> QED BY <1>0, <1>7, <2>1, QuietStepsKeepInv DEF FreezeStandings
<1>8. CASE UNCHANGED graphVars
  <2>1. Filled' = Filled /\ GraphTypeOK'
    BY <1>0, <1>8 DEF graphVars, Filled, GraphTypeOK, Fixtures
  <2> QED BY <1>0, <1>8, <2>1, QuietStepsKeepInv DEF graphVars
<1> QED BY <1>1, <1>2, <1>3, <1>4, <1>5, <1>6, <1>7, <1>8 DEF GraphNext

(* GraphInv holds in every state that GraphSpec reaches. *)
LEMMA GraphInvariant == GraphSpec => []GraphInv
  BY InitGraph, NextGraph, PTL DEF GraphSpec

(* For every well-formed graph, and in every order of results and           *)
(* withdrawals, each side shows the team that its source decides for, and   *)
(* each fixture with two known teams, and no other, has a match between     *)
(* them (resolve_dependants, reopen_dependants, the materializer).          *)
THEOREM SidesAlwaysFollowResults == GraphSpec => [](GraphTypeOK /\ FixturesFollowResults)
<1>1. GraphInv => GraphTypeOK /\ FixturesFollowResults
  BY DEF GraphInv, FixturesFollowResults
<1> QED BY <1>1, GraphInvariant, PTL

(* No step moves the teams of a match that was played. *)
LEMMA PlayedTeamsStep ==
    GraphInv /\ [GraphNext]_graphVars =>
       \A f \in Fixtures : match[f] \in {"played", "approved"}
                              => team'[f] = team[f] /\ pairing'[f] = pairing[f]
<1> SUFFICES ASSUME GraphInv, [GraphNext]_graphVars, NEW f \in Fixtures,
                    match[f] \in {"played", "approved"}
             PROVE  team'[f] = team[f] /\ pairing'[f] = pairing[f]
  OBVIOUS
<1>1. Filled
  BY DEF GraphInv, NothingEarly
<1>2. ASSUME NEW g \in Fixtures, NEW o \in graph.teams \cup {Draw}, ApproveFixture(g, o)
      PROVE  team'[f] = team[f] /\ pairing'[f] = pairing[f]
  <2>1. o \in graph.teams
    BY <1>2 DEF ApproveFixture, DecidesWinner
  <2>2. f \notin Dependants(g)
    BY <1>2, <2>1, ApproveTouches
  <2> QED BY <1>2, <2>1, <2>2, ApproveTouches
<1>3. ASSUME NEW g \in Fixtures, WithdrawResult(g)
      PROVE  team'[f] = team[f] /\ pairing'[f] = pairing[f]
  <2>1. f \notin Dependants(g)
    BY <1>3, WithdrawTouches DEF Unplayed
  <2> QED BY <1>3, <2>1, WithdrawTouches
<1>4. CASE PrepareStage \/ PreparePlaceholderStage
  BY <1>1, <1>4 DEF PrepareStage, PreparePlaceholderStage, Filled
<1>5. ASSUME NEW T \in SUBSET (graph.teams \ arrived), ApplyProgression(T) PROVE FALSE
  BY <1>1, <1>5 DEF ApplyProgression, Filled
<1>6. CASE \E g \in Fixtures : PlayMatch(g) \/ ReplanMatch(g)
  BY <1>6 DEF PlayMatch, ReplanMatch
<1>7. CASE FreezeStandings \/ UNCHANGED graphVars
  BY <1>7 DEF FreezeStandings, graphVars
<1> QED BY <1>2, <1>3, <1>4, <1>5, <1>6, <1>7 DEF GraphNext

(* A correction of an earlier result never takes the teams of a match that  *)
(* has been played: it is refused instead (_assert_match_unplayed).         *)
THEOREM PlayedTeamsAlwaysKept == GraphSpec => PlayedMatchKeepsTeams
<1> DEFINE Kept == \A f \in Fixtures :
                      match[f] \in {"played", "approved"}
                         => team'[f] = team[f] /\ pairing'[f] = pairing[f]
<1>1. GraphInv /\ [GraphNext]_graphVars => [Kept]_graphVars
  BY PlayedTeamsStep
<1> QED BY <1>1, GraphInvariant, PTL DEF GraphSpec, PlayedMatchKeepsTeams
=============================================================================
