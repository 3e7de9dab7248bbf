--------------------------- MODULE ResultWorkflow ---------------------------
(***************************************************************************)
(* The life of a match result in sports_federation_result_control: a score *)
(* is entered, submitted, verified and approved by people whose duties are *)
(* kept apart, and an official result is withdrawn by a contest, a         *)
(* correction or a reset.                                                  *)
(*                                                                         *)
(* Every action is one request, which Odoo runs as one transaction; the    *)
(* row lock of _lock_result_transition and PostgreSQL's REPEATABLE READ    *)
(* isolation make two requests on one match take effect one after the      *)
(* other.  A request whose guard fails raises and is rolled back, so it is *)
(* no step at all.  Match operations have the guards of the buttons that   *)
(* offer them; result operations have the guards of the code.              *)
(***************************************************************************)
EXTENDS Naturals, FiniteSets

CONSTANTS
    Matches,         \* federation.match records
    Users,           \* res.users that act on results
    NoUser,          \* an empty many2one to res.users
    Validators,      \* members of group_result_validator
    Approvers,       \* members of group_result_approver (implies validator)
    ClubReps,        \* portal users whose club scope covers the matches
    Scores,          \* aggregate scores that occur
    ZeroZero,        \* the 0-0 score, also the default of the two score fields
    NoPeriods,       \* no set / period rows recorded
    Editions         \* the workflow policies the model starts from

(* The flags of federation.competition.edition the workflow reads. *)
Policies == [exists: BOOLEAN, verification: BOOLEAN, approval: BOOLEAN,
             selfVerify: BOOLEAN, selfApprove: BOOLEAN]

ASSUME ScoresAssumption ==
    /\ ZeroZero \in Scores
    /\ NoPeriods \notin Scores

ASSUME UsersAssumption ==
    /\ NoUser \notin Users
    /\ Approvers \subseteq Validators
    /\ Validators \subseteq Users
    /\ ClubReps \subseteq Users

ASSUME EditionsAssumption == Editions \subseteq Policies

VARIABLES
    edition,         \* the policy of the competition edition, fixed in a behaviour
    state,           \* state[m]: the match's own lifecycle
    resultState,     \* resultState[m]
    included,        \* include_in_official_standings
    score,           \* home_score and away_score
    confirmed,       \* score_entry_confirmed
    zeroConfirmed,   \* zero_zero_confirmed
    periods,         \* totals of result_period_ids, or NoPeriods
    submittedBy, verifiedBy, approvedBy

matchVars == <<edition, state, resultState, included, score, confirmed,
               zeroConfirmed, periods, submittedBy, verifiedBy, approvedBy>>
entryVars == <<score, confirmed, zeroConfirmed, periods>>
dutyVars == <<submittedBy, verifiedBy, approvedBy>>

MatchStates == {"draft", "scheduled", "in_progress", "done", "cancelled"}
ResultStates ==
    {"draft", "submitted", "verified", "approved", "contested", "corrected"}

TypeOK ==
    /\ edition \in Editions
    /\ state \in [Matches -> MatchStates]
    /\ resultState \in [Matches -> ResultStates]
    /\ included \in [Matches -> BOOLEAN]
    /\ score \in [Matches -> Scores]
    /\ confirmed \in [Matches -> BOOLEAN]
    /\ zeroConfirmed \in [Matches -> BOOLEAN]
    /\ periods \in [Matches -> Scores \cup {NoPeriods}]
    /\ submittedBy \in [Matches -> Users \cup {NoUser}]
    /\ verifiedBy \in [Matches -> Users \cup {NoUser}]
    /\ approvedBy \in [Matches -> Users \cup {NoUser}]

MatchInit ==
    /\ edition \in Editions
    /\ state = [m \in Matches |-> "draft"]
    /\ resultState = [m \in Matches |-> "draft"]
    /\ included = [m \in Matches |-> FALSE]
    /\ score = [m \in Matches |-> ZeroZero]
    /\ confirmed = [m \in Matches |-> FALSE]
    /\ zeroConfirmed = [m \in Matches |-> FALSE]
    /\ periods = [m \in Matches |-> NoPeriods]
    /\ submittedBy = [m \in Matches |-> NoUser]
    /\ verifiedBy = [m \in Matches |-> NoUser]
    /\ approvedBy = [m \in Matches |-> NoUser]

-----------------------------------------------------------------------------
(* The match's own lifecycle, as the match form offers it. *)

MoveMatch(m, from, to) ==
    /\ state[m] \in from
    /\ state' = [state EXCEPT ![m] = to]
    /\ UNCHANGED <<edition, resultState, included, entryVars, dutyVars>>

ScheduleMatch(m) == MoveMatch(m, {"draft"}, "scheduled")
StartMatch(m) == MoveMatch(m, {"scheduled"}, "in_progress")
FinishMatch(m) == MoveMatch(m, {"in_progress"}, "done")
CancelMatch(m) == MoveMatch(m, {"draft", "scheduled", "in_progress"}, "cancelled")
ResetMatch(m) == MoveMatch(m, {"cancelled"}, "draft")

-----------------------------------------------------------------------------
(* Score entry.  Writing a score confirms it and drops the 0-0 confirmation *)
(* unless the same write carries one.                                       *)

ScoreWritableMutant(m) == TRUE
ScoreWritable(m) == resultState[m] # "approved"

EnterScore(m, s, zero) ==
    /\ state[m] \in {"in_progress", "done"}
    /\ ScoreWritable(m)
    /\ zero => s = ZeroZero /\ resultState[m] \in {"draft", "corrected"}
    /\ score' = [score EXCEPT ![m] = s]
    /\ confirmed' = [confirmed EXCEPT ![m] = TRUE]
    /\ zeroConfirmed' = [zeroConfirmed EXCEPT ![m] = zero]
    /\ UNCHANGED <<edition, state, resultState, included, periods, dutyVars>>

EditConfirmation(m, entry, zero) ==
    /\ resultState[m] \in {"draft", "corrected"}
    /\ zero => score[m] = ZeroZero
    /\ confirmed' = [confirmed EXCEPT ![m] = entry]
    /\ zeroConfirmed' = [zeroConfirmed EXCEPT ![m] = zero]
    /\ UNCHANGED <<edition, state, resultState, included, score, periods, dutyVars>>

EditPeriods(m, totals) ==
    /\ resultState[m] \in {"draft", "corrected"}
    /\ periods' = [periods EXCEPT ![m] = totals]
    /\ UNCHANGED <<edition, state, resultState, included, score, confirmed,
                   zeroConfirmed, dutyVars>>

(* The inclusion checkbox of the match form is an ordinary editable field. *)
TickInclusion(m) ==
    /\ included' = [included EXCEPT ![m] = ~@]
    /\ UNCHANGED <<edition, state, resultState, entryVars, dutyVars>>

-----------------------------------------------------------------------------
(* Submission, verification, approval. *)

ResultEntryValid(m) ==
    /\ confirmed[m]
    /\ score[m] = ZeroZero => zeroConfirmed[m]
    /\ periods[m] \in {NoPeriods, score[m]}

AutoVerify == edition.exists /\ ~edition.verification
AutoApprove == AutoVerify /\ ~edition.approval
MayVerifyOwn == edition.exists /\ edition.selfVerify
MayApproveOwn == edition.exists /\ edition.selfApprove

ApprovalDutiesMutant(m) == {verifiedBy[m]}
ApprovalDuties(m) == {submittedBy[m], verifiedBy[m]}

(* An approved match that is neither done nor cancelled is completed. *)
CompletedState(m) == IF state[m] = "cancelled" THEN "cancelled" ELSE "done"

MoveResult(m, target) == resultState' = [resultState EXCEPT ![m] = target]
Stamp(who, m, u) == [who EXCEPT ![m] = u]

CanSubmit(m) ==
    /\ resultState[m] \in {"draft", "corrected"}
    /\ ResultEntryValid(m)

SubmitResult(u, m) ==
    /\ CanSubmit(m)
    /\ ~AutoVerify
    /\ MoveResult(m, "submitted")
    /\ submittedBy' = Stamp(submittedBy, m, u)
    /\ verifiedBy' = Stamp(verifiedBy, m, NoUser)
    /\ approvedBy' = Stamp(approvedBy, m, NoUser)
    /\ UNCHANGED <<edition, state, included, entryVars>>

(* Without a verification step the submission verifies itself. *)
SubmitVerified(u, m) ==
    /\ CanSubmit(m)
    /\ AutoVerify /\ ~AutoApprove
    /\ MoveResult(m, "verified")
    /\ submittedBy' = Stamp(submittedBy, m, u)
    /\ verifiedBy' = Stamp(verifiedBy, m, u)
    /\ approvedBy' = Stamp(approvedBy, m, NoUser)
    /\ UNCHANGED <<edition, state, included, entryVars>>

(* Without either step the submission is official at once. *)
SubmitApproved(u, m) ==
    /\ CanSubmit(m)
    /\ AutoApprove
    /\ MoveResult(m, "approved")
    /\ submittedBy' = Stamp(submittedBy, m, u)
    /\ verifiedBy' = Stamp(verifiedBy, m, u)
    /\ approvedBy' = Stamp(approvedBy, m, u)
    /\ included' = [included EXCEPT ![m] = TRUE]
    /\ state' = [state EXCEPT ![m] = CompletedState(m)]
    /\ UNCHANGED <<edition, entryVars>>

VerifyResult(u, m) ==
    /\ u \in Validators
    /\ resultState[m] = "submitted"
    /\ MayVerifyOwn \/ submittedBy[m] # u
    /\ MoveResult(m, "verified")
    /\ verifiedBy' = Stamp(verifiedBy, m, u)
    /\ UNCHANGED <<edition, state, included, entryVars, submittedBy, approvedBy>>

ApproveBody(u, m) ==
    /\ resultState[m] = "verified"
    /\ MayApproveOwn \/ u \notin ApprovalDuties(m)
    /\ MoveResult(m, "approved")
    /\ approvedBy' = Stamp(approvedBy, m, u)
    /\ included' = [included EXCEPT ![m] = TRUE]
    /\ state' = [state EXCEPT ![m] = CompletedState(m)]
    /\ UNCHANGED <<edition, entryVars, submittedBy, verifiedBy>>

ApproveResult(u, m) == u \in Approvers /\ ApproveBody(u, m)

(* The portal command's token stands in for the approver group. *)
ApprovePortalResult(u, m) == u \in ClubReps /\ ApproveBody(u, m)

-----------------------------------------------------------------------------
(* Withdrawal.  A match whose approved result is withdrawn is reopened. *)

ReopenedStateMutant(m) == state[m]
ReopenedState(m) ==
    IF resultState[m] = "approved" /\ state[m] = "done"
    THEN "in_progress" ELSE state[m]

Withdraw(m, from, target) ==
    /\ resultState[m] \in from
    /\ MoveResult(m, target)
    /\ included' = [included EXCEPT ![m] = FALSE]
    /\ state' = [state EXCEPT ![m] = ReopenedState(m)]
    /\ UNCHANGED <<edition, entryVars>>

ContestResult(m) ==
    /\ Withdraw(m, {"submitted", "verified", "approved"}, "contested")
    /\ UNCHANGED dutyVars

CorrectResult(m) ==
    /\ Withdraw(m, {"contested", "approved"}, "corrected")
    /\ UNCHANGED dutyVars

ResetResultToDraft(u, m) ==
    /\ u \in Approvers
    /\ Withdraw(m, ResultStates \ {"draft"}, "draft")
    /\ verifiedBy' = Stamp(verifiedBy, m, NoUser)
    /\ approvedBy' = Stamp(approvedBy, m, NoUser)
    /\ UNCHANGED submittedBy

-----------------------------------------------------------------------------
(* Requests grouped by what they may do to the official results. *)

LifecycleStep(m) ==
    \/ ScheduleMatch(m) \/ StartMatch(m) \/ FinishMatch(m)
    \/ CancelMatch(m) \/ ResetMatch(m)

EntryStep(m) ==
    \/ \E s \in Scores, zero \in BOOLEAN : EnterScore(m, s, zero)
    \/ \E entry, zero \in BOOLEAN : EditConfirmation(m, entry, zero)
    \/ \E totals \in Scores \cup {NoPeriods} : EditPeriods(m, totals)

ReviewStep(u, m) ==
    \/ SubmitResult(u, m) \/ SubmitVerified(u, m) \/ VerifyResult(u, m)

ApprovalStep(u, m) ==
    \/ SubmitApproved(u, m) \/ ApproveResult(u, m) \/ ApprovePortalResult(u, m)

WithdrawalStep(u, m) ==
    \/ ContestResult(m) \/ CorrectResult(m) \/ ResetResultToDraft(u, m)

MatchNext ==
    \E m \in Matches :
        \/ LifecycleStep(m)
        \/ EntryStep(m)
        \/ TickInclusion(m)
        \/ \E u \in Users :
              ReviewStep(u, m) \/ ApprovalStep(u, m) \/ WithdrawalStep(u, m)

MatchSpec == MatchInit /\ [][MatchNext]_matchVars

-----------------------------------------------------------------------------
(* How many different people an official result needs under the policy. *)
Quorum ==
    IF AutoVerify THEN IF AutoApprove \/ MayApproveOwn THEN 1 ELSE 2
    ELSE IF MayVerifyOwn /\ MayApproveOwn THEN 1
    ELSE IF MayVerifyOwn \/ MayApproveOwn THEN 2
    ELSE 3

(* Separation of duties: a result that is verified or official was looked  *)
(* at by as many different people as the edition's policy asks for, through *)
(* any sequence of contests, corrections, resets and resubmissions, also    *)
(* when the last decision is a club's in the portal.                        *)
DutiesSeparated ==
    \A m \in Matches :
        /\ resultState[m] \in {"verified", "approved"} =>
              /\ {submittedBy[m], verifiedBy[m]} \subseteq Users
              /\ ~AutoVerify /\ ~MayVerifyOwn => submittedBy[m] # verifiedBy[m]
        /\ resultState[m] = "approved" =>
              /\ approvedBy[m] \in Users
              /\ ~AutoApprove /\ ~MayApproveOwn =>
                    approvedBy[m] \notin {submittedBy[m], verifiedBy[m]}

(* With DutiesSeparated, what makes it inductive: whoever submitted a result *)
(* stays on record until it is decided.                                      *)
SubmitterKnown ==
    \A m \in Matches : resultState[m] = "submitted" => submittedBy[m] \in Users

DutiesInv == TypeOK /\ SubmitterKnown /\ DutiesSeparated

(* Withdrawing an official result always reopens the match: no request      *)
(* leaves a match done while its result stops being official.               *)
WithdrawalReopens ==
    [][\A m \in Matches :
          resultState[m] = "approved" /\ resultState'[m] # "approved"
              => state'[m] # "done" /\ ~included'[m]]_matchVars

(* The workflow implements the ledger of official results. *)
NotOfficial == NoPeriods
IsOfficial(m) == resultState[m] = "approved"
OfficialScores == [m \in Matches |-> IF IsOfficial(m) THEN score[m] ELSE NotOfficial]
Signatures ==
    [m \in Matches |-> IF IsOfficial(m)
                       THEN {submittedBy[m], verifiedBy[m], approvedBy[m]} ELSE {}]

Ledger == INSTANCE ResultLedger WITH
    quorum <- Quorum, official <- OfficialScores, signatures <- Signatures

(* Every request publishes one result with enough signatures, withdraws one *)
(* official result, or leaves the ledger of official results alone.         *)
ImplementsLedger == Ledger!Spec
=============================================================================
