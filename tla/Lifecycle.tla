----------------------------- MODULE Lifecycle -----------------------------
(***************************************************************************)
(* The status set of an approval and its legal transitions, as in          *)
(* packages/domain/src/lifecycle.ts, and the separation-of-duties test of  *)
(* identity.ts.  Constant operators only: every module that holds approval *)
(* rows builds on this one.                                                *)
(***************************************************************************)

ApprovalStatuses ==
  {"Submitted", "InReview", "Approved", "Rejected", "Executed",
   "ExecutionFailed", "Withdrawn"}

ReviewActions == {"beginReview", "approve", "reject"}

\* TRANSITIONS, the "from" half: may the action be applied in this status?
CanApply(action, status) ==
  \/ action = "beginReview" /\ status = "Submitted"
  \/ action = "approve"     /\ status = "InReview"
  \/ action = "reject"      /\ status \in {"Submitted", "InReview"}
  \/ action = "withdraw"    /\ status \in {"Submitted", "InReview"}
  \/ action = "execute"     /\ status \in {"Approved", "ExecutionFailed"}

\* TRANSITIONS, the "to" half, for the review family.
TargetStatus(action) ==
  CASE action = "approve" -> "Approved"
    [] action = "reject"  -> "Rejected"
    [] OTHER              -> "InReview"

\* The statuses a submit-time duplicate guard counts as open.
OpenStatuses == {"Submitted", "InReview", "Approved", "ExecutionFailed"}

\* The statuses a request may be revised from.
RevisableStatuses == {"Submitted", "InReview", "Rejected", "Withdrawn"}

\* Identities reach the domain already canonical (the directory stores lower
\* case, the dev provider canonicalises), so the comparison is equality.
SelfReview(actor, submitter) == actor = submitter
=============================================================================
