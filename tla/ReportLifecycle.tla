--------------------------- MODULE ReportLifecycle ---------------------------
(***************************************************************************)
(* What the editorial workflow promises, as if every request ran alone     *)
(* (services/lifecycle.py, services/publication.py): a report moves along  *)
(* DRAFT -> IN_REVIEW -> APPROVED -> PUBLISHED or is sent back, its        *)
(* content may change until it is published, and the published product is  *)
(* the content of that moment for ever.                                    *)
(***************************************************************************)
CONSTANTS
  Contents,   \* what a report can say
  Reviewers,  \* users with the REVIEWER or ADMIN role
  None        \* no reviewer, no product

VARIABLES
  status,    \* Report.status
  content,   \* text of the live report
  reviewer,  \* Report.reviewer_id
  product    \* the content frozen at publication

vars == <<status, content, reviewer, product>>

Init ==
  /\ status = "DRAFT"
  /\ content \in Contents
  /\ reviewer = None
  /\ product = None

\* Content is edited, in any state but the last.
Edit ==
  /\ status # "PUBLISHED"
  /\ content' \in Contents
  /\ UNCHANGED <<status, reviewer, product>>

\* The author submits a draft.
Submit ==
  /\ status = "DRAFT"
  /\ status' = "IN_REVIEW"
  /\ UNCHANGED <<content, reviewer, product>>

\* A reviewer approves and signs for it.
Approve ==
  /\ status = "IN_REVIEW"
  /\ status' = "APPROVED"
  /\ reviewer' \in Reviewers
  /\ UNCHANGED <<content, product>>

\* A reviewer sends the report back to its author, which clears the approval.
Rework ==
  /\ status = "IN_REVIEW"
  /\ status' = "DRAFT"
  /\ reviewer' = None
  /\ UNCHANGED <<content, product>>

\* A reviewer takes an approved report back into review.
Reconsider ==
  /\ status = "APPROVED"
  /\ status' = "IN_REVIEW"
  /\ UNCHANGED <<content, reviewer, product>>

\* An approved report is published: what it says now is the product.
Publish ==
  /\ status = "APPROVED"
  /\ status' = "PUBLISHED"
  /\ product' = content
  /\ UNCHANGED <<content, reviewer>>

Next == Edit \/ Submit \/ Approve \/ Rework \/ Reconsider \/ Publish

Spec == Init /\ [][Next]_vars
=============================================================================
