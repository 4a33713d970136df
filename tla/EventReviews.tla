---------------------------- MODULE EventReviews ----------------------------
(***************************************************************************)
(* Attendance and reviews: participants of dates are checked in, asked for *)
(* a review when their date is over, write it through their link, and      *)
(* staff and the platform respond, report and moderate.                    *)
(*                                                                         *)
(* Sources: attendance/services.py, models.py, views.py; reviews/*.py;     *)
(* ops/views.py.  Participants are numbered in the order their dates end.  *)
(* set_check_in and save_review lock the participant, the other services   *)
(* the review, except report_review, which saves what the view had read.   *)
(* Ratings, texts, responses and the audit records are left out.           *)
(***************************************************************************)
EXTENDS Naturals, FiniteSets

CONSTANTS
    Participants,   \* 1..n
    BatchSize,      \* the limit of queue_due_review_requests, 500
    Reviewers,      \* bound: those who may write a review
    Moves           \* bound: dates that were over and are moved to the future

ASSUME ReviewAssumption ==
    /\ Participants \subseteq Nat /\ Reviewers \subseteq Participants
    /\ BatchSize \in Nat \ {0} /\ Moves \in Nat

VARIABLES
    seat,       \* Participant: ACTIVE of a going, paid registration
    checkIn,    \* AttendanceStatus: checked in now
    over,       \* the participant's date has ended
    asked,      \* the review request is in the outbox
    review,     \* Review: written, deleted, moderation status
    ruling,     \* the newest ReviewModeration
    report,     \* the moderation status a report has read, NONE without one
    moved       \* dates moved so far (bound)

reviewVars == <<seat, checkIn, over, asked, review, ruling, report, moved>>

NoReview == [written |-> FALSE, deleted |-> FALSE, status |-> "VISIBLE"]

ReviewInit ==
    /\ seat = [p \in Participants |-> TRUE]
    /\ checkIn = [p \in Participants |-> FALSE]
    /\ over = [p \in Participants |-> FALSE]
    /\ asked = [p \in Participants |-> FALSE]
    /\ review = [p \in Participants |-> NoReview]
    /\ ruling = [p \in Participants |-> "NONE"]
    /\ report = [p \in Participants |-> "NONE"]
    /\ moved = 0

-----------------------------------------------------------------------------
(* Attendance *)

\* set_check_in; asking for what is already so changes nothing.
SetCheckIn(p, wish) ==
    /\ seat[p] /\ checkIn[p] # wish
    /\ checkIn' = [checkIn EXCEPT ![p] = wish]
    /\ UNCHANGED <<seat, over, asked, review, ruling, report, moved>>

\* save_response or a refund: the participant is canceled, the check-in stays with it.
SeatLost(p) ==
    /\ seat[p]
    /\ seat' = [seat EXCEPT ![p] = FALSE]
    /\ UNCHANGED <<checkIn, over, asked, review, ruling, report, moved>>

DateEnds(p) ==
    /\ ~over[p] /\ \A q \in Participants : q < p => over[q]
    /\ over' = [over EXCEPT ![p] = TRUE]
    /\ UNCHANGED <<seat, checkIn, asked, review, ruling, report, moved>>

\* occurrence_edit moves dates that are over, too; the last stays the last.
DateMoved(p) ==
    /\ moved < Moves
    /\ over[p] /\ \A q \in Participants : q > p => ~over[q]
    /\ over' = [over EXCEPT ![p] = FALSE]
    /\ moved' = moved + 1
    /\ UNCHANGED <<seat, checkIn, asked, review, ruling, report>>

-----------------------------------------------------------------------------
(* Requests *)

\* A deleted review is still a row.
Due(p) == checkIn[p] /\ over[p] /\ ~review[p].written
DueBefore(p) == {q \in Participants : q < p /\ Due(q)}

\* queue_due_review_requests: the first BatchSize of those due, asked before or not.
\* Mutant: a batch is one shorter.
ShortBatch == {p \in Participants : Due(p) /\ Cardinality(DueBefore(p)) + 1 < BatchSize}
Batch == {p \in Participants : Due(p) /\ Cardinality(DueBefore(p)) < BatchSize}

QueueReviewRequests ==
    /\ asked' = [p \in Participants |-> asked[p] \/ p \in Batch]
    /\ UNCHANGED <<seat, checkIn, over, review, ruling, report, moved>>

-----------------------------------------------------------------------------
(* The participant's link *)

\* participant_can_review
CanReview(p) == seat[p] /\ checkIn[p] /\ over[p]

\* save_review; writing again undoes a deletion.
SaveReview(p) ==
    /\ p \in Reviewers /\ CanReview(p)
    /\ review' = [review EXCEPT ![p].written = TRUE, ![p].deleted = FALSE]
    /\ UNCHANGED <<seat, checkIn, over, asked, ruling, report, moved>>

DeleteReview(p) ==
    /\ CanReview(p) /\ review[p].written
    /\ review' = [review EXCEPT ![p].deleted = TRUE]
    /\ UNCHANGED <<seat, checkIn, over, asked, ruling, report, moved>>

-----------------------------------------------------------------------------
(* Staff and the platform *)

\* The view reads the review ...
ReportRead(p) ==
    /\ review[p].written /\ report[p] = "NONE"
    /\ report' = [report EXCEPT ![p] = review[p].status]
    /\ UNCHANGED <<seat, checkIn, over, asked, review, ruling, moved>>

\* ... and report_review saves by what was read.  Mutant: whatever was read.
ReportedAlways(read, status) == "REPORTED"
Reported(read, status) == IF read = "VISIBLE" THEN "REPORTED" ELSE status

ReportSave(p) ==
    /\ report[p] # "NONE"
    /\ review' = [review EXCEPT ![p].status = Reported(report[p], @)]
    /\ report' = [report EXCEPT ![p] = "NONE"]
    /\ UNCHANGED <<seat, checkIn, over, asked, ruling, moved>>

\* moderate_review
Moderate(p, action) ==
    /\ review[p].written
    /\ review' = [review EXCEPT ![p].status = IF action = "HIDDEN" THEN "HIDDEN" ELSE "VISIBLE"]
    /\ ruling' = [ruling EXCEPT ![p] = action]
    /\ UNCHANGED <<seat, checkIn, over, asked, report, moved>>

ReviewNext ==
    \/ \E p \in Participants :
          \/ \E wish \in BOOLEAN : SetCheckIn(p, wish)
          \/ SeatLost(p) \/ DateEnds(p) \/ DateMoved(p)
          \/ SaveReview(p) \/ DeleteReview(p)
          \/ ReportRead(p) \/ ReportSave(p)
          \/ \E action \in {"HIDDEN", "RESTORED"} : Moderate(p, action)
    \/ QueueReviewRequests

\* The task is run every hour.
ReviewSpec == ReviewInit /\ [][ReviewNext]_reviewVars /\ WF_reviewVars(QueueReviewRequests)

-----------------------------------------------------------------------------
(* Properties *)

ReviewTypeOK ==
    /\ seat \in [Participants -> BOOLEAN] /\ checkIn \in [Participants -> BOOLEAN]
    /\ over \in [Participants -> BOOLEAN] /\ asked \in [Participants -> BOOLEAN]
    /\ review \in [Participants -> [written : BOOLEAN, deleted : BOOLEAN,
                                    status : {"VISIBLE", "REPORTED", "HIDDEN"}]]
    /\ ruling \in [Participants -> {"NONE", "HIDDEN", "RESTORED"}]
    /\ report \in [Participants -> {"NONE", "VISIBLE", "REPORTED", "HIDDEN"}]
    /\ moved \in 0..Moves

\* What the platform hides stays hidden until the platform restores it, whoever edits,
\* deletes or reports it - except that a report which read the review before it
\* was hidden makes it public again.
HiddenStays ==
    [][\A p \in Participants : review[p].status = "HIDDEN" /\ review'[p].status # "HIDDEN" =>
          ruling'[p] = "RESTORED" \/ report[p] = "VISIBLE"]_reviewVars

\* Whoever is due for a review request, and is not behind BatchSize others who are due, is
\* asked, unless that changes first.
FrontIsAsked ==
    \A p \in Participants : Due(p) /\ Cardinality(DueBefore(p)) < BatchSize
        ~> asked[p] \/ ~Due(p) \/ Cardinality(DueBefore(p)) >= BatchSize

=============================================================================
