---------------------------- MODULE RefundLedger ----------------------------
(***************************************************************************)
(* Money going back on ONE paid order: refunds asked for by a subscriber   *)
(* admin, submitted to Stripe outside any transaction, and settled by      *)
(* Stripe's answer and by webhooks that each carry a SNAPSHOT of the       *)
(* refund; and the disputes that touch the same order row.                 *)
(*                                                                         *)
(* Sources: payments/services.py (prepare_refund, submit_refund,           *)
(* apply_refund_object, apply_dispute, process_connect_event) and          *)
(* payments/fees.py.  Stripe is external.  Every application of a snapshot *)
(* locks the refund and the order, so it is one action; what varies is the *)
(* order in which snapshots are applied, and the worker between its call   *)
(* to Stripe and the use of the answer.                                    *)
(***************************************************************************)
EXTENDS Integers, Sequences, FiniteSetsExt

CONSTANTS
    Refunds,        \* Refund rows that may be created
    Total,          \* Order.total_cents
    Fee,            \* Order.application_fee_cents
    Amounts,        \* amounts an admin enters
    MaxVersions,    \* bound: snapshots Stripe takes of one refund
    Days            \* the sets of mishaps a behaviour is checked with

AllMishaps == {"reorder",       \* snapshots are applied out of order
               "repeat",        \* Stripe reports a succeeded refund again
               "again",         \* a processed event is applied once more
               "timeout",       \* the call fails though Stripe made the refund
               "late failure"}  \* a succeeded refund is returned by the bank

ASSUME ConstantsAssumption ==
    /\ IsFiniteSet(Refunds)
    /\ Total \in Nat \ {0} /\ Fee \in 0..Total
    /\ Amounts \subseteq Nat \ {0}
    /\ MaxVersions \in Nat \ {0}
    /\ Days \subseteq SUBSET AllMishaps

VARIABLES
    mishaps,    \* which of AllMishaps may happen in this behaviour
    order,      \* Order: status, refunded_cents, application_fee_refunded_cents
    tickets,    \* the status its tickets share: VALID or REFUNDED
    refund,     \* Refund rows: status and amount_cents
    worker,     \* the request that submits each refund
    history,    \* Stripe: the statuses each refund went through (its snapshots)
    sent,       \* events not yet processed: positions in history
    dispute,    \* Stripe: the one dispute over the charge
    notices     \* dispute events not yet processed

vars == <<mishaps, order, tickets, refund, worker, history, sent, dispute, notices>>

Statuses      == {"PENDING", "SUCCEEDED", "FAILED", "CANCELED"}
Refundable    == {"PAID", "PARTIALLY_REFUNDED", "DISPUTED"}
OrderStatuses == Refundable \union {"REFUNDED"}

NoRow == [status |-> "NONE", amount |-> 0]

Init ==
    /\ mishaps \in Days
    /\ order = [status |-> "PAID", refunded |-> 0, fee |-> 0]
    /\ tickets = "VALID"
    /\ refund = [r \in Refunds |-> NoRow]
    /\ worker = [r \in Refunds |-> "idle"]
    /\ history = [r \in Refunds |-> <<>>]
    /\ sent = [r \in Refunds |-> {}]
    /\ dispute = "none" /\ notices = {}

SumOf(rows) == SumFunctionOnSet([r \in Refunds |-> refund[r].amount], rows)
Succeeded == {r \in Refunds : refund[r].status = "SUCCEEDED"}

\* Mutant: the share of each refund is rounded up.
RoundedUpFee(refunded) ==
    IF refunded >= Total THEN Fee ELSE (Fee * refunded + Total - 1) \div Total

\* proportional_fee_refund: half-up rounding of the share, never above the fee.
FeeRefund(refunded) ==
    IF refunded >= Total THEN Fee ELSE Min({Fee, (Fee * refunded + Total \div 2) \div Total})

-----------------------------------------------------------------------------
(* prepare_refund and submit_refund *)

\* Refunds still PENDING are not counted against the refundable balance.
PrepareRefund(r, amount) ==
    /\ refund[r].status = "NONE"
    /\ order.status \in Refundable
    /\ amount \in 1..(Total - order.refunded)
    /\ refund' = [refund EXCEPT ![r] = [status |-> "PENDING", amount |-> amount]]
    /\ worker' = [worker EXCEPT ![r] = "calling"]
    /\ UNCHANGED <<order, tickets, history, sent, dispute, notices>>

Submitted(r) == history[r] # <<>>
Current(r)   == history[r][Len(history[r])]

\* Stripe refuses more than the charge holds.  The answer is the first snapshot;
\* the refund.created event carries the same one.
Committed == {r \in Refunds : Submitted(r) /\ Current(r) \in {"PENDING", "SUCCEEDED"}}

StripeAccepts(r, status) ==
    /\ worker[r] = "calling"
    /\ SumOf(Committed \union {r}) <= Total
    /\ history' = [history EXCEPT ![r] = <<status>>]
    /\ sent' = [sent EXCEPT ![r] = {1}]
    /\ \/ worker' = [worker EXCEPT ![r] = "answered"]
       \/ "timeout" \in mishaps /\ worker' = [worker EXCEPT ![r] = "error"]
    /\ UNCHANGED <<order, tickets, refund, dispute, notices>>

\* A StripeError: rejected, or never reached.
StripeRejects(r) ==
    /\ worker[r] = "calling"
    /\ worker' = [worker EXCEPT ![r] = "error"]
    /\ UNCHANGED <<order, tickets, refund, history, sent, dispute, notices>>

\* The handler writes FAILED with a plain UPDATE, whatever the row says by now.
SubmissionFailed(r) ==
    /\ worker[r] = "error"
    /\ refund' = [refund EXCEPT ![r].status = "FAILED"]
    /\ worker' = [worker EXCEPT ![r] = "done"]
    /\ UNCHANGED <<order, tickets, history, sent, dispute, notices>>

\* The process dies before the call, or with the answer in its hands.
WorkerDies(r) ==
    /\ worker[r] \in {"calling", "answered"}
    /\ worker' = [worker EXCEPT ![r] = "died"]
    /\ UNCHANGED <<order, tickets, refund, history, sent, dispute, notices>>

-----------------------------------------------------------------------------
(* apply_refund_object *)

\* Mutant: no check that the refund had not succeeded before.
CountsAlways(r, status) == status = "SUCCEEDED"

\* A snapshot counts when it makes the refund SUCCEEDED.
Counts(r, status) == status = "SUCCEEDED" /\ refund[r].status # "SUCCEEDED"

\* Mutant: the total is overwritten, as by a worker that read it without the lock.
LedgerOverwritten(r) == refund[r].amount

RefundedAfter(r) == order.refunded + refund[r].amount

\* Mutant: the tickets of a refunded order stay valid.
ApplyWithoutTickets(r, status) ==
    /\ refund' = [refund EXCEPT ![r].status = status]
    /\ order' = IF Counts(r, status)
                THEN [status |-> IF RefundedAfter(r) >= Total
                                 THEN "REFUNDED" ELSE "PARTIALLY_REFUNDED",
                      refunded |-> RefundedAfter(r), fee |-> FeeRefund(RefundedAfter(r))]
                ELSE order
    /\ UNCHANGED tickets

\* The snapshot's status replaces the row's, with no regard to age.
Apply(r, status) ==
    LET full == RefundedAfter(r) >= Total
    IN  /\ refund' = [refund EXCEPT ![r].status = status]
        /\ IF Counts(r, status)
           THEN /\ order' = [status   |-> IF full THEN "REFUNDED" ELSE "PARTIALLY_REFUNDED",
                             refunded |-> RefundedAfter(r),
                             fee      |-> FeeRefund(RefundedAfter(r))]
                /\ tickets' = IF full THEN "REFUNDED" ELSE tickets
           ELSE UNCHANGED <<order, tickets>>

\* submit_refund uses Stripe's answer, which may be stale by then.
SubmissionApplied(r) ==
    /\ worker[r] = "answered"
    /\ Apply(r, history[r][1])
    /\ worker' = [worker EXCEPT ![r] = "done"]
    /\ UNCHANGED <<history, sent, dispute, notices>>

\* Mutant: the event finds the refund by the id the worker stored, not by metadata.
DeliverByStoredId(r, v) ==
    /\ v \in sent[r]
    /\ IF worker[r] = "done" THEN Apply(r, history[r][v]) ELSE UNCHANGED <<order, tickets, refund>>
    /\ sent' = [sent EXCEPT ![r] = @ \ {v}]
    /\ UNCHANGED <<worker, history, dispute, notices>>

\* Unless snapshots get out of order, an event follows the earlier ones, and the
\* answer when it is not the first.  The inbox keeps an event from being applied
\* twice, except that a failed attempt may write FAILED over another's PROCESSED.
\* (Bound: refund events only, and not once the ledger has reached the total.)
Again == "again" \in mishaps /\ order.refunded < Total

Deliver(r, v) ==
    /\ v \in sent[r]
    /\ "reorder" \in mishaps \/ \A u \in sent[r] : v <= u
    /\ "reorder" \in mishaps \/ v = 1 \/ worker[r] # "answered"
    /\ Apply(r, history[r][v])
    /\ \/ sent' = [sent EXCEPT ![r] = @ \ {v}]
       \/ Again /\ UNCHANGED sent
    /\ UNCHANGED <<worker, history, dispute, notices>>

-----------------------------------------------------------------------------
(* Stripe (external): the life of a refund *)

Follows(old, new) ==
    \/ old = "PENDING" /\ new \in {"SUCCEEDED", "FAILED", "CANCELED"}
    \/ "repeat" \in mishaps /\ old = "SUCCEEDED" /\ new = "SUCCEEDED"
    \/ "late failure" \in mishaps /\ old = "SUCCEEDED" /\ new = "FAILED"

StripeUpdates(r, status) ==
    /\ Submitted(r) /\ Len(history[r]) < MaxVersions
    /\ Follows(Current(r), status)
    /\ history' = [history EXCEPT ![r] = Append(@, status)]
    /\ sent' = [sent EXCEPT ![r] = @ \union {Len(history[r]) + 1}]
    /\ UNCHANGED <<order, tickets, refund, worker, dispute, notices>>

-----------------------------------------------------------------------------
(* Disputes *)

StripeDisputes ==
    /\ dispute = "none"
    /\ dispute' = "open" /\ notices' = {"created"}
    /\ UNCHANGED <<order, tickets, refund, worker, history, sent>>

StripeClosesDispute ==
    /\ dispute = "open"
    /\ \E outcome \in {"won", "lost"} :
          dispute' = outcome /\ notices' = notices \union {outcome}
    /\ UNCHANGED <<order, tickets, refund, worker, history, sent>>

\* apply_dispute: closed without a chargeback makes the order PAID, anything else
\* DISPUTED, whatever has been refunded.
DeliverDispute(notice) ==
    /\ notice \in notices
    /\ "reorder" \in mishaps \/ "created" \notin notices \/ notice = "created"
    /\ order' = [order EXCEPT !.status = IF notice = "won" THEN "PAID" ELSE "DISPUTED"]
    /\ notices' = notices \ {notice}
    /\ UNCHANGED <<tickets, refund, worker, history, sent, dispute>>

-----------------------------------------------------------------------------
Next ==
    /\ UNCHANGED mishaps
    /\ \/ \E r \in Refunds :
             \/ \E amount \in Amounts : PrepareRefund(r, amount)
             \/ \E s \in {"PENDING", "SUCCEEDED"} : StripeAccepts(r, s)
             \/ StripeRejects(r) \/ SubmissionFailed(r) \/ SubmissionApplied(r) \/ WorkerDies(r)
             \/ \E s \in Statuses : StripeUpdates(r, s)
             \/ \E v \in 1..MaxVersions : Deliver(r, v)
       \/ StripeDisputes \/ StripeClosesDispute
       \/ \E notice \in {"created", "won", "lost"} : DeliverDispute(notice)

Spec == Init /\ [][Next]_vars

(* Stripe and the retry command repeat an event until it is processed, and a *)
(* request ends or its process dies.                                         *)
Fairness ==
    \A r \in Refunds :
        /\ WF_vars((SubmissionApplied(r) \/ WorkerDies(r)) /\ UNCHANGED mishaps)
        /\ \A v \in 1..MaxVersions : WF_vars(Deliver(r, v) /\ UNCHANGED mishaps)

FairSpec == Spec /\ Fairness

-----------------------------------------------------------------------------
(* Properties *)

\* Every variable holds a value the tables, Stripe or the request can hold.
TypeOK ==
    /\ mishaps \in Days
    /\ order \in [status : OrderStatuses, refunded : Nat, fee : 0..Fee]
    /\ tickets \in {"VALID", "REFUNDED"}
    /\ refund \in [Refunds -> {NoRow} \union [status : Statuses, amount : 1..Total]]
    /\ worker \in [Refunds -> {"idle", "calling", "answered", "error", "done", "died"}]
    /\ history \in [Refunds -> Seq(Statuses)]
    /\ sent \in [Refunds -> SUBSET (1..MaxVersions)]
    /\ dispute \in {"none", "open", "won", "lost"}
    /\ notices \subseteq {"created", "won", "lost"}

\* Whatever goes wrong on the way, no succeeded refund is missing from the ledger:
\* concurrent refunds of one order do not lose each other's update.
NeverUnderstated == SumOf(Succeeded) <= order.refunded

\* "Refunded: sum of successful refunds": the ledger of the order is exactly that, as long as
\* snapshots are applied in order, each once, no call fails that Stripe has carried out, and the
\* bank returns no refund.  Otherwise it is not: an old snapshot applied late takes a SUCCEEDED
\* row back to PENDING, to be counted again, and a timed-out call's handler makes it FAILED.
InOrder == mishaps \subseteq {"repeat"}
RefundedIsSumOfSuccessful == InOrder => order.refunded = SumOf(Succeeded)

\* An order that says REFUNDED has all of its money and fee back, and no ticket of
\* it opens a door any more.
RefundedMeansAll ==
    order.status = "REFUNDED" =>
        order.refunded >= Total /\ order.fee = Fee /\ tickets = "REFUNDED"

\* The platform returns its fee in proportion: however the refunds are cut, what it
\* returned is within half a cent of the exact share, and never above the fee, even
\* when the ledger has booked more than the total.
FeeFollowsLedger ==
    LET share == 2 * Fee * Min({order.refunded, Total})
    IN  /\ order.fee <= Fee
        /\ 2 * Total * order.fee \in (share - Total)..(share + Total)

\* A refund that Stripe settled as succeeded is booked, even when the request that
\* asked for it died, as long as snapshots are applied in order.
SucceededIsBooked ==
    \A r \in Refunds :
        (InOrder /\ Submitted(r) /\ Current(r) = "SUCCEEDED") ~> refund[r].status = "SUCCEEDED"

=============================================================================
