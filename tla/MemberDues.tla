----------------------------- MODULE MemberDues -----------------------------
(***************************************************************************)
(* Dues of ONE person for ONE plan of a site, through the connected Stripe *)
(* account: joining, Checkout, the subscription's life at Stripe, and the  *)
(* rows that follow its events in whatever order they arrive.  Composes    *)
(* Contacts (joining creates the contact and the member) and               *)
(* ConnectedAccount (joining needs an account that is ready).              *)
(*                                                                         *)
(* Sources: payments/services.py, gateway.py, views.py, forms.py,          *)
(* messaging.py, models.py, contacts/models.py.  Subscriptions are         *)
(* numbered in the order of their creation; each has two invoices, its     *)
(* first payment and a renewal.  Stripe's "unpaid" and "paused" are mapped *)
(* like "past_due", which stands for the three.  Billing dates, Stripe's   *)
(* customer and the check of the account's id are left out.                *)
(***************************************************************************)
EXTENDS Contacts, ConnectedAccount, Sequences, FiniteSets

CONSTANTS
    Joins,      \* subscriptions that may be started
    Budgets     \* bounds, one of them in a behaviour: steps of the contact; changes of the
                \* account, and whether it is fetched at all; edits of the plan; joins; what
                \* happens to payments at Stripe; reconciliations

ASSUME DuesAssumption ==
    /\ Joins \in Nat
    /\ Budgets \subseteq [contact : Nat, account : Nat, fetched : Nat, plan : Nat,
                          join : Nat, billing : Nat, reconcile : Nat]

Subs == 1..Joins
Invoices == {1, 2}

SubStatus == {"NONE", "INCOMPLETE", "TRIALING", "ACTIVE", "PAST_DUE", "CANCELED", "EXPIRED"}
Ended == {"CANCELED", "EXPIRED"}

VARIABLES
    sub,        \* MemberSubscription: status, Stripe's id known, plan as read at joining
    payment,    \* MembershipPayment of each invoice
    receipt,    \* the receipt is in the outbox
    plan,       \* MembershipPlan: amount, the amount of its Stripe price (0: not known)
    price,      \* the plan's price at Stripe (0: none)
    planEdit,   \* membership_plan_edit between reading the plan and saving it
    remote,     \* at Stripe: Checkout session, subscription, invoices
    events,     \* events on their way, in the order Stripe made them
    lookup,     \* reconcile_site_commerce between Stripe's answer and its use
    \* For the properties only:
    disordered, \* an event was applied before an older one, or a lookup was overtaken
    superseded, \* subscriptions a later join gave up, their row being INCOMPLETE
    byInvoice,  \* subscriptions that a paid invoice made ACTIVE
    left        \* what is left of the budget

duesVars == <<sub, payment, receipt, plan, price, planEdit, remote, events, lookup,
             disordered, superseded, byInvoice>>
vars == <<contactVars, accountVars, duesVars, left>>

NoPlan == [amount |-> 0, price |-> 0]
NoLookup == [sub |-> 0, status |-> "none"]

Init ==
    /\ ContactInit /\ AccountInit
    /\ sub = [s \in Subs |-> [status |-> "NONE", linked |-> FALSE, plan |-> NoPlan]]
    /\ payment = [s \in Subs |-> [i \in Invoices |-> "NONE"]]
    /\ receipt = [s \in Subs |-> FALSE]
    /\ plan = NoPlan /\ price = 0 /\ planEdit = NoPlan
    /\ remote = [s \in Subs |-> [session |-> "NONE", status |-> "none",
                                 invoices |-> [i \in Invoices |-> "NONE"]]]
    /\ events = <<>>
    /\ lookup = NoLookup
    /\ disordered = FALSE /\ superseded = {} /\ byInvoice = {}
    /\ left \in Budgets

Spend(kind) == left[kind] > 0 /\ left' = [left EXCEPT ![kind] = @ - 1]

-----------------------------------------------------------------------------
(* The plan *)

\* membership_plan_create
CreatePlan ==
    /\ CommerceReady /\ plan = NoPlan
    /\ plan' = [amount |-> 1, price |-> 0]
    /\ UNCHANGED <<contactVars, accountVars, sub, payment, receipt, price, planEdit, remote, events,
                   lookup, disordered, superseded, byInvoice, left>>

\* membership_plan_edit: the amount is locked if the plan, as read, has a price at Stripe.
EditPlan ==
    /\ plan # NoPlan /\ planEdit = NoPlan
    /\ Spend("plan")
    /\ planEdit' = plan
    /\ UNCHANGED <<contactVars, accountVars, sub, payment, receipt, plan, price, remote, events,
                   lookup, disordered, superseded, byInvoice>>

\* form.save() writes every column of the plan as read.
SavePlan ==
    /\ planEdit # NoPlan
    /\ plan' \in {planEdit} \union (IF planEdit.price = 0 THEN {[planEdit EXCEPT !.amount = 2]} ELSE {})
    /\ planEdit' = NoPlan
    /\ UNCHANGED <<contactVars, accountVars, sub, payment, receipt, price, remote, events, lookup,
                   disordered, superseded, byInvoice, left>>

-----------------------------------------------------------------------------
(* Joining *)

\* The newest subscription that has not ended, 0 without one.
Existing ==
    LET open == {s \in Subs : sub[s].status \notin Ended \union {"NONE"}}
    IN  IF open = {} THEN 0 ELSE CHOOSE s \in open : \A t \in open : t <= s

\* start_member_subscription: a checkout that was not completed is given up, anything
\* else is a membership already.  Mutant: any older subscription is given up.
JoinableAlways == TRUE
Joinable == Existing # 0 => sub[Existing].status = "INCOMPLETE"

Join(s) ==
    /\ CommerceReady /\ plan # NoPlan
    /\ sub[s].status = "NONE" /\ \A t \in Subs : t < s => sub[t].status # "NONE"
    /\ Joinable
    /\ Spend("join")
    /\ contact' = [contact EXCEPT !.exists = TRUE]
    /\ member' = IF member = "NONE" THEN "ACTIVE" ELSE member
    /\ sub' = [t \in Subs |->
          IF t = s THEN [status |-> "INCOMPLETE", linked |-> FALSE, plan |-> plan]
          ELSE IF t = Existing THEN [sub[t] EXCEPT !.status = "CANCELED"] ELSE sub[t]]
    /\ superseded' = superseded \union {t \in Subs : t = Existing /\ sub[t].status = "INCOMPLETE"}
    /\ UNCHANGED <<visit, accountVars, payment, receipt, plan, price, planEdit, remote, events,
                   lookup, disordered, byInvoice>>

\* ensure_membership_price with the plan as read at joining: for the same idempotency
\* key Stripe answers with the same price and refuses another amount.
EnsurePrice(s) ==
    IF sub[s].plan.price # 0 THEN UNCHANGED <<plan, price>>
    ELSE /\ price \in {0, sub[s].plan.amount}
         /\ price' = sub[s].plan.amount
         /\ plan' = [plan EXCEPT !.price = price']

\* The request may also have ended before.
AttachCheckout(s) ==
    /\ sub[s].status # "NONE" /\ remote[s].session = "NONE"
    /\ EnsurePrice(s)
    /\ remote' = [remote EXCEPT ![s].session = "open"]
    /\ UNCHANGED <<contactVars, accountVars, sub, payment, receipt, planEdit, events, lookup,
                   disordered, superseded, byInvoice, left>>

-----------------------------------------------------------------------------
(* Stripe (external) *)

Running == {"trialing", "active", "past_due"}
Over == {"canceled", "incomplete_expired"}
Words == {"none", "incomplete"} \union Running \union Over

Session(s) == [kind |-> "session", sub |-> s, status |-> "none", invoice |-> 0]
Snapshot(s, status) == [kind |-> "subscription", sub |-> s, status |-> status, invoice |-> 0]
Invoice(s, i, status) == [kind |-> "invoice", sub |-> s, status |-> status, invoice |-> i]

StripeUnchanged ==
    UNCHANGED <<contactVars, accountVars, sub, payment, receipt, plan, price, planEdit, lookup,
                disordered, superseded, byInvoice>>

\* The payer submits the Checkout: the subscription exists from now on ...
BeginPayment(s) ==
    /\ remote[s].session = "open" /\ remote[s].status = "none"
    /\ remote' = [remote EXCEPT ![s].status = "incomplete"]
    /\ events' = events \o <<Snapshot(s, "incomplete")>>
    /\ StripeUnchanged /\ UNCHANGED left

FirstPaymentFails(s) ==
    /\ remote[s].session = "open" /\ remote[s].status = "incomplete"
    /\ Spend("billing")
    /\ remote' = [remote EXCEPT ![s].invoices[1] = "FAILED"]
    /\ events' = events \o <<Invoice(s, 1, "FAILED")>>
    /\ StripeUnchanged

\* The news of a first payment, in any order, but an invoice after its subscription was
\* created.
FirstNews(s) ==
    LET session == Session(s)  active == Snapshot(s, "active")  paid == Invoice(s, 1, "PAID")
    IN  {<<session, active, paid>>, <<active, session, paid>>, <<active, paid, session>>}
        \union (IF remote[s].status = "none" THEN {}
                ELSE {<<session, paid, active>>, <<paid, session, active>>, <<paid, active, session>>})

\* ... unless it is created and paid at once.
PayCheckout(s) ==
    /\ remote[s].session = "open" /\ remote[s].status \in {"none", "incomplete"}
    /\ Spend("billing")
    /\ remote' = [remote EXCEPT ![s] = [session |-> "complete", status |-> "active",
                                        invoices |-> [@.invoices EXCEPT ![1] = "PAID"]]]
    /\ \E news \in FirstNews(s) : events' = events \o news
    /\ StripeUnchanged

\* A subscription that was not paid expires with its Checkout.
SessionExpires(s) ==
    /\ remote[s].session = "open"
    /\ IF remote[s].status = "none"
       THEN remote' = [remote EXCEPT ![s].session = "expired"] /\ UNCHANGED events
       ELSE /\ remote' = [remote EXCEPT ![s].session = "expired", ![s].status = "incomplete_expired"]
            /\ events' = events \o <<Snapshot(s, "incomplete_expired")>>
    /\ StripeUnchanged /\ UNCHANGED left

InEitherOrder(e, f) == {<<e, f>>, <<f, e>>}

RenewalFails(s) ==
    /\ remote[s].status = "active" /\ remote[s].invoices[2] = "NONE"
    /\ Spend("billing")
    /\ remote' = [remote EXCEPT ![s].status = "past_due", ![s].invoices[2] = "FAILED"]
    /\ \E news \in InEitherOrder(Invoice(s, 2, "FAILED"), Snapshot(s, "past_due")) :
          events' = events \o news
    /\ StripeUnchanged

RenewalPaid(s) ==
    /\ remote[s].status \in {"active", "past_due"} /\ remote[s].invoices[2] # "PAID"
    /\ Spend("billing")
    /\ remote' = [remote EXCEPT ![s].status = "active", ![s].invoices[2] = "PAID"]
    /\ \E news \in InEitherOrder(Invoice(s, 2, "PAID"), Snapshot(s, "active")) :
          events' = events \o news
    /\ StripeUnchanged

\* The subscription is canceled, or its status changed by other means than an invoice:
\* a trial given or over, a pause.
SubscriptionChanges(s, status) ==
    /\ remote[s].status \in Running \ {status}
    /\ Spend("billing")
    /\ remote' = [remote EXCEPT ![s].status = status]
    /\ events' = events \o <<Snapshot(s, status)>>
    /\ StripeUnchanged

-----------------------------------------------------------------------------
(* process_connect_event and reconcile_site_commerce *)

\* status_map
Mapped == [incomplete |-> "INCOMPLETE", incomplete_expired |-> "EXPIRED", trialing |-> "TRIALING",
           active |-> "ACTIVE", past_due |-> "PAST_DUE", canceled |-> "CANCELED"]

\* apply_member_subscription: the subscription is found by its metadata, its snapshot
\* replaces the row, and a receipt is queued when the row becomes ACTIVE here.  Mutant:
\* a subscription that was given up is left alone.
FollowOpen(s, status) ==
    /\ sub' = [sub EXCEPT ![s].linked = TRUE,
                          ![s].status = IF @ \in Ended THEN @ ELSE Mapped[status]]
    /\ receipt' = [receipt EXCEPT ![s] = @ \/ sub[s].status \notin Ended \union {"ACTIVE"}]
Follow(s, status) ==
    /\ sub' = [sub EXCEPT ![s].linked = TRUE, ![s].status = Mapped[status]]
    /\ receipt' = [receipt EXCEPT ![s] = @ \/ (status = "active" /\ sub[s].status # "ACTIVE")]

\* apply_member_invoice finds the subscription by Stripe's id; without it the event is
\* dropped for good.  No receipt is queued here.
Book(s, i, status) ==
    IF ~sub[s].linked THEN UNCHANGED <<sub, payment, byInvoice>>
    ELSE /\ sub' = [sub EXCEPT ![s].status = IF status = "PAID" THEN "ACTIVE" ELSE "PAST_DUE"]
         /\ payment' = [payment EXCEPT ![s][i] = status]
         /\ byInvoice' = byInvoice \union {t \in {s} : status = "PAID" /\ sub[s].status # "ACTIVE"}

Without(seq, k) == SubSeq(seq, 1, k - 1) \o SubSeq(seq, k + 1, Len(seq))

Deliver(k) ==
    /\ k \in 1..Len(events)
    /\ LET e == events[k]
       IN  CASE e.kind = "session" ->
                  /\ sub' = [sub EXCEPT ![e.sub].linked = TRUE]
                  /\ UNCHANGED <<payment, receipt, byInvoice>>
             [] e.kind = "subscription" ->
                  Follow(e.sub, e.status) /\ UNCHANGED <<payment, byInvoice>>
             [] e.kind = "invoice" -> Book(e.sub, e.invoice, e.status) /\ UNCHANGED receipt
    /\ events' = Without(events, k)
    /\ disordered' = (disordered \/ k # 1)
    /\ UNCHANGED <<contactVars, accountVars, plan, price, planEdit, remote, lookup, superseded, left>>

\* An operator's command asks Stripe about a subscription it has linked ...
Reconcile(s) ==
    /\ lookup = NoLookup /\ sub[s].linked
    /\ Spend("reconcile")
    /\ lookup' = [sub |-> s, status |-> remote[s].status]
    /\ UNCHANGED <<contactVars, accountVars, sub, payment, receipt, plan, price, planEdit, remote,
                   events, disordered, superseded, byInvoice>>

\* ... and applies the answer.
ApplyLookup ==
    /\ lookup # NoLookup
    /\ Follow(lookup.sub, lookup.status)
    /\ disordered' = (disordered \/ lookup.status # remote[lookup.sub].status
                        \/ \E k \in 1..Len(events) : events[k].sub = lookup.sub)
    /\ lookup' = NoLookup
    /\ UNCHANGED <<contactVars, accountVars, payment, plan, price, planEdit, remote, events,
                   superseded, byInvoice, left>>

-----------------------------------------------------------------------------
(* Composition *)

Subscribed == \E s \in Subs : sub[s].status # "NONE"

\* To end a visit is free of charge.
ContactMoves ==
    /\ ContactStep(Subscribed)
    /\ IF visit' # visit /\ visit # NoVisit THEN UNCHANGED left ELSE Spend("contact")
    /\ UNCHANGED <<accountVars, duesVars>>

\* The first onboarding is free of charge.
AccountMoves ==
    /\ AccountStep
    /\ fetch' # fetch => left.fetched > 0
    /\ IF stripe' \in Snapshots \union {"REVOKED"} /\ stripe' # stripe
          /\ ~(stripe = "NONE" \/ (stripe = "PENDING" /\ stripe' = "READY"))
       THEN Spend("account") ELSE UNCHANGED left
    /\ UNCHANGED <<contactVars, duesVars>>

Next ==
    \/ ContactMoves \/ AccountMoves
    \/ CreatePlan \/ EditPlan \/ SavePlan
    \/ \E s \in Subs :
          \/ Join(s) \/ AttachCheckout(s)
          \/ BeginPayment(s) \/ FirstPaymentFails(s) \/ PayCheckout(s) \/ SessionExpires(s)
          \/ RenewalFails(s) \/ RenewalPaid(s)
          \/ \E status \in Running \union {"canceled"} : SubscriptionChanges(s, status)
          \/ Reconcile(s)
    \/ \E k \in 1..Len(events) : Deliver(k)
    \/ ApplyLookup

Spec == Init /\ [][Next]_vars

(* The six-hourly task fetches the account and uses the answer; Stripe delivers each *)
(* of the account's events in the end.                                               *)
Fairness ==
    /\ WF_vars(left.fetched > 0 /\ FetchByTask /\ UNCHANGED <<contactVars, duesVars, left>>)
    /\ WF_vars(ApplyFetch /\ UNCHANGED <<contactVars, duesVars, left>>)
    /\ \A notice \in Snapshots \union {"REVOKED"} :
          WF_vars(HandleNotice(notice) /\ UNCHANGED <<contactVars, duesVars, left>>)

FairSpec == Spec /\ Fairness

-----------------------------------------------------------------------------
(* Properties *)

TypeOK ==
    /\ ContactTypeOK /\ AccountTypeOK
    /\ sub \in [Subs -> [status : SubStatus, linked : BOOLEAN, plan : [amount : 0..2, price : 0..2]]]
    /\ payment \in [Subs -> [Invoices -> {"NONE", "PAID", "FAILED"}]]
    /\ receipt \in [Subs -> BOOLEAN]
    /\ plan \in [amount : 0..2, price : 0..2] /\ price \in 0..2
    /\ planEdit \in [amount : 0..2, price : 0..2]
    /\ remote \in [Subs -> [session : {"NONE", "open", "complete", "expired"},
                            status : Words, invoices : [Invoices -> {"NONE", "PAID", "FAILED"}]]]
    /\ events \in Seq([kind : {"session", "subscription", "invoice"}, sub : Subs,
                       status : Words \union {"PAID", "FAILED"}, invoice : 0..2])
    /\ lookup \in [sub : 0..Joins, status : Words]
    /\ disordered \in BOOLEAN /\ superseded \subseteq Subs /\ byInvoice \subseteq Subs
    /\ left \in [contact : Nat, account : Nat, fetched : Nat, plan : Nat,
                          join : Nat, billing : Nat, reconcile : Nat]

\* A person with subscriptions keeps the member row they hang on, whatever a manager's
\* form, validated before the first of them, says.
HistoryKept == Subscribed => contact.exists /\ member # "NONE"

\* Once the events have been applied in the order Stripe made them, a subscription past
\* its first payment says what Stripe says, also when its checkout had been given up
\* before; its paid and failed invoices are booked; and whoever paid has a receipt,
\* unless an invoice, which queues none, made the row ACTIVE.  While the first payment is
\* open the row may say CANCELED, given up by a later join, or PAST_DUE, after a failure.
DuesFollowStripe ==
    events = <<>> /\ ~disordered => \A s \in Subs : remote[s].status # "none" =>
        /\ remote[s].status # "incomplete" => sub[s].status = Mapped[remote[s].status]
        /\ \A i \in Invoices : payment[s][i] = remote[s].invoices[i]
        /\ remote[s].invoices[1] = "PAID" => receipt[s] \/ s \in byInvoice

\* Nobody pays twice for one plan, in whatever order the events come, unless the older
\* one had been given up by a later join: its row was INCOMPLETE, the payment not begun,
\* or under way, or a late snapshot having said so once more.
DoubleChargeExplained ==
    \A s, t \in Subs : s < t /\ {remote[s].status, remote[t].status} \subseteq Running
        => s \in superseded

=============================================================================
