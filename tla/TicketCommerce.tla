--------------------------- MODULE TicketCommerce ---------------------------
(***************************************************************************)
(* Paid tickets for ONE event occurrence: from the RSVP that asks for      *)
(* payment, through the reservation of inventory, the Stripe Checkout      *)
(* session and its webhooks, to the order that is paid, expired or failed. *)
(*                                                                         *)
(* Sources: payments/services.py, payments/models.py,                      *)
(* events/registration.py; Stripe is external and modelled from the way    *)
(* payments/ uses it.                                                      *)
(*                                                                         *)
(* Atomicity.  PostgreSQL runs at READ COMMITTED and every service is a    *)
(* @transaction.atomic function that locks rows with select_for_update.    *)
(* A transaction whose effect depends only on rows it has locked is one    *)
(* action.  reserve_ticket_order is not: it holds the registration, the    *)
(* occurrence (locked through select_related) and the ticket type, but it  *)
(* adds up OTHER registrations' orders, holds and participants in separate *)
(* queries, and each query sees whatever was committed when it started.    *)
(* It is therefore one step per query, between the steps of everyone else. *)
(* Foreign keys are DEFERRABLE INITIALLY DEFERRED: a transaction that       *)
(* inserts a row pointing at a locked occurrence waits at its commit.       *)
(***************************************************************************)
EXTENDS Naturals, FiniteSets, FiniteSetsExt

CONSTANTS
    Registrations,  \* contacts that may hold a Registration for the occurrence
    TicketTypes,    \* TicketType rows of the occurrence
    None,           \* no registration, ticket type or order
    MaxOrders,      \* bound: orders ever created
    Capacity,       \* EventOccurrence.capacity
    Quantity,       \* TicketType.quantity of each ticket type
    MaxPerOrder,    \* TicketType.max_per_order
    MaxGuests,      \* Event.max_guests
    Responses,      \* Registration.Response: GOING and the others, which behave alike
    PaidKinds,      \* the events that report one payment: the session completed,
                    \* the payment intent succeeded
    Repeats,        \* bound: the kinds of event that may be handled more than once
    NoReceipt       \* registrations whose contact has lost its e-mail address by
                    \* the time an order is paid: no receipt can be queued

Orders == 1..MaxOrders

ASSUME ConstantsAssumption ==
    /\ MaxOrders \in Nat /\ Capacity \in Nat
    /\ MaxPerOrder \in Nat /\ MaxGuests \in Nat
    /\ Quantity \in [TicketTypes -> Nat]
    /\ PaidKinds \intersect {"declined", "expired"} = {}
    /\ Repeats \subseteq PaidKinds \union {"declined", "expired"}
    /\ NoReceipt \subseteq Registrations
    /\ None \notin Registrations /\ None \notin TicketTypes /\ None \notin Orders

VARIABLES
    registration,   \* Registration rows, with their ACTIVE participants
    order,          \* Order rows, each with its one OrderLine and InventoryHold
    active,         \* ticket types whose is_active flag is set
    clock,          \* the orders 1..clock are past their checkout_expires_at
    session,        \* Stripe's Checkout Session of each order
    webhook,        \* per order and event kind: unsent, sent, processed
    tx,             \* the running reserve_ticket_order transaction: control, locks
    seen,           \* and the results of its queries so far
    late            \* history: orders marked paid without a hold in force

vars == <<registration, order, active, clock, session, webhook, tx, seen, late>>

Payments  == {"NOT_REQUIRED", "PENDING", "PAID", "REFUNDED"}
Statuses  == {"PENDING", "PAID", "FAILED", "EXPIRED", "REFUNDED"}
Settled   == {"PAID", "REFUNDED"}      \* the statuses ticket_inventory calls sold
FailKinds == {"declined", "expired"}   \* intent payment_failed, session expired
Kinds     == PaidKinds \union FailKinds

NoRegistration == [response |-> "NONE", payment |-> "NONE", party |-> 0, ticketedBy |-> None]
NoRow == [status |-> "NONE", registration |-> None, type |-> None,
          quantity |-> 0, hold |-> "NONE", issued |-> 0]
Idle  == [step |-> "idle", registration |-> None, type |-> None, superseded |-> None,
          quantity |-> 0]
Nothing == [now |-> 0, sold |-> 0, held |-> 0, confirmed |-> 0]

Init ==
    /\ registration = [r \in Registrations |-> NoRegistration]
    /\ order = [o \in Orders |-> NoRow]
    /\ active \in SUBSET TicketTypes
    /\ clock = 0
    /\ session = [o \in Orders |-> "none"]
    /\ webhook = [o \in Orders |-> [k \in Kinds |-> "unsent"]]
    /\ tx = Idle /\ seen = Nothing
    /\ late = {}

-----------------------------------------------------------------------------
(* Queries *)

TicketsOf(rows) == SumFunctionOnSet([o \in Orders |-> order[o].quantity], rows)

\* OrderLine.quantity of the orders of a ticket type that count as sold.
SoldOrders == {o \in Orders : order[o].status \in Settled}
Sold(t) == TicketsOf({o \in SoldOrders : order[o].type = t})

\* Orders whose hold is HELD and not past expires_at; the running reservation
\* already sees the hold of the order it supersedes as released.
HeldOrders(now) == {o \in Orders : order[o].hold = "HELD" /\ o > now}
Held(t) == TicketsOf({o \in HeldOrders(clock) : order[o].type = t})
HeldSeenByTx(rows) == TicketsOf(rows \ {tx.superseded})

\* ACTIVE participants of registrations that need no (further) payment.
Confirmed(rows) ==
    MapThenSumSet(LAMBDA r : registration[r].party,
        {r \in rows : registration[r].payment \in {"NOT_REQUIRED", "PAID"}})

PendingOrders(r) == {o \in Orders : order[o].registration = r /\ order[o].status = "PENDING"}
Unused == {o \in Orders : order[o].status = "NONE"}

\* Row locks: reserve_ticket_order holds these until it commits or rolls back.
OccurrenceFree      == tx.step = "idle"
RegistrationFree(r) == tx.registration # r
OrderFree(o)        == tx.superseded # o

-----------------------------------------------------------------------------
(* RSVP: save_response.  It waits for the occurrence lock, so it never runs  *)
(* inside a reservation.  Replacing the participants leaves any ticket they  *)
(* had with a canceled participant (ticketedBy becomes None).                *)
SaveResponse(r, response, guests) ==
    LET paidEvent == active # {}
        party     == IF response = "GOING" THEN 1 + guests ELSE 0
        requested == IF paidEvent THEN 0 ELSE party
        going     == {x \in Registrations \ {r} : registration[x].response = "GOING"}
    IN  /\ OccurrenceFree
        /\ registration[r].payment = "PAID" => response = registration[r].response
        /\ Confirmed(going) + requested <= Capacity
        /\ registration' = [registration EXCEPT ![r] =
              [response   |-> response,
               payment    |-> IF paidEvent /\ response = "GOING"
                              THEN "PENDING" ELSE "NOT_REQUIRED",
               party      |-> party,
               ticketedBy |-> None]]
        /\ UNCHANGED <<order, active, clock, session, webhook, tx, seen, late>>

\* A manager edits a ticket type's is_active flag; the update waits for the
\* row lock a reservation of that type holds.
ToggleActive(t) ==
    /\ tx.type # t
    /\ active' = (active \ {t}) \union ({t} \ active)
    /\ UNCHANGED <<registration, order, clock, session, webhook, tx, seen, late>>

-----------------------------------------------------------------------------
(* reserve_ticket_order, one step per query *)

\* Locks, early returns, the order to supersede and the `sold` query.
ReserveBegin(r, t) ==
    /\ OccurrenceFree
    /\ registration[r].payment = "PENDING"
    /\ registration[r].party \in 1..MaxPerOrder
    /\ t \in active
    /\ \E s \in IF PendingOrders(r) = {} THEN {None} ELSE PendingOrders(r) :
          tx' = [step |-> "sold", registration |-> r, type |-> t, superseded |-> s,
                 quantity |-> registration[r].party]
    /\ seen' = [Nothing EXCEPT !.now = clock, !.sold = Sold(t)]
    /\ UNCHANGED <<registration, order, active, clock, session, webhook, late>>

\* The `held` query of ticket_inventory, which read the time before `sold`.
ReserveReadHeld ==
    /\ tx.step = "sold"
    /\ tx' = [tx EXCEPT !.step = "held"]
    /\ seen' = [seen EXCEPT !.held =
                   HeldSeenByTx({o \in HeldOrders(seen.now) : order[o].type = tx.type})]
    /\ UNCHANGED <<registration, order, active, clock, session, webhook, late>>

\* The `confirmed` query.
ReserveReadConfirmed ==
    /\ tx.step = "held"
    /\ tx' = [tx EXCEPT !.step = "confirmed"]
    /\ seen' = [seen EXCEPT !.confirmed = Confirmed(Registrations)]
    /\ UNCHANGED <<registration, order, active, clock, session, webhook, late>>

\* Mutant: the inventory forgets the holds of checkouts in progress.
EnoughUnsold ==
    /\ seen.sold + tx.quantity <= Quantity[tx.type]
    /\ seen.confirmed + tx.quantity <= Capacity

\* The `other_holds` query over the occurrence decides.
EnoughLeft ==
    /\ seen.sold + seen.held + tx.quantity <= Quantity[tx.type]
    /\ seen.confirmed + HeldSeenByTx(HeldOrders(clock)) + tx.quantity <= Capacity

\* Commit: supersede the earlier pending order, create order, line and hold.
Superseded(rows) ==
    [o \in Orders |-> IF o = tx.superseded
                      THEN [rows[o] EXCEPT !.status = "EXPIRED", !.hold = "RELEASED"]
                      ELSE rows[o]]

ReserveCommit(o) ==
    /\ tx.step = "confirmed"
    /\ EnoughLeft
    /\ o \in Unused /\ \A p \in Unused : o <= p
    /\ order' = [Superseded(order) EXCEPT ![o] =
          [status |-> "PENDING", registration |-> tx.registration, type |-> tx.type,
           quantity |-> tx.quantity, hold |-> "HELD", issued |-> 0]]
    /\ tx' = Idle /\ seen' = Nothing
    /\ UNCHANGED <<registration, active, clock, session, webhook, late>>

\* InventoryUnavailable, a lost connection or a deadlock victim: everything the
\* transaction did, the supersede included, is rolled back.
ReserveRollback ==
    /\ tx.step # "idle"
    /\ tx' = Idle /\ seen' = Nothing
    /\ UNCHANGED <<registration, order, active, clock, session, webhook, late>>

-----------------------------------------------------------------------------
(* Stripe Checkout (external) and attach_checkout_session *)

\* Called once, after the reservation committed; by then another reservation
\* may already have superseded the order.
AttachSession(o) ==
    /\ order[o].status # "NONE" /\ session[o] = "none" /\ o > clock
    /\ session' = [session EXCEPT ![o] = "open"]
    /\ UNCHANGED <<registration, order, active, clock, webhook, tx, seen, late>>

\* The buyer completes the session.  Nothing tells Stripe that an order was
\* superseded or failed here: its session stays payable until it expires.
BuyerPays(o) ==
    /\ session[o] = "open" /\ o > clock
    /\ session' = [session EXCEPT ![o] = "paid"]
    /\ webhook' = [webhook EXCEPT ![o] =
          [k \in Kinds |-> IF k \in PaidKinds THEN "sent" ELSE @[k]]]
    /\ UNCHANGED <<registration, order, active, clock, tx, seen, late>>

\* A declined card: the intent fails, the session stays open for another try.
CardDeclined(o) ==
    /\ session[o] = "open" /\ o > clock /\ webhook[o]["declined"] = "unsent"
    /\ webhook' = [webhook EXCEPT ![o]["declined"] = "sent"]
    /\ UNCHANGED <<registration, order, active, clock, session, tx, seen, late>>

SessionExpires(o) ==
    /\ session[o] = "open" /\ o <= clock
    /\ session' = [session EXCEPT ![o] = "expired"]
    /\ webhook' = [webhook EXCEPT ![o]["expired"] = "sent"]
    /\ UNCHANGED <<registration, order, active, clock, tx, seen, late>>

\* Time passes the checkout_expires_at of the oldest order not yet past it.
ClockPasses ==
    /\ clock < MaxOrders
    /\ order[clock + 1].status # "NONE"
    /\ clock' = clock + 1
    /\ UNCHANGED <<registration, order, active, session, webhook, tx, seen, late>>

-----------------------------------------------------------------------------
(* mark_order_paid and fail_order, and everything that calls them *)

\* Mutant: only a PENDING order can be paid.
PayPendingOnly(o) ==
    LET r == order[o].registration
    IN  /\ OrderFree(o) /\ RegistrationFree(r) /\ OccurrenceFree
        /\ IF order[o].status # "PENDING"
           THEN UNCHANGED <<registration, order>>
           ELSE /\ order' = [order EXCEPT ![o].status = "PAID", ![o].hold = "CONVERTED"]
                /\ registration' = [registration EXCEPT ![r].payment = "PAID"]
        /\ UNCHANGED late

\* Mutant: no early return for an order that is already settled.
PayAgain(o) ==
    LET r == order[o].registration
        issuing == registration[r].party > 0 /\ registration[r].ticketedBy = None
    IN  /\ OrderFree(o) /\ RegistrationFree(r) /\ OccurrenceFree
        /\ order' = [order EXCEPT ![o].status = "PAID", ![o].hold = "CONVERTED",
              ![o].issued = IF issuing THEN registration[r].party ELSE 0]
        /\ registration' = [registration EXCEPT ![r].payment = "PAID",
              ![r].ticketedBy = IF issuing THEN o ELSE @]
        /\ UNCHANGED late

\* Any order that is not yet settled becomes PAID, whatever became of its hold;
\* the registration is PAID and its participants that have none get a ticket.
\* The receipt it queues points at the occurrence, so the commit waits for a
\* reservation (or RSVP) that has the occurrence locked.
MarkOrderPaid(o) ==
    LET r == order[o].registration
        issuing == registration[r].party > 0 /\ registration[r].ticketedBy = None
    IN  /\ OrderFree(o) /\ RegistrationFree(r)
        /\ IF order[o].status \in Settled
           THEN UNCHANGED <<registration, order, late>>
           ELSE /\ r \in NoReceipt \/ OccurrenceFree
                /\ order' = [order EXCEPT ![o].status = "PAID", ![o].hold = "CONVERTED",
                      ![o].issued = IF issuing THEN registration[r].party ELSE 0]
                /\ registration' = [registration EXCEPT ![r].payment = "PAID",
                      ![r].ticketedBy = IF issuing THEN o ELSE @]
                /\ late' = IF o \in HeldOrders(clock) THEN late ELSE late \union {o}

\* Mutant: the hold of a failed order is not released.
FailKeepsHold(o, status) ==
    /\ OrderFree(o)
    /\ order' = IF order[o].status = "PENDING"
                THEN [order EXCEPT ![o].status = status] ELSE order
    /\ UNCHANGED <<registration, late>>

\* Only a PENDING order fails or expires, and only a HELD hold is released.
FailOrder(o, status) ==
    /\ OrderFree(o)
    /\ order' = IF order[o].status = "PENDING"
                THEN [order EXCEPT ![o].status = status,
                         ![o].hold = IF @ = "HELD" THEN "RELEASED" ELSE @]
                ELSE order
    /\ UNCHANGED <<registration, late>>

\* The inbox row is locked while an event is handled and a PROCESSED one returns
\* early, but an attempt that failed while another succeeded writes FAILED over
\* PROCESSED: the event stays to be repeated by Stripe or by the retry command.
\* Deliveries of different events arrive in any order.
Deliver(o, k) ==
    /\ webhook[o][k] = "sent"
    /\ \/ webhook' = [webhook EXCEPT ![o][k] = "processed"]
       \/ k \in Repeats /\ UNCHANGED webhook
    /\ \/ k \in PaidKinds /\ MarkOrderPaid(o)
       \/ k = "declined" /\ FailOrder(o, "FAILED")
       \/ k = "expired" /\ FailOrder(o, "EXPIRED")
    /\ UNCHANGED <<active, clock, session, tx, seen>>

\* Mutant: only orders that reached Stripe are looked at.
ReleaseExpiredSession(o) ==
    /\ order[o].hold = "HELD" /\ o <= clock /\ session[o] = "expired"
    /\ FailOrder(o, "EXPIRED")
    /\ UNCHANGED <<active, clock, session, webhook, tx, seen>>

\* release_expired_holds: the minutely job, and every visit to the checkout.
ReleaseExpiredHold(o) ==
    /\ order[o].hold = "HELD" /\ o <= clock
    /\ FailOrder(o, "EXPIRED")
    /\ UNCHANGED <<active, clock, session, webhook, tx, seen>>

\* Mutant: any session that has not expired counts as paid.
ReconcileUnchecked(o) ==
    /\ order[o].status = "PENDING"
    /\ \/ session[o] \in {"open", "paid"} /\ MarkOrderPaid(o)
       \/ session[o] = "expired" /\ FailOrder(o, "EXPIRED")
    /\ UNCHANGED <<active, clock, session, webhook, tx, seen>>

\* reconcile_site_commerce asks Stripe about a PENDING order with a session.
Reconcile(o) ==
    /\ order[o].status = "PENDING"
    /\ \/ session[o] = "paid" /\ MarkOrderPaid(o)
       \/ session[o] = "expired" /\ FailOrder(o, "EXPIRED")
    /\ UNCHANGED <<active, clock, session, webhook, tx, seen>>

\* A refund of the whole order succeeds (RefundLedger has the full story); the
\* write to the registration row waits for a reservation that holds it.
RefundInFull(o) ==
    LET r == order[o].registration
    IN  /\ order[o].status = "PAID"
        /\ RegistrationFree(r)
        /\ order' = [order EXCEPT ![o].status = "REFUNDED"]
        /\ registration' = [registration EXCEPT ![r].payment = "REFUNDED"]
        /\ UNCHANGED <<active, clock, session, webhook, tx, seen, late>>

-----------------------------------------------------------------------------
Next ==
    \/ \E r \in Registrations, response \in Responses :
          \/ SaveResponse(r, response, 0)
          \/ \E g \in 1..MaxGuests : response = "GOING" /\ SaveResponse(r, response, g)
    \/ \E t \in TicketTypes : ToggleActive(t)
    \/ \E r \in Registrations, t \in TicketTypes : ReserveBegin(r, t)
    \/ ReserveReadHeld \/ ReserveReadConfirmed \/ ReserveRollback
    \/ \E o \in Orders :
          \/ ReserveCommit(o)
          \/ AttachSession(o) \/ BuyerPays(o) \/ CardDeclined(o) \/ SessionExpires(o)
          \/ \E k \in Kinds : Deliver(o, k)
          \/ ReleaseExpiredHold(o) \/ Reconcile(o) \/ RefundInFull(o)
    \/ ClockPasses

Spec == Init /\ [][Next]_vars

(* PostgreSQL queues waiters on a row lock and Stripe and the retry command  *)
(* repeat an unprocessed event, so a payment event that can be handled again *)
(* and again eventually is (strong fairness); so is a hold the minutely job  *)
(* keeps finding.  A transaction does not stay open: it ends, or its         *)
(* connection is dropped.                                                    *)
Fairness ==
    /\ WF_vars(ReserveRollback)
    /\ \A o \in Orders :
          /\ SF_vars(ReleaseExpiredHold(o))
          /\ \A k \in PaidKinds : SF_vars(Deliver(o, k))

FairSpec == Spec /\ Fairness

-----------------------------------------------------------------------------
(* Properties *)

OrderRows == [status : Statuses, registration : Registrations, type : TicketTypes,
              quantity : 1..(1 + MaxGuests), hold : {"HELD", "CONVERTED", "RELEASED"},
              issued : 0..(1 + MaxGuests)]

\* Every variable holds a value the tables, Stripe or the transaction can hold.
TypeOK ==
    /\ registration \in [Registrations ->
          {NoRegistration} \union
          [response : Responses, payment : Payments, party : 0..(1 + MaxGuests),
           ticketedBy : Orders \union {None}]]
    /\ order \in [Orders -> {NoRow} \union OrderRows]
    /\ active \subseteq TicketTypes
    /\ clock \in 0..MaxOrders
    /\ session \in [Orders -> {"none", "open", "paid", "expired"}]
    /\ webhook \in [Orders -> [Kinds -> {"unsent", "sent", "processed"}]]
    /\ tx \in {Idle} \union
             [step : {"sold", "held", "confirmed"}, registration : Registrations,
              type : TicketTypes, superseded : Orders \union {None},
              quantity : 1..(1 + MaxGuests)]
    /\ late \subseteq Orders

\* The inventory hold always tells the order's story: HELD exactly while the
\* order is PENDING, CONVERTED exactly when it was paid, RELEASED otherwise,
\* whichever of webhooks, release job, reconciliation and supersede ran.
HoldTracksOrder ==
    \A o \in Orders :
        /\ order[o].hold = "HELD" <=> order[o].status = "PENDING"
        /\ order[o].hold = "CONVERTED" <=> order[o].status \in Settled

\* However often a buyer restarts checkout, a registration has at most one
\* PENDING order, so at most one hold counts against the inventory.
OnePendingOrder ==
    \A r \in Registrations : \A o, p \in PendingOrders(r) : o = p

\* The row locks do their work: under a reservation the registration keeps
\* awaiting payment with the party that was counted, its only PENDING order is
\* the one being superseded, and that one stays PENDING until the commit.
LocksHold ==
    tx.step # "idle" =>
        /\ registration[tx.registration].payment = "PENDING"
        /\ registration[tx.registration].party = tx.quantity
        /\ PendingOrders(tx.registration) = {tx.superseded} \ {None}

\* Only captured money settles an order: a paid or refunded order has a paid
\* Checkout Session, and a ticket on a current participant comes from such an
\* order of the same registration.
SettledMeansCaptured ==
    /\ \A o \in SoldOrders : session[o] = "paid"
    /\ \A r \in Registrations :
          registration[r].ticketedBy # None =>
             /\ registration[r].ticketedBy \in SoldOrders
             /\ order[registration[r].ticketedBy].registration = r

\* A registration that says PAID rests on a settled order of its own, also after
\* re-saved responses, refunds and late payments.
PaidRestsOnOrder ==
    \A r \in Registrations :
        registration[r].payment = "PAID" => \E o \in SoldOrders : order[o].registration = r

\* Duplicate, contradictory or late events never undo a sale or cut its tickets
\* again ("A duplicate payment webhook cannot create duplicate tickets or
\* revenue"): a settled order stays settled with the tickets it issued.
SettledIsFinal ==
    [][\A o \in SoldOrders : order'[o].status \in Settled
                             /\ order'[o].issued = order[o].issued]_vars

\* The order of the buyer's view (OrderLifecycle): whether it is open, given up or
\* settled, and whether its money was captured.
PhaseOf(status) ==
    IF status = "NONE" THEN "none"
    ELSE IF status = "PENDING" THEN "open"
    ELSE IF status \in Settled THEN "settled" ELSE "void"

Lifecycle == INSTANCE OrderLifecycle WITH
    owner    <- [o \in Orders |-> order[o].registration],
    phase    <- [o \in Orders |-> PhaseOf(order[o].status)],
    captured <- {o \in Orders : session[o] = "paid"}

\* Holds, locks, webhooks and jobs together keep the promises of OrderLifecycle.
KeepsPromises == Lifecycle!Spec

\* "Two buyers cannot oversell the last available ticket": a ticket type is
\* oversold by no more than the orders paid after their hold had gone (the code
\* honours those).  The lock on the ticket type alone does not ensure it: the
\* commit that converts a hold must also stay out of the two inventory queries.
OversellExplained ==
    \A t \in TicketTypes :
        Sold(t) + Held(t)
            <= Quantity[t] + TicketsOf({o \in late : order[o].type = t})

\* Money that Stripe captured is never forgotten: the order is settled in the
\* end, even if it was superseded, expired or failed meanwhile.
CapturedIsHonoured ==
    \A o \in Orders : session[o] = "paid" ~> order[o].status \in Settled

\* "Temporary inventory holds expire automatically": an order does not stay
\* PENDING once its checkout window is over.
HoldsExpire ==
    \A o \in Orders :
        (order[o].status = "PENDING" /\ o <= clock) ~> order[o].status # "PENDING"

\* "Confirmed active participants never exceed capacity", when nobody paid after
\* losing the hold.
CapacityKept == late = {} => Confirmed(Registrations) <= Capacity

=============================================================================
