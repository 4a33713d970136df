------------------------ MODULE TicketCommerceProofs ------------------------
(***************************************************************************)
(* Theorems about TicketCommerce for any number of registrations, ticket   *)
(* types and orders.  The inductive invariant is the conjunction of the    *)
(* invariants the runs check and of EventsTruthful, which ties what the    *)
(* inbox may deliver to what Stripe did.                                   *)
(***************************************************************************)
EXTENDS TicketCommerce, SumTheorems

\* An order belongs to an existing registration and a session to an existing
\* order, and an event that reports a payment
\* is only sent once the session is paid.
EventsTruthful ==
    /\ \A o \in Orders : order[o].status # "NONE" =>
          registration[order[o].registration].payment # "NONE"
    /\ \A o \in Orders : session[o] # "none" => order[o].status # "NONE"
    /\ \A o \in Orders : \A k \in PaidKinds : webhook[o][k] # "unsent" => session[o] = "paid"

IInv ==
    /\ TypeOK /\ HoldTracksOrder /\ OnePendingOrder /\ LocksHold
    /\ EventsTruthful /\ SettledMeansCaptured /\ PaidRestsOnOrder

THEOREM InitIInv == Init => IInv
  <1> SUFFICES ASSUME Init PROVE IInv
    OBVIOUS
  <1> USE ConstantsAssumption DEF Init, Orders, NoRow, NoRegistration, Idle
  <1>1. TypeOK
    BY DEF TypeOK, Kinds
  <1>2. HoldTracksOrder /\ OnePendingOrder /\ LocksHold
    BY DEF HoldTracksOrder, OnePendingOrder, LocksHold, PendingOrders, Settled
  <1>3. EventsTruthful /\ SettledMeansCaptured /\ PaidRestsOnOrder
    BY DEF EventsTruthful, SettledMeansCaptured, PaidRestsOnOrder, SoldOrders, Settled, Kinds
  <1>4. QED
    BY <1>1, <1>2, <1>3 DEF IInv

-----------------------------------------------------------------------------
(* What the rows of an existing order and of a running transaction hold *)

LEMMA RowFacts ==
    ASSUME TypeOK
    PROVE  /\ \A o \in Orders : order[o].status # "NONE" => order[o] \in OrderRows
           /\ \A o \in Orders : order[o] \in OrderRows => order[o].status \in Statuses
           /\ \A o \in Orders : order[o].registration \in Registrations => order[o] \in OrderRows
           /\ \A r \in Registrations : registration[r].party \in 0..(1 + MaxGuests)
           /\ tx.step # "idle" => tx.registration \in Registrations
           /\ tx.step = "idle" => tx = Idle
  BY ConstantsAssumption DEF TypeOK, OrderRows, NoRow, NoRegistration, Idle, Statuses

-----------------------------------------------------------------------------
(* The RSVP *)

\* A response can only touch the registration row, and never under a reservation.
LEMMA SaveResponseStep ==
    ASSUME IInv, NEW r \in Registrations, NEW response \in Responses,
           NEW guests \in 0..MaxGuests, SaveResponse(r, response, guests)
    PROVE  IInv'
  <1> USE ConstantsAssumption, RowFacts DEF IInv, SaveResponse
  <1>1. TypeOK'
    BY DEF TypeOK, Payments, OrderRows
  <1>2. HoldTracksOrder' /\ OnePendingOrder' /\ EventsTruthful'
    BY DEF HoldTracksOrder, OnePendingOrder, EventsTruthful, PendingOrders, TypeOK, OrderRows
  <1>3. LocksHold'
    BY DEF LocksHold, OccurrenceFree
  <1>4. SettledMeansCaptured'
    BY DEF SettledMeansCaptured, SoldOrders, TypeOK
  <1>5. PaidRestsOnOrder'
    BY DEF PaidRestsOnOrder, SoldOrders, TypeOK
  <1>6. QED
    BY <1>1, <1>2, <1>3, <1>4, <1>5

\* Activating or deactivating a ticket type touches nothing else.
LEMMA ToggleActiveStep ==
    ASSUME IInv, NEW t \in TicketTypes, ToggleActive(t)
    PROVE  IInv'
  BY DEF IInv, ToggleActive, TypeOK, HoldTracksOrder, OnePendingOrder, PendingOrders,
         LocksHold, EventsTruthful, SettledMeansCaptured, SoldOrders, PaidRestsOnOrder

-----------------------------------------------------------------------------
(* The reservation *)

\* Taking the locks establishes LocksHold: the registration awaits payment and
\* OnePendingOrder makes the superseded order its only pending one.
LEMMA ReserveBeginStep ==
    ASSUME IInv, NEW r \in Registrations, NEW t \in TicketTypes, ReserveBegin(r, t)
    PROVE  IInv'
  <1> USE ConstantsAssumption, RowFacts DEF IInv, ReserveBegin
  <1>1. PICK s \in IF PendingOrders(r) = {} THEN {None} ELSE PendingOrders(r) :
           tx' = [step |-> "sold", registration |-> r, type |-> t, superseded |-> s,
                  quantity |-> registration[r].party]
    OBVIOUS
  <1>3. TypeOK'
    <2>1. s \in Orders \union {None}
      BY <1>1 DEF PendingOrders
    <2>2. registration[r].party \in 1..(1 + MaxGuests)
      OBVIOUS
    <2>3. QED
      BY <1>1, <2>1, <2>2 DEF TypeOK, OrderRows
  <1>4. HoldTracksOrder' /\ OnePendingOrder' /\ EventsTruthful'
        /\ SettledMeansCaptured' /\ PaidRestsOnOrder'
    BY DEF HoldTracksOrder, OnePendingOrder, EventsTruthful, PendingOrders,
           SettledMeansCaptured, SoldOrders, PaidRestsOnOrder
  <1>5. LocksHold'
    <2>1. PendingOrders(r) = {s} \ {None}
      BY <1>1 DEF OnePendingOrder, PendingOrders
    <2>2. QED
      BY <1>1, <2>1 DEF LocksHold, PendingOrders
  <1>6. QED
    BY <1>3, <1>4, <1>5

\* A query of the reservation records what it saw and nothing else; ending the
\* transaction releases its locks.
LEMMA ReserveReadStep ==
    ASSUME IInv, ReserveReadHeld \/ ReserveReadConfirmed \/ ReserveRollback
    PROVE  IInv'
  <1> USE RowFacts DEF IInv
  <1>1. /\ UNCHANGED <<registration, order, active, clock, session, webhook, late>>
        /\ \/ tx' = Idle
           \/ tx.step # "idle" /\ tx' = [tx EXCEPT !.step = "held"]
           \/ tx.step # "idle" /\ tx' = [tx EXCEPT !.step = "confirmed"]
    BY DEF ReserveReadHeld, ReserveReadConfirmed, ReserveRollback
  <1>2. TypeOK'
    <2>1. tx' \in {Idle} \union
               [step : {"sold", "held", "confirmed"}, registration : Registrations,
                type : TicketTypes, superseded : Orders \union {None},
                quantity : 1..(1 + MaxGuests)]
      <3>1. CASE tx.step = "idle"
        BY <1>1, <3>1
      <3>2. CASE tx.step # "idle"
        <4>1. tx \in [step : {"sold", "held", "confirmed"}, registration : Registrations,
                      type : TicketTypes, superseded : Orders \union {None},
                      quantity : 1..(1 + MaxGuests)]
          BY <3>2 DEF TypeOK, Idle
        <4>2. QED
          BY <1>1, <4>1
      <3>3. QED
        BY <3>1, <3>2
    <2>2. QED
      BY <1>1, <2>1 DEF TypeOK, OrderRows
  <1>3. LocksHold'
    <2>1. CASE tx' = Idle
      BY <2>1 DEF LocksHold, Idle
    <2>2. CASE tx.step # "idle" /\ \E x \in {"held", "confirmed"} : tx' = [tx EXCEPT !.step = x]
      <3>1. /\ tx'.registration = tx.registration /\ tx'.superseded = tx.superseded
            /\ tx'.quantity = tx.quantity
        BY <2>2 DEF TypeOK
      <3>2. QED
        BY <1>1, <2>2, <3>1 DEF LocksHold, PendingOrders
    <2>3. QED
      BY <1>1, <2>1, <2>2
  <1>4. HoldTracksOrder' /\ OnePendingOrder' /\ EventsTruthful'
        /\ SettledMeansCaptured' /\ PaidRestsOnOrder'
    BY <1>1 DEF HoldTracksOrder, OnePendingOrder, EventsTruthful, PendingOrders,
           SettledMeansCaptured, SoldOrders, PaidRestsOnOrder
  <1>5. QED
    BY <1>2, <1>3, <1>4

\* The commit swaps the superseded order for the new one in a single step, so
\* the registration never has two pending orders.
LEMMA ReserveCommitStep ==
    ASSUME IInv, NEW o \in Orders, ReserveCommit(o)
    PROVE  IInv'
  <1> DEFINE new == [status |-> "PENDING", registration |-> tx.registration,
                     type |-> tx.type, quantity |-> tx.quantity, hold |-> "HELD",
                     issued |-> 0]
             r == tx.registration
             s == tx.superseded
  <1> USE ConstantsAssumption, RowFacts DEF IInv
  <1>1. /\ tx.step # "idle" /\ tx' = Idle
        /\ order[o].status = "NONE"
        /\ UNCHANGED <<registration, active, clock, session, webhook, late>>
    BY DEF ReserveCommit, Unused
  <1>2. PendingOrders(r) = {s} \ {None}
    BY <1>1 DEF LocksHold
  <1>3. tx \in [step : {"sold", "held", "confirmed"}, registration : Registrations,
                type : TicketTypes, superseded : Orders \union {None},
                quantity : 1..(1 + MaxGuests)]
    BY <1>1 DEF TypeOK, Idle
  <1>4. new \in OrderRows
    BY <1>3 DEF OrderRows, Statuses
  <1>5. \A p \in Orders :
           order'[p] = IF p = o THEN new
                       ELSE IF p = s THEN [order[p] EXCEPT !.status = "EXPIRED",
                                                           !.hold = "RELEASED"]
                       ELSE order[p]
    BY DEF ReserveCommit, Superseded, TypeOK
  <1>6. s \in Orders => order[s].status = "PENDING" /\ order[s].registration = r /\ s # o
    BY <1>1, <1>2 DEF PendingOrders
  <1>7. TypeOK'
    <2>1. order' \in [Orders -> {NoRow} \union OrderRows]
      <3>1. DOMAIN order' = Orders /\ order' = [p \in Orders |-> order'[p]]
        BY DEF ReserveCommit, Superseded
      <3>2. ASSUME NEW p \in Orders PROVE order'[p] \in {NoRow} \union OrderRows
        <4>1. CASE p = o
          BY <1>4, <1>5, <4>1
        <4>2. CASE p # o /\ p = s
          <5>1. order[p] \in OrderRows
            BY <1>6, <4>2
          <5>2. order'[p] = [order[p] EXCEPT !.status = "EXPIRED", !.hold = "RELEASED"]
            BY <1>5, <4>2
          <5>3. QED
            BY <5>1, <5>2 DEF OrderRows, Statuses
        <4>3. CASE p # o /\ p # s
          BY <1>5, <4>3 DEF TypeOK
        <4>4. QED
          BY <4>1, <4>2, <4>3
      <3>3. QED
        BY <3>1, <3>2
    <2>2. QED
      BY <1>1, <2>1 DEF TypeOK, OrderRows
  <1>8. \A p \in Orders :
           /\ p # o /\ p # s => order'[p] = order[p]
           /\ p = s /\ p # o => /\ order'[p].status = "EXPIRED" /\ order'[p].hold = "RELEASED"
                               /\ order'[p].registration = r
           /\ p = o => /\ order'[p].status = "PENDING" /\ order'[p].hold = "HELD"
                       /\ order'[p].registration = r
    <2>1. s \in Orders => order[s] \in OrderRows
      BY <1>6
    <2>2. s \in Orders /\ s # o =>
             order'[s] = [order[s] EXCEPT !.status = "EXPIRED", !.hold = "RELEASED"]
      BY <1>5
    <2>3. s \in Orders /\ s # o =>
             /\ order'[s].status = "EXPIRED" /\ order'[s].hold = "RELEASED"
             /\ order'[s].registration = r
      BY <1>6, <2>1, <2>2 DEF OrderRows
    <2>4. \A p \in Orders : p # o /\ p # s => order'[p] = order[p]
      BY <1>5
    <2>5. order'[o] = new
      BY <1>5
    <2>6. QED
      BY <2>3, <2>4, <2>5
  <1>9. HoldTracksOrder'
    BY <1>8 DEF HoldTracksOrder, Settled
  <1>10. OnePendingOrder'
    BY <1>2, <1>8 DEF OnePendingOrder, PendingOrders
  <1>11. LocksHold'
    BY <1>1 DEF LocksHold, Idle
  <1>12. EventsTruthful'
    BY <1>1, <1>3, <1>6, <1>8 DEF EventsTruthful, LocksHold
  <1>13. /\ SoldOrders' = SoldOrders
         /\ \A p \in SoldOrders : order'[p].registration = order[p].registration
    BY <1>1, <1>6, <1>8 DEF SoldOrders, Settled
  <1>14. SettledMeansCaptured' /\ PaidRestsOnOrder'
    BY <1>1, <1>13 DEF SettledMeansCaptured, PaidRestsOnOrder
  <1>15. QED
    BY <1>7, <1>9, <1>10, <1>11, <1>12, <1>14

-----------------------------------------------------------------------------
(* Stripe, the buyer and the clock *)

\* Stripe and the clock touch no row of ours, and Stripe announces a payment
\* only in the step that makes it.
LEMMA StripeStep ==
    ASSUME IInv, NEW o \in Orders,
           \/ AttachSession(o) \/ BuyerPays(o) \/ CardDeclined(o)
           \/ SessionExpires(o) \/ ClockPasses
    PROVE  IInv'
  <1> USE ConstantsAssumption DEF IInv
  <1>1. UNCHANGED <<registration, order, active, tx, seen, late>>
    BY DEF AttachSession, BuyerPays, CardDeclined, SessionExpires, ClockPasses
  <1>2. TypeOK'
    <2>1. /\ session' \in [Orders -> {"none", "open", "paid", "expired"}]
          /\ clock' \in 0..MaxOrders
      BY DEF TypeOK, AttachSession, BuyerPays, CardDeclined, SessionExpires, ClockPasses
    <2>2. webhook' \in [Orders -> [Kinds -> {"unsent", "sent", "processed"}]]
      <3> USE DEF TypeOK, Kinds, FailKinds
      <3>1. CASE UNCHANGED webhook
        BY <3>1
      <3>2. CASE BuyerPays(o)
        BY <3>2 DEF BuyerPays
      <3>3. CASE CardDeclined(o)
        BY <3>3 DEF CardDeclined
      <3>4. CASE SessionExpires(o)
        BY <3>4 DEF SessionExpires
      <3>5. QED
        BY <3>1, <3>2, <3>3, <3>4 DEF AttachSession, ClockPasses
    <2>3. QED
      BY <1>1, <2>1, <2>2 DEF TypeOK, OrderRows
  <1>3. HoldTracksOrder' /\ OnePendingOrder' /\ LocksHold' /\ PaidRestsOnOrder'
    BY <1>1 DEF HoldTracksOrder, OnePendingOrder, LocksHold, PendingOrders,
                PaidRestsOnOrder, SoldOrders
  <1>4. EventsTruthful'
    <2> USE DEF EventsTruthful, TypeOK
    <2>1. CASE AttachSession(o)
      BY <2>1 DEF AttachSession
    <2>2. CASE BuyerPays(o)
      BY <2>2 DEF BuyerPays, Kinds
    <2>3. CASE CardDeclined(o)
      BY <2>3 DEF CardDeclined, Kinds
    <2>4. CASE SessionExpires(o)
      <3>1. \A p \in Orders : \A k \in PaidKinds :
               session[p] # "open" => webhook'[p][k] = webhook[p][k]
        BY <2>4 DEF SessionExpires, Kinds
      <3>2. \A k \in PaidKinds : webhook'[o][k] = webhook[o][k]
        BY <2>4 DEF SessionExpires, Kinds
      <3>3. QED
        BY <2>4, <3>1, <3>2 DEF SessionExpires
    <2>5. CASE ClockPasses
      BY <2>5 DEF ClockPasses
    <2>6. QED
      BY <2>1, <2>2, <2>3, <2>4, <2>5
  <1>5. SettledMeansCaptured'
    BY <1>1 DEF SettledMeansCaptured, SoldOrders, Settled, TypeOK, AttachSession, BuyerPays,
           CardDeclined, SessionExpires, ClockPasses
  <1>6. QED
    BY <1>2, <1>3, <1>4, <1>5

-----------------------------------------------------------------------------
(* The handlers.  Inbox(o) is what a handler may do to the inbox: nothing, or *)
(* mark an event that was sent as processed.                                 *)

Inbox(o) ==
    /\ UNCHANGED <<active, clock, session, tx>>
    /\ \/ UNCHANGED webhook
       \/ \E k \in Kinds : /\ webhook[o][k] = "sent"
                           /\ webhook' = [webhook EXCEPT ![o][k] = "processed"]

LEMMA InboxFacts ==
    ASSUME TypeOK, NEW o \in Orders, Inbox(o)
    PROVE  /\ webhook' \in [Orders -> [Kinds -> {"unsent", "sent", "processed"}]]
           /\ \A p \in Orders : \A k \in Kinds :
                 webhook'[p][k] # "unsent" => webhook[p][k] # "unsent"
  <1>1. CASE UNCHANGED webhook
    BY <1>1 DEF TypeOK
  <1>2. ASSUME NEW k \in Kinds, webhook[o][k] = "sent",
               webhook' = [webhook EXCEPT ![o][k] = "processed"]
        PROVE  /\ webhook' \in [Orders -> [Kinds -> {"unsent", "sent", "processed"}]]
               /\ \A p \in Orders : \A x \in Kinds :
                     webhook'[p][x] # "unsent" => webhook[p][x] # "unsent"
    <2>1. webhook \in [Orders -> [Kinds -> {"unsent", "sent", "processed"}]]
      BY DEF TypeOK
    <2>2. QED
      BY <1>2, <2>1
  <1>3. QED
    BY <1>1, <1>2 DEF Inbox

\* Marking an order paid: the hold follows the status, the registration points
\* at a settled order of its own, and no row a reservation locked is touched.
LEMMA MarkOrderPaidStep ==
    ASSUME IInv, NEW o \in Orders, MarkOrderPaid(o), Inbox(o), session[o] = "paid"
    PROVE  IInv'
  <1> DEFINE r == order[o].registration
             issuing == registration[r].party > 0 /\ registration[r].ticketedBy = None
  <1> USE DEF IInv
  <1>1. order[o] \in OrderRows /\ r \in Registrations
    BY RowFacts DEF EventsTruthful, OrderRows
  <1>2. /\ UNCHANGED <<active, clock, session, tx>>
        /\ tx.superseded # o /\ tx.registration # r
    BY DEF Inbox, MarkOrderPaid, OrderFree, RegistrationFree
  <1>3. CASE order[o].status \in Settled
    <2>1. UNCHANGED <<registration, order, late>>
      BY <1>3 DEF MarkOrderPaid
    <2>2. TypeOK'
      BY <1>2, <2>1, InboxFacts DEF TypeOK, OrderRows
    <2>3. EventsTruthful'
      BY <1>2, <2>1, InboxFacts DEF EventsTruthful, Kinds
    <2>4. QED
      BY <1>2, <2>1, <2>2, <2>3 DEF HoldTracksOrder, OnePendingOrder, LocksHold, PendingOrders,
            SettledMeansCaptured, SoldOrders, PaidRestsOnOrder
  <1>4. CASE order[o].status \notin Settled
    <2>1. /\ order' = [order EXCEPT ![o] = order'[o]]
          /\ order'[o] \in OrderRows
          /\ order'[o].status = "PAID" /\ order'[o].hold = "CONVERTED"
          /\ order'[o].registration = r
          /\ \A p \in Orders : p # o => order'[p] = order[p]
      <3>1. order' = [order EXCEPT ![o].status = "PAID", ![o].hold = "CONVERTED",
                         ![o].issued = IF issuing THEN registration[r].party ELSE 0]
        BY <1>4 DEF MarkOrderPaid
      <3>2. order'[o] = [order[o] EXCEPT !.status = "PAID", !.hold = "CONVERTED",
                            !.issued = IF issuing THEN registration[r].party ELSE 0]
        BY <3>1 DEF TypeOK
      <3>3. registration[r].party \in 0..(1 + MaxGuests) /\ 0 \in 0..(1 + MaxGuests)
        BY <1>1, RowFacts, ConstantsAssumption
      <3>4. order'[o] \in OrderRows
        BY <1>1, <3>2, <3>3 DEF OrderRows, Statuses
      <3>5. order'[o].status = "PAID" /\ order'[o].hold = "CONVERTED" /\ order'[o].registration = r
        BY <1>1, <3>2 DEF OrderRows
      <3>6. \A p \in Orders : p # o => order'[p] = order[p]
        BY <3>1 DEF TypeOK
      <3>7. order' = [order EXCEPT ![o] = order'[o]]
        BY <3>1, <3>2
      <3>8. QED
        BY <3>4, <3>5, <3>6, <3>7
    <2>2. /\ registration' = [registration EXCEPT ![r] = registration'[r]]
          /\ registration'[r] = [registration[r] EXCEPT !.payment = "PAID",
                                   !.ticketedBy = IF issuing THEN o ELSE @]
      <3>1. registration' = [registration EXCEPT ![r].payment = "PAID",
                               ![r].ticketedBy = IF issuing THEN o ELSE @]
        BY <1>4 DEF MarkOrderPaid
      <3>2. QED
        BY <1>1, <3>1 DEF TypeOK
    <2>3. registration[r] \in [response : Responses, payment : Payments,
                               party : 0..(1 + MaxGuests), ticketedBy : Orders \union {None}]
      BY <1>1 DEF EventsTruthful, TypeOK, NoRegistration, OrderRows, Statuses
    <2>4. /\ registration'[r] \in [response : Responses, payment : Payments,
                               party : 0..(1 + MaxGuests), ticketedBy : Orders \union {None}]
          /\ registration'[r].payment = "PAID"
          /\ registration'[r].ticketedBy \in {o, registration[r].ticketedBy}
      BY <2>2, <2>3 DEF Payments
    <2>5. TypeOK'
      <3>1. order' \in [Orders -> {NoRow} \union OrderRows]
        BY <2>1 DEF TypeOK
      <3>2. registration' \in [Registrations -> {NoRegistration} \union
               [response : Responses, payment : Payments, party : 0..(1 + MaxGuests),
                ticketedBy : Orders \union {None}]]
        BY <2>2, <2>4 DEF TypeOK
      <3>3. late' \subseteq Orders
        BY <1>4 DEF MarkOrderPaid, TypeOK
      <3>4. QED
        BY <1>2, <3>1, <3>2, <3>3, InboxFacts DEF TypeOK, OrderRows
    <2>6. HoldTracksOrder'
      BY <2>1 DEF HoldTracksOrder, Settled
    <2>7. OnePendingOrder' /\ LocksHold'
      <3>1. \A x \in Registrations : PendingOrders(x)' = PendingOrders(x) \ {o}
        BY <2>1 DEF PendingOrders
      <3>2. OnePendingOrder'
        BY <3>1 DEF OnePendingOrder
      <3>3. CASE tx.step # "idle"
        <4>1. registration'[tx.registration] = registration[tx.registration]
          BY <1>2, <2>2, <3>3, RowFacts DEF TypeOK
        <4>2. o \notin PendingOrders(tx.registration)
          BY <1>2, <3>3 DEF PendingOrders
        <4>3. QED
          BY <1>2, <3>1, <3>2, <3>3, <4>1, <4>2, RowFacts DEF LocksHold
      <3>4. CASE tx.step = "idle"
        BY <1>2, <3>2, <3>4 DEF LocksHold
      <3>5. QED
        BY <3>3, <3>4
    <2>8. /\ SoldOrders' = SoldOrders \union {o}
          /\ \A p \in Orders : order'[p].registration = order[p].registration
      BY <2>1 DEF SoldOrders, Settled
    <2>9. SettledMeansCaptured' /\ PaidRestsOnOrder'
      <3>1. \A x \in Registrations : x # r => registration'[x] = registration[x]
        BY <2>2 DEF TypeOK
      <3>2. PaidRestsOnOrder'
        BY <1>1, <2>8, <3>1 DEF PaidRestsOnOrder, SoldOrders
      <3>3. \A x \in Registrations :
               registration'[x].ticketedBy # None =>
                  \/ x = r /\ registration'[x].ticketedBy = o
                  \/ registration'[x].ticketedBy = registration[x].ticketedBy
        BY <2>4, <3>1
      <3>4. SettledMeansCaptured'
        BY <1>1, <1>2, <2>8, <3>3 DEF SettledMeansCaptured, SoldOrders
      <3>5. QED
        BY <3>2, <3>4
    <2>10. EventsTruthful'
      <3>1. \A p \in Orders : order'[p].status = "NONE" <=> order[p].status = "NONE"
        BY <1>1, <2>1 DEF OrderRows, Statuses
      <3>2. \A x \in Registrations :
               registration[x].payment # "NONE" => registration'[x].payment # "NONE"
        BY <2>2, <2>4 DEF TypeOK
      <3>3. \A p \in Orders : order[p].status # "NONE" => order[p].registration \in Registrations
        BY RowFacts DEF OrderRows
      <3>4. QED
        BY <1>2, <2>8, <3>1, <3>2, <3>3, InboxFacts DEF EventsTruthful, Kinds
    <2>11. QED
      BY <2>5, <2>6, <2>7, <2>9, <2>10
  <1>5. QED
    BY <1>3, <1>4

\* Failing an order ends it only while it is PENDING, and never the order a
\* reservation is superseding.
LEMMA FailOrderStep ==
    ASSUME IInv, NEW o \in Orders, NEW status \in {"FAILED", "EXPIRED"},
           FailOrder(o, status), Inbox(o)
    PROVE  IInv'
  <1> USE ConstantsAssumption, RowFacts, InboxFacts DEF IInv
  <1>1. /\ UNCHANGED <<registration, active, clock, session, tx, late>>
        /\ tx.superseded # o
    BY DEF Inbox, FailOrder, OrderFree
  <1>2. CASE order[o].status # "PENDING"
    <2>1. order' = order
      BY <1>2 DEF FailOrder
    <2>2. TypeOK'
      BY <1>1, <2>1 DEF TypeOK, OrderRows
    <2>3. QED
      BY <1>1, <2>1, <2>2 DEF HoldTracksOrder, OnePendingOrder, LocksHold, PendingOrders,
            SettledMeansCaptured, SoldOrders, PaidRestsOnOrder, EventsTruthful, Kinds
  <1>3. CASE order[o].status = "PENDING"
    <2>1. order[o] \in OrderRows /\ order[o].hold = "HELD"
      BY <1>3 DEF HoldTracksOrder
    <2>2. /\ order' = [order EXCEPT ![o] = order'[o]]
          /\ order'[o] \in OrderRows
          /\ order'[o].status = status /\ order'[o].hold = "RELEASED"
          /\ order'[o].registration = order[o].registration
          /\ \A p \in Orders : p # o => order'[p] = order[p]
      BY <1>3, <2>1 DEF FailOrder, TypeOK, OrderRows, Statuses
    <2>3. TypeOK'
      BY <1>1, <2>2 DEF TypeOK, OrderRows
    <2>4. HoldTracksOrder'
      BY <2>2 DEF HoldTracksOrder, Settled
    <2>5. \A x \in Registrations : PendingOrders(x)' = PendingOrders(x) \ {o}
      BY <2>2 DEF PendingOrders
    <2>6. OnePendingOrder'
      BY <2>5 DEF OnePendingOrder
    <2>7. LocksHold'
      <3>1. CASE tx.step = "idle"
        BY <1>1, <3>1 DEF LocksHold
      <3>2. CASE tx.step # "idle"
        <4>1. o \notin PendingOrders(tx.registration)
          BY <1>1, <3>2 DEF LocksHold
        <4>2. QED
          BY <1>1, <2>5, <3>2, <4>1 DEF LocksHold
      <3>3. QED
        BY <3>1, <3>2
    <2>8. /\ SoldOrders' = SoldOrders
          /\ \A p \in Orders : order'[p].registration = order[p].registration
          /\ \A p \in Orders : order'[p].status = "NONE" <=> order[p].status = "NONE"
      BY <1>3, <2>2 DEF SoldOrders, Settled
    <2>9. SettledMeansCaptured'
      BY <1>1, <2>8 DEF SettledMeansCaptured, SoldOrders
    <2>10. PaidRestsOnOrder'
      BY <1>1, <2>8 DEF PaidRestsOnOrder, SoldOrders
    <2>11. EventsTruthful'
      BY <1>1, <2>8 DEF EventsTruthful, Kinds
    <2>12. QED
      BY <2>3, <2>4, <2>6, <2>7, <2>9, <2>10, <2>11
  <1>4. QED
    BY <1>2, <1>3

\* A full refund keeps the order settled, so nothing that rests on it falls.
LEMMA RefundInFullStep ==
    ASSUME IInv, NEW o \in Orders, RefundInFull(o)
    PROVE  IInv'
  <1> DEFINE r == order[o].registration
  <1> USE ConstantsAssumption, RowFacts DEF IInv
  <1>1. /\ UNCHANGED <<active, clock, session, webhook, tx, late>>
        /\ tx.registration # r /\ order[o].status = "PAID"
    BY DEF RefundInFull, RegistrationFree
  <1>2. order[o] \in OrderRows /\ r \in Registrations
    BY <1>1 DEF OrderRows
  <1>3. /\ order' = [order EXCEPT ![o] = order'[o]]
        /\ order'[o] \in OrderRows
        /\ order'[o].status = "REFUNDED" /\ order'[o].hold = order[o].hold
        /\ order'[o].registration = r
        /\ \A p \in Orders : p # o => order'[p] = order[p]
    BY <1>2 DEF RefundInFull, TypeOK, OrderRows, Statuses
  <1>4. registration[r] \in [response : Responses, payment : Payments,
                             party : 0..(1 + MaxGuests), ticketedBy : Orders \union {None}]
    BY <1>1, <1>2 DEF EventsTruthful, TypeOK, NoRegistration
  <1>5. /\ registration' = [registration EXCEPT ![r] = registration'[r]]
        /\ registration'[r] \in [response : Responses, payment : Payments,
                                party : 0..(1 + MaxGuests), ticketedBy : Orders \union {None}]
        /\ registration'[r].payment = "REFUNDED"
        /\ registration'[r].ticketedBy = registration[r].ticketedBy
    BY <1>2, <1>4 DEF RefundInFull, TypeOK, Payments
  <1>6. TypeOK'
    <2>1. order' \in [Orders -> {NoRow} \union OrderRows]
      BY <1>3 DEF TypeOK
    <2>2. registration' \in [Registrations -> {NoRegistration} \union
             [response : Responses, payment : Payments, party : 0..(1 + MaxGuests),
              ticketedBy : Orders \union {None}]]
      BY <1>5 DEF TypeOK
    <2>3. QED
      BY <1>1, <2>1, <2>2 DEF TypeOK, OrderRows
  <1>7. HoldTracksOrder'
    BY <1>1, <1>3 DEF HoldTracksOrder, Settled
  <1>8. \A x \in Registrations : PendingOrders(x)' = PendingOrders(x)
    BY <1>1, <1>3 DEF PendingOrders
  <1>9. OnePendingOrder'
    BY <1>8 DEF OnePendingOrder
  <1>10. \A x \in Registrations : x # r => registration'[x] = registration[x]
    BY <1>5 DEF TypeOK
  <1>11. LocksHold'
    <2>1. CASE tx.step = "idle"
      <3>1. tx'.step = "idle"
        BY <1>1, <2>1
      <3>2. QED
        BY <3>1 DEF LocksHold
    <2>2. CASE tx.step # "idle"
      <3>1. /\ tx.registration \in Registrations
            /\ registration'[tx.registration] = registration[tx.registration]
            /\ PendingOrders(tx.registration)' = PendingOrders(tx.registration)
        BY <1>1, <1>8, <1>10, <2>2
      <3>2. QED
        BY <1>1, <2>2, <3>1 DEF LocksHold
    <2>3. QED
      BY <2>1, <2>2
  <1>12. /\ SoldOrders' = SoldOrders
         /\ \A p \in Orders : order'[p].registration = order[p].registration
         /\ \A p \in Orders : order'[p].status = "NONE" <=> order[p].status = "NONE"
    BY <1>1, <1>3 DEF SoldOrders, Settled
  <1>13. PaidRestsOnOrder'
    <2>1. ASSUME NEW x \in Registrations, registration'[x].payment = "PAID"
          PROVE  \E p \in SoldOrders' : order'[p].registration = x
      <3>1. x # r
        BY <1>5, <2>1
      <3>2. PICK p \in SoldOrders : order[p].registration = x
        BY <1>10, <2>1, <3>1 DEF PaidRestsOnOrder
      <3>3. p \in Orders
        BY DEF SoldOrders
      <3>4. QED
        BY <1>12, <3>2, <3>3
    <2>2. QED
      BY <2>1 DEF PaidRestsOnOrder
  <1>14. SettledMeansCaptured'
    BY <1>1, <1>5, <1>10, <1>12 DEF SettledMeansCaptured, SoldOrders
  <1>15. EventsTruthful'
    <2>1. \A p \in Orders : order[p].status # "NONE" => order[p].registration \in Registrations
      BY DEF OrderRows
    <2>2. \A x \in Registrations :
             registration[x].payment # "NONE" => registration'[x].payment # "NONE"
      BY <1>5, <1>10
    <2>3. QED
      BY <1>1, <1>12, <2>1, <2>2 DEF EventsTruthful
  <1>16. QED
    BY <1>6, <1>7, <1>9, <1>11, <1>13, <1>14, <1>15

\* No step takes back a sale or the tickets it issued: handlers look at the
\* status under the order's lock, and a reservation replaces a PENDING order only.
LEMMA SettledStep ==
    ASSUME IInv, [Next]_vars, NEW p \in SoldOrders
    PROVE  order'[p].status \in Settled /\ order'[p].issued = order[p].issued
  <1>1. p \in Orders /\ order[p].status \in Settled /\ order[p] \in OrderRows
    BY RowFacts DEF SoldOrders, Settled, IInv
  <1>2. CASE order'[p] = order[p]
    BY <1>1, <1>2
  <1>3. ASSUME NEW o \in Orders, ReserveCommit(o) PROVE order'[p] = order[p]
    <2>1. p # o
      BY <1>1, <1>3 DEF ReserveCommit, Unused, Settled
    <2>2. p # tx.superseded
      BY <1>1, <1>3, ConstantsAssumption DEF ReserveCommit, IInv, LocksHold, PendingOrders, Settled
    <2>3. QED
      BY <1>1, <1>3, <2>1, <2>2 DEF ReserveCommit, Superseded
  <1>4. ASSUME NEW o \in Orders, MarkOrderPaid(o) PROVE order'[p] = order[p]
    BY <1>1, <1>4 DEF MarkOrderPaid, IInv, TypeOK
  <1>5. ASSUME NEW o \in Orders, NEW status, FailOrder(o, status) PROVE order'[p] = order[p]
    BY <1>1, <1>5 DEF FailOrder, Settled, IInv, TypeOK
  <1>6. ASSUME NEW o \in Orders, RefundInFull(o)
        PROVE  order'[p].status \in Settled /\ order'[p].issued = order[p].issued
    <2>1. order' = [order EXCEPT ![o].status = "REFUNDED"]
      BY <1>6 DEF RefundInFull
    <2>2. order'[p] \in {order[p], [order[p] EXCEPT !.status = "REFUNDED"]}
      BY <1>1, <2>1 DEF IInv, TypeOK
    <2>3. QED
      BY <1>1, <2>2 DEF OrderRows, Settled
  <1>7. CASE \A q \in Orders :
                /\ ~ ReserveCommit(q) /\ ~ MarkOrderPaid(q) /\ ~ RefundInFull(q)
                /\ ~ FailOrder(q, "FAILED") /\ ~ FailOrder(q, "EXPIRED")
    <2>1. ASSUME NEW o \in Orders PROVE ~ ReleaseExpiredHold(o) /\ ~ Reconcile(o)
      BY <1>7 DEF ReleaseExpiredHold, Reconcile
    <2>2. ASSUME NEW o \in Orders, NEW k \in Kinds PROVE ~ Deliver(o, k)
      BY <1>7 DEF Deliver
    <2>3. ASSUME NEW o \in Orders,
                 AttachSession(o) \/ BuyerPays(o) \/ CardDeclined(o) \/ SessionExpires(o)
          PROVE  UNCHANGED order
      BY <2>3 DEF AttachSession, BuyerPays, CardDeclined, SessionExpires
    <2>4. ASSUME NEW r \in Registrations, NEW response, NEW g, SaveResponse(r, response, g)
          PROVE  UNCHANGED order
      BY <2>4 DEF SaveResponse
    <2>5. ASSUME NEW r \in Registrations, NEW t \in TicketTypes,
                 ToggleActive(t) \/ ReserveBegin(r, t)
          PROVE  UNCHANGED order
      BY <2>5 DEF ToggleActive, ReserveBegin
    <2>6. ASSUME NEW t \in TicketTypes, ToggleActive(t) PROVE UNCHANGED order
      BY <2>6 DEF ToggleActive
    <2>7. CASE \/ ReserveReadHeld \/ ReserveReadConfirmed \/ ReserveRollback
               \/ ClockPasses \/ UNCHANGED vars
      BY <2>7, <1>2 DEF ReserveReadHeld, ReserveReadConfirmed, ReserveRollback, ClockPasses, vars
    <2>8. QED
      BY <1>2, <1>7, <2>1, <2>2, <2>3, <2>4, <2>5, <2>6, <2>7 DEF Next
  <1>8. QED
    BY <1>2, <1>3, <1>4, <1>5, <1>6, <1>7

-----------------------------------------------------------------------------
(* The theorems *)

\* IInv is inductive: every step of the specification keeps it.
LEMMA NextIInv == IInv /\ [Next]_vars => IInv'
  <1> SUFFICES ASSUME IInv, [Next]_vars PROVE IInv'
    OBVIOUS
  <1>1. CASE UNCHANGED vars
    BY <1>1 DEF vars, IInv, TypeOK, OrderRows, HoldTracksOrder, OnePendingOrder, PendingOrders,
                LocksHold, EventsTruthful, SettledMeansCaptured, SoldOrders, PaidRestsOnOrder
  <1>2. ASSUME NEW r \in Registrations, NEW response \in Responses,
               \/ SaveResponse(r, response, 0)
               \/ \E g \in 1..MaxGuests : response = "GOING" /\ SaveResponse(r, response, g)
        PROVE  IInv'
    <2>1. 0 \in 0..MaxGuests /\ 1..MaxGuests \subseteq 0..MaxGuests
      BY ConstantsAssumption
    <2>2. QED
      BY <1>2, <2>1, SaveResponseStep
  <1>3. ASSUME NEW t \in TicketTypes, ToggleActive(t) PROVE IInv'
    BY <1>3, ToggleActiveStep
  <1>4. ASSUME NEW r \in Registrations, NEW t \in TicketTypes, ReserveBegin(r, t) PROVE IInv'
    BY <1>4, ReserveBeginStep
  <1>5. CASE ReserveReadHeld \/ ReserveReadConfirmed \/ ReserveRollback
    BY <1>5, ReserveReadStep
  <1>6. ASSUME NEW o \in Orders, ReserveCommit(o) PROVE IInv'
    BY <1>6, ReserveCommitStep
  <1>7. ASSUME NEW o \in Orders,
               AttachSession(o) \/ BuyerPays(o) \/ CardDeclined(o) \/ SessionExpires(o)
        PROVE  IInv'
    BY <1>7, StripeStep
  <1>8. ASSUME NEW o \in Orders, NEW k \in Kinds, Deliver(o, k) PROVE IInv'
    <2>1. Inbox(o) /\ webhook[o][k] = "sent"
      BY <1>8 DEF Deliver, Inbox
    <2>2. CASE k \in PaidKinds /\ MarkOrderPaid(o)
      <3>1. session[o] = "paid"
        BY <2>1, <2>2 DEF IInv, EventsTruthful
      <3>2. QED
        BY <2>1, <2>2, <3>1, MarkOrderPaidStep
    <2>3. CASE FailOrder(o, "FAILED") \/ FailOrder(o, "EXPIRED")
      BY <2>1, <2>3, FailOrderStep
    <2>4. QED
      BY <1>8, <2>2, <2>3 DEF Deliver
  <1>9. ASSUME NEW o \in Orders, ReleaseExpiredHold(o) PROVE IInv'
    <2>1. Inbox(o) /\ FailOrder(o, "EXPIRED")
      BY <1>9 DEF ReleaseExpiredHold, Inbox
    <2>2. QED
      BY <2>1, FailOrderStep
  <1>10. ASSUME NEW o \in Orders, Reconcile(o) PROVE IInv'
    <2>1. Inbox(o)
      BY <1>10 DEF Reconcile, Inbox
    <2>2. QED
      BY <1>10, <2>1, MarkOrderPaidStep, FailOrderStep DEF Reconcile
  <1>11. ASSUME NEW o \in Orders, RefundInFull(o) PROVE IInv'
    BY <1>11, RefundInFullStep
  <1>12. CASE ClockPasses
    <2>1. clock + 1 \in Orders
      BY <1>12, ConstantsAssumption DEF ClockPasses, IInv, TypeOK, Orders
    <2>2. QED
      BY <1>12, <2>1, StripeStep
  <1>13. QED
    BY <1>1, <1>2, <1>3, <1>4, <1>5, <1>6, <1>7, <1>8, <1>9, <1>10, <1>11, <1>12 DEF Next

\* Every reachable state satisfies the whole inductive invariant.
THEOREM SpecIInv == Spec => []IInv
  BY InitIInv, NextIInv, PTL DEF Spec

\* The tables, the inbox and the transaction always hold values of their types.
THEOREM SpecTypeOK == Spec => []TypeOK
  BY SpecIInv, PTL DEF IInv

\* The hold and the order never disagree, for any number of buyers and orders.
THEOREM SpecHoldTracksOrder == Spec => []HoldTracksOrder
  BY SpecIInv, PTL DEF IInv

\* However checkout is restarted and whatever webhooks arrive meanwhile, no
\* registration ever has two pending orders.
THEOREM SpecOnePendingOrder == Spec => []OnePendingOrder
  BY SpecIInv, PTL DEF IInv

\* What a reservation counted stays as it counted it until it commits.
THEOREM SpecLocksHold == Spec => []LocksHold
  BY SpecIInv, PTL DEF IInv

\* No order is settled and no ticket issued without money captured by Stripe.
THEOREM SpecSettledMeansCaptured == Spec => []SettledMeansCaptured
  BY SpecIInv, PTL DEF IInv

\* A registration is PAID only on the strength of a settled order of its own.
THEOREM SpecPaidRestsOnOrder == Spec => []PaidRestsOnOrder
  BY SpecIInv, PTL DEF IInv

\* A duplicate, late or contradictory event never undoes a sale or issues its
\* tickets again.
THEOREM SpecSettledIsFinal == Spec => SettledIsFinal
  <1>1. IInv /\ [Next]_vars =>
           [\A o \in SoldOrders : order'[o].status \in Settled
                                 /\ order'[o].issued = order[o].issued]_vars
    BY SettledStep
  <1>2. QED
    BY <1>1, SpecIInv, PTL DEF Spec, SettledIsFinal

-----------------------------------------------------------------------------
(* TicketCommerce implements OrderLifecycle *)

\* A step that keeps every order's owner and phase and captures nothing is a
\* stutter of the lifecycle.
LEMMA StutterView ==
    ASSUME \A p \in Orders : /\ order'[p].registration = order[p].registration
                             /\ PhaseOf(order'[p].status) = PhaseOf(order[p].status)
                             /\ session'[p] = "paid" <=> session[p] = "paid"
    PROVE  UNCHANGED Lifecycle!vars
  BY DEF Lifecycle!vars, Orders

LEMMA InitView == Init => Lifecycle!Init
  BY DEF Init, Lifecycle!Init, NoRow, PhaseOf

\* The commit opens the new order and gives up exactly the pending order of the
\* same registration, because LocksHold says which one that is.
LEMMA OpenView ==
    ASSUME IInv, NEW o \in Orders, ReserveCommit(o)
    PROVE  Lifecycle!Next
  <1> DEFINE r == tx.registration
             s == tx.superseded
  <1> USE ConstantsAssumption, RowFacts DEF IInv
  <1>1. /\ tx.step # "idle" /\ r \in Registrations /\ UNCHANGED session
        /\ order[o].status = "NONE"
    BY DEF ReserveCommit, Unused
  <1>2. PendingOrders(r) = {s} \ {None}
    BY <1>1 DEF LocksHold
  <1>3. s \in Orders =>
           /\ order[s].status = "PENDING" /\ order[s].registration = r /\ s # o
           /\ order[s] \in OrderRows
    BY <1>1, <1>2 DEF PendingOrders
  <1>4. ASSUME NEW p \in Orders
        PROVE  /\ p = o => order'[p].status = "PENDING" /\ order'[p].registration = r
               /\ p # o /\ p = s => order'[p].status = "EXPIRED" /\ order'[p].registration = r
               /\ p # o /\ p # s => order'[p] = order[p]
    <2>1. CASE p = o
      <3>1. order'[p] = [status |-> "PENDING", registration |-> r, type |-> tx.type,
                         quantity |-> tx.quantity, hold |-> "HELD", issued |-> 0]
        BY <2>1 DEF ReserveCommit, Superseded
      <3>2. QED
        BY <2>1, <3>1
    <2>2. CASE p # o /\ p = s
      <3>1. order'[p] = [order[p] EXCEPT !.status = "EXPIRED", !.hold = "RELEASED"]
        BY <2>2 DEF ReserveCommit, Superseded
      <3>2. QED
        BY <1>3, <2>2, <3>1 DEF OrderRows
    <2>3. CASE p # o /\ p # s
      BY <2>3 DEF ReserveCommit, Superseded
    <2>4. QED
      BY <2>1, <2>2, <2>3
  <1>5. ASSUME NEW p \in Orders, p # o
        PROVE  order[p].registration = r /\ PhaseOf(order[p].status) = "open" <=> p = s
    BY <1>2, <1>3, <1>5 DEF PendingOrders, PhaseOf
  <1>6. ASSUME NEW p \in Orders
        PROVE  /\ PhaseOf(order'[p].status) =
                     IF p = o THEN "open"
                     ELSE IF order[p].registration = r /\ PhaseOf(order[p].status) = "open"
                          THEN "void" ELSE PhaseOf(order[p].status)
               /\ order'[p].registration = IF p = o THEN r ELSE order[p].registration
    <2>1. PhaseOf("PENDING") = "open" /\ PhaseOf("EXPIRED") = "void"
      BY DEF PhaseOf, Settled
    <2>2. QED
      BY <1>3, <1>4, <1>5, <2>1
  <1>7. PhaseOf(order[o].status) = "none"
    BY <1>1 DEF PhaseOf
  <1>8. PICK x \in Registrations : x = r
    BY <1>1
  <1>9. Lifecycle!Open(o, x)
    BY <1>1, <1>6, <1>7, <1>8 DEF Lifecycle!Open
  <1>10. QED
    BY ONLY <1>9, o \in Orders, x \in Registrations DEF Lifecycle!Next

\* A buyer pays an order that exists and is not settled yet.
LEMMA CaptureView ==
    ASSUME IInv, NEW o \in Orders, BuyerPays(o)
    PROVE  Lifecycle!Next
  <1>1. /\ session[o] = "open" /\ order' = order
        /\ session' = [session EXCEPT ![o] = "paid"]
    BY DEF BuyerPays
  <1>2. order[o].status # "NONE" /\ order[o].status \notin Settled
    BY <1>1 DEF IInv, EventsTruthful, SettledMeansCaptured, SoldOrders
  <1>3. PhaseOf(order[o].status) \in {"open", "void"}
    BY <1>2 DEF PhaseOf
  <1>4. {p \in Orders : session'[p] = "paid"} = {p \in Orders : session[p] = "paid"} \union {o}
    BY <1>1 DEF IInv, TypeOK
  <1>5. Lifecycle!Capture(o)
    BY <1>1, <1>3, <1>4 DEF Lifecycle!Capture
  <1>6. QED
    BY <1>5 DEF Lifecycle!Next

\* Marking an order paid settles it, from open or from void, or does nothing.
LEMMA SettleView ==
    ASSUME IInv, NEW o \in Orders, MarkOrderPaid(o), UNCHANGED session,
           order[o].status # "NONE", session[o] = "paid"
    PROVE  Lifecycle!Next \/ UNCHANGED Lifecycle!vars
  <1>1. CASE order[o].status \in Settled
    BY <1>1, StutterView DEF MarkOrderPaid
  <1>2. CASE order[o].status \notin Settled
    <2>1. order[o] \in OrderRows
      BY RowFacts DEF IInv
    <2>2. /\ order'[o].status = "PAID" /\ order'[o].registration = order[o].registration
          /\ \A p \in Orders : p # o => order'[p] = order[p]
      BY <1>2, <2>1 DEF MarkOrderPaid, IInv, TypeOK, OrderRows
    <2>3. PhaseOf(order[o].status) \in {"open", "void"} /\ PhaseOf("PAID") = "settled"
      BY <1>2 DEF PhaseOf, Settled
    <2>4. ASSUME NEW p \in Orders
          PROVE  /\ PhaseOf(order'[p].status) =
                       IF p = o THEN "settled" ELSE PhaseOf(order[p].status)
                 /\ order'[p].registration = order[p].registration
      BY <2>2, <2>3
    <2>5. [p \in Orders |-> PhaseOf(order'[p].status)]
             = [[p \in Orders |-> PhaseOf(order[p].status)] EXCEPT ![o] = "settled"]
      BY <2>4
    <2>6. Lifecycle!Settle(o)
      BY <2>3, <2>4, <2>5 DEF Lifecycle!Settle
    <2>7. QED
      BY <2>6 DEF Lifecycle!Next
  <1>3. QED
    BY <1>1, <1>2

\* Failing an order gives it up while it is open and does nothing afterwards.
LEMMA GiveUpView ==
    ASSUME IInv, NEW o \in Orders, NEW status \in {"FAILED", "EXPIRED"},
           FailOrder(o, status), UNCHANGED session
    PROVE  Lifecycle!Next \/ UNCHANGED Lifecycle!vars
  <1>1. CASE order[o].status # "PENDING"
    BY <1>1, StutterView DEF FailOrder
  <1>2. CASE order[o].status = "PENDING"
    <2>1. order[o] \in OrderRows
      BY <1>2, RowFacts DEF IInv
    <2>2. /\ order'[o].status = status /\ order'[o].registration = order[o].registration
          /\ \A p \in Orders : p # o => order'[p] = order[p]
      BY <1>2, <2>1 DEF FailOrder, IInv, TypeOK, OrderRows
    <2>3. PhaseOf(order[o].status) = "open" /\ PhaseOf(status) = "void"
      BY <1>2 DEF PhaseOf, Settled
    <2>4. ASSUME NEW p \in Orders
          PROVE  /\ PhaseOf(order'[p].status) =
                       IF p = o THEN "void" ELSE PhaseOf(order[p].status)
                 /\ order'[p].registration = order[p].registration
      BY <2>2, <2>3
    <2>5. [p \in Orders |-> PhaseOf(order'[p].status)]
             = [[p \in Orders |-> PhaseOf(order[p].status)] EXCEPT ![o] = "void"]
      BY <2>4
    <2>6. Lifecycle!GiveUp(o)
      BY <2>3, <2>4, <2>5 DEF Lifecycle!GiveUp
    <2>7. QED
      BY <2>6 DEF Lifecycle!Next
  <1>3. QED
    BY <1>1, <1>2

\* A refund of the whole order leaves it settled.
LEMMA RefundView ==
    ASSUME IInv, NEW o \in Orders, RefundInFull(o)
    PROVE  UNCHANGED Lifecycle!vars
  <1>1. order[o] \in OrderRows /\ order[o].status = "PAID"
    BY RowFacts DEF RefundInFull, IInv
  <1>2. /\ order'[o].status = "REFUNDED" /\ order'[o].registration = order[o].registration
        /\ \A p \in Orders : p # o => order'[p] = order[p]
    BY <1>1 DEF RefundInFull, IInv, TypeOK, OrderRows
  <1>3. PhaseOf("PAID") = PhaseOf("REFUNDED")
    BY DEF PhaseOf, Settled
  <1>4. QED
    BY <1>1, <1>2, <1>3, StutterView DEF RefundInFull

\* Every step of the detailed specification is a step of the lifecycle or none.
LEMMA NextView == IInv /\ [Next]_vars => [Lifecycle!Next]_(Lifecycle!vars)
  <1> SUFFICES ASSUME IInv, [Next]_vars PROVE Lifecycle!Next \/ UNCHANGED Lifecycle!vars
    OBVIOUS
  <1>1. CASE UNCHANGED <<order, session>>
    BY <1>1, StutterView
  <1>2. CASE \/ UNCHANGED vars \/ ClockPasses
             \/ ReserveReadHeld \/ ReserveReadConfirmed \/ ReserveRollback
    BY <1>1, <1>2 DEF vars, ClockPasses, ReserveReadHeld, ReserveReadConfirmed, ReserveRollback
  <1>3. ASSUME NEW r \in Registrations, NEW response, NEW g, SaveResponse(r, response, g)
        PROVE  UNCHANGED <<order, session>>
    BY <1>3 DEF SaveResponse
  <1>4. ASSUME NEW t \in TicketTypes, ToggleActive(t) PROVE UNCHANGED <<order, session>>
    BY <1>4 DEF ToggleActive
  <1>5. ASSUME NEW r \in Registrations, NEW t \in TicketTypes, ReserveBegin(r, t)
        PROVE  UNCHANGED <<order, session>>
    BY <1>5 DEF ReserveBegin
  <1>6. ASSUME NEW o \in Orders, CardDeclined(o) PROVE UNCHANGED <<order, session>>
    BY <1>6 DEF CardDeclined
  <1>7. ASSUME NEW o \in Orders, AttachSession(o) \/ SessionExpires(o)
        PROVE  UNCHANGED Lifecycle!vars
    <2>1. order' = order
      BY <1>7 DEF AttachSession, SessionExpires
    <2>2. \A p \in Orders : session'[p] = "paid" <=> session[p] = "paid"
      BY <1>7 DEF AttachSession, SessionExpires, IInv, TypeOK
    <2>3. QED
      BY <2>1, <2>2, StutterView
  <1>8. ASSUME NEW o \in Orders, NEW k \in Kinds, Deliver(o, k)
        PROVE  Lifecycle!Next \/ UNCHANGED Lifecycle!vars
    <2>1. webhook[o][k] = "sent" /\ UNCHANGED session
      BY <1>8 DEF Deliver
    <2>2. CASE k \in PaidKinds /\ MarkOrderPaid(o)
      <3>1. session[o] = "paid" /\ order[o].status # "NONE"
        BY <2>1, <2>2 DEF IInv, EventsTruthful
      <3>2. QED
        BY <2>1, <2>2, <3>1, SettleView
    <2>3. CASE FailOrder(o, "FAILED") \/ FailOrder(o, "EXPIRED")
      BY <2>1, <2>3, GiveUpView
    <2>4. QED
      BY <1>8, <2>2, <2>3 DEF Deliver
  <1>9. ASSUME NEW o \in Orders, ReleaseExpiredHold(o) \/ Reconcile(o)
        PROVE  Lifecycle!Next \/ UNCHANGED Lifecycle!vars
    <2>1. UNCHANGED session
      BY <1>9 DEF ReleaseExpiredHold, Reconcile
    <2>2. CASE FailOrder(o, "EXPIRED")
      BY <2>1, <2>2, GiveUpView
    <2>3. CASE order[o].status = "PENDING" /\ session[o] = "paid" /\ MarkOrderPaid(o)
      BY <2>1, <2>3, SettleView
    <2>4. QED
      BY <1>9, <2>2, <2>3 DEF ReleaseExpiredHold, Reconcile
  <1>10. QED
    BY <1>1, <1>2, <1>3, <1>4, <1>5, <1>6, <1>7, <1>8, <1>9,
       OpenView, CaptureView, RefundView DEF Next

\* Holds, locks, webhooks and jobs implement the plain lifecycle: an order only
\* opens, is given up, captured and settled, in that order and for good.
THEOREM SpecKeepsPromises == Spec => KeepsPromises
  <1>1. Init => Lifecycle!Init
    BY InitView
  <1>2. IInv /\ [Next]_vars => [Lifecycle!Next]_(Lifecycle!vars)
    BY NextView
  <1>3. QED
    BY <1>1, <1>2, SpecIInv, PTL DEF Spec, KeepsPromises, Lifecycle!Spec

-----------------------------------------------------------------------------
(* The inventory of a ticket type *)

OfType(rows, t) == {o \in rows : order[o].type = t}

\* The orders a ticket type must have room for: sold while their hold was in force, or
\* still held.
Claims(t) == OfType((SoldOrders \ late) \union HeldOrders(clock), t)

\* What the queries of a running reservation are worth by now: nothing has been sold
\* since, and holds have only gone.
Queries ==
    tx.step # "idle" =>
        /\ seen = [now |-> seen.now, sold |-> seen.sold, held |-> seen.held,
                   confirmed |-> seen.confirmed]
        /\ seen.now \in Nat /\ seen.now <= clock /\ seen.sold \in Nat /\ seen.held \in Nat
        /\ TicketsOf(OfType(SoldOrders, tx.type)) <= seen.sold
        /\ tx.step # "sold" =>
              TicketsOf(OfType(HeldOrders(clock), tx.type) \ {tx.superseded}) <= seen.held

InventoryInv ==
    /\ IInv /\ NoReceipt = {} /\ late \subseteq SoldOrders
    /\ \A t \in TicketTypes : TicketsOf(Claims(t)) <= Quantity[t]
    /\ Queries

Tickets == [o \in Orders |-> order[o].quantity]

LEMMA TicketsMeasure ==
    ASSUME TypeOK
    PROVE  /\ \A rows : TicketsOf(rows) = SumFunctionOnSet(Tickets, rows)
           /\ \A rows \in SUBSET Orders : Measures(Tickets, rows) /\ TicketsOf(rows) \in Nat
  <1>1. \A o \in Orders : Tickets[o] \in Nat
    BY ConstantsAssumption DEF TypeOK, OrderRows, NoRow, Tickets
  <1>2. IsFiniteSet(Orders)
    BY ConstantsAssumption, FS_Interval DEF Orders
  <1>3. \A rows : TicketsOf(rows) = SumFunctionOnSet(Tickets, rows)
    BY DEF TicketsOf, Tickets
  <1>4. \A rows \in SUBSET Orders : Measures(Tickets, rows)
    BY <1>1, <1>2, FS_Subset DEF Measures
  <1>5. \A rows \in SUBSET Orders : SumFunctionOnSet(Tickets, rows) \in Nat
    BY <1>4, SumNat
  <1>6. QED
    BY <1>3, <1>4, <1>5

AtMost(m, n) == m \in Nat /\ n \in Nat /\ m <= n

\* Fewer orders with the same tickets on each have no more tickets together.
LEMMA TicketsShrink ==
    ASSUME TypeOK, NEW before \in SUBSET Orders, NEW after \in SUBSET before,
           \A o \in after : order'[o].quantity = order[o].quantity
    PROVE  AtMost(SumFunctionOnSet(Tickets', after), TicketsOf(before))
  <1>1. /\ Measures(Tickets, before) /\ Measures(Tickets, after)
        /\ TicketsOf(before) \in Nat /\ TicketsOf(before) = SumFunctionOnSet(Tickets, before)
    BY TicketsMeasure
  <1>2. \A o \in after : Tickets[o] = Tickets'[o]
    BY DEF Tickets
  <1>3. SumFunctionOnSet(Tickets, after) = SumFunctionOnSet(Tickets', after)
    BY <1>1, <1>2, SumSame
  <1>4. SumFunctionOnSet(Tickets, after) <= SumFunctionOnSet(Tickets, before)
    BY <1>1, SumMonotone
  <1>5. SumFunctionOnSet(Tickets, after) \in Nat
    BY <1>1, SumNat
  <1>6. QED
    BY <1>1, <1>3, <1>4, <1>5 DEF AtMost

\* What every step but a payment and a commit does to the inventory: nothing is sold,
\* and no hold comes into being.
Quiet ==
    /\ \A o \in Orders : /\ order'[o].type = order[o].type
                         /\ order'[o].quantity = order[o].quantity
                         /\ order'[o].hold = "HELD" => order[o].hold = "HELD"
    /\ SoldOrders' = SoldOrders /\ late' = late
    /\ clock' \in Nat /\ clock <= clock'

Reading ==
    \/ UNCHANGED <<tx, seen>>
    \/ \E r \in Registrations, t \in TicketTypes : ReserveBegin(r, t)
    \/ ReserveReadHeld \/ ReserveReadConfirmed
    \/ tx' = Idle

Settles(o) ==
    /\ order[o].status \notin Settled /\ order[o].status # "NONE" /\ MarkOrderPaid(o)
    /\ UNCHANGED <<clock, tx, seen>>

LEMMA QuietOrders ==
    ASSUME IInv, UNCHANGED <<order, late>>, clock' = clock \/ ClockPasses
    PROVE  Quiet
  BY ConstantsAssumption DEF Quiet, SoldOrders, ClockPasses, IInv, TypeOK

LEMMA QuietFailure ==
    ASSUME IInv, NEW o \in Orders, NEW status \in {"FAILED", "EXPIRED"},
           FailOrder(o, status), UNCHANGED clock
    PROVE  Quiet
  <1>1. \A p \in Orders : order'[p].status \in Settled <=> order[p].status \in Settled
    BY DEF FailOrder, IInv, TypeOK, OrderRows, Settled
  <1>2. \A p \in Orders : /\ order'[p].type = order[p].type
                          /\ order'[p].quantity = order[p].quantity
                          /\ order'[p].hold = "HELD" => order[p].hold = "HELD"
    BY DEF FailOrder, IInv, TypeOK, OrderRows
  <1>3. QED
    BY <1>1, <1>2, ConstantsAssumption DEF Quiet, SoldOrders, FailOrder, IInv, TypeOK

LEMMA QuietRefund ==
    ASSUME IInv, NEW o \in Orders, RefundInFull(o)
    PROVE  Quiet
  <1>1. /\ order[o].status = "PAID" /\ order' = [order EXCEPT ![o].status = "REFUNDED"]
        /\ UNCHANGED <<clock, late>>
    BY DEF RefundInFull
  <1>2. order[o] \in OrderRows
    BY <1>1, RowFacts DEF IInv
  <1>3. /\ order'[o].status = "REFUNDED" /\ order'[o].type = order[o].type
        /\ order'[o].quantity = order[o].quantity /\ order'[o].hold = order[o].hold
        /\ \A p \in Orders : p # o => order'[p] = order[p]
    BY <1>1, <1>2 DEF IInv, TypeOK, OrderRows
  <1>4. QED
    BY <1>1, <1>3, ConstantsAssumption DEF Quiet, SoldOrders, Settled, IInv, TypeOK

\* Every step is quiet, settles an order, or commits a reservation.
LEMMA InventorySteps ==
    ASSUME IInv, [Next]_vars
    PROVE  \/ Quiet /\ Reading
           \/ \E o \in Orders : Settles(o) \/ ReserveCommit(o)
  <1>1. CASE UNCHANGED vars
    BY <1>1, QuietOrders DEF vars, Reading
  <1>2. ASSUME NEW r \in Registrations, NEW response, NEW g, SaveResponse(r, response, g)
        PROVE  Quiet /\ Reading
    BY <1>2, QuietOrders DEF SaveResponse, Reading
  <1>3. ASSUME NEW t \in TicketTypes, ToggleActive(t) PROVE Quiet /\ Reading
    BY <1>3, QuietOrders DEF ToggleActive, Reading
  <1>4. ASSUME NEW r \in Registrations, NEW t \in TicketTypes, ReserveBegin(r, t)
        PROVE  Quiet /\ Reading
    BY <1>4, QuietOrders DEF ReserveBegin, Reading
  <1>5. CASE ReserveReadHeld \/ ReserveReadConfirmed \/ ReserveRollback
    BY <1>5, QuietOrders DEF ReserveReadHeld, ReserveReadConfirmed, ReserveRollback, Reading
  <1>6. ASSUME NEW o \in Orders,
               AttachSession(o) \/ BuyerPays(o) \/ CardDeclined(o) \/ SessionExpires(o)
        PROVE  Quiet /\ Reading
    BY <1>6, QuietOrders DEF AttachSession, BuyerPays, CardDeclined, SessionExpires, Reading
  <1>7. CASE ClockPasses
    BY <1>7, QuietOrders DEF ClockPasses, Reading
  <1>8. ASSUME NEW o \in Orders, NEW k \in Kinds, Deliver(o, k)
        PROVE  (Quiet /\ Reading) \/ Settles(o)
    <2>1. UNCHANGED <<clock, tx, seen>> /\ webhook[o][k] = "sent"
      BY <1>8 DEF Deliver
    <2>2. CASE k \in PaidKinds /\ MarkOrderPaid(o)
      <3>1. order[o].status # "NONE"
        BY <2>1, <2>2 DEF IInv, EventsTruthful
      <3>2. QED
        BY <2>1, <2>2, <3>1, QuietOrders DEF MarkOrderPaid, Settles, Reading
    <2>3. CASE FailOrder(o, "FAILED") \/ FailOrder(o, "EXPIRED")
      BY <2>1, <2>3, QuietFailure DEF Reading
    <2>4. QED
      BY <1>8, <2>2, <2>3 DEF Deliver
  <1>9. ASSUME NEW o \in Orders, ReleaseExpiredHold(o) \/ Reconcile(o)
        PROVE  (Quiet /\ Reading) \/ Settles(o)
    <2>1. UNCHANGED <<clock, tx, seen>>
      BY <1>9 DEF ReleaseExpiredHold, Reconcile
    <2>2. CASE FailOrder(o, "EXPIRED")
      BY <2>1, <2>2, QuietFailure DEF Reading
    <2>3. CASE order[o].status = "PENDING" /\ MarkOrderPaid(o)
      BY <2>1, <2>3 DEF Settles, Settled
    <2>4. QED
      BY <1>9, <2>2, <2>3 DEF ReleaseExpiredHold, Reconcile
  <1>10. ASSUME NEW o \in Orders, RefundInFull(o) PROVE Quiet /\ Reading
    BY <1>10, QuietRefund DEF RefundInFull, Reading
  <1>11. QED
    BY <1>1, <1>2, <1>3, <1>4, <1>5, <1>6, <1>7, <1>8, <1>9, <1>10 DEF Next

\* Under Quiet steps the claims shrink, and so does what the running queries counted.
LEMMA QuietShrinks ==
    ASSUME IInv, Quiet
    PROVE  /\ HeldOrders(clock)' \subseteq HeldOrders(clock)
           /\ \A t : Claims(t)' \subseteq Claims(t)
           /\ \A t : AtMost(TicketsOf(Claims(t))', TicketsOf(Claims(t)))
           /\ \A t : AtMost(TicketsOf(OfType(SoldOrders, t))', TicketsOf(OfType(SoldOrders, t)))
           /\ \A t, s : AtMost(TicketsOf(OfType(HeldOrders(clock), t) \ {s})',
                          TicketsOf(OfType(HeldOrders(clock), t) \ {s}))
  <1>1. /\ TypeOK /\ clock \in Nat
        /\ \A rows \in SUBSET Orders : \A o \in rows : order'[o].quantity = order[o].quantity
    BY ConstantsAssumption DEF IInv, TypeOK, Quiet
  <1>2. HeldOrders(clock)' \subseteq HeldOrders(clock)
    BY <1>1 DEF HeldOrders, Quiet, Orders
  <1>3. \A t : Claims(t)' \subseteq Claims(t) /\ Claims(t) \subseteq Orders
    BY <1>2 DEF Claims, OfType, Quiet, SoldOrders, HeldOrders
  <1>4. \A t : OfType(SoldOrders, t)' \subseteq OfType(SoldOrders, t)
               /\ OfType(SoldOrders, t) \subseteq Orders
    BY DEF OfType, Quiet, SoldOrders
  <1>5. \A t, s : /\ (OfType(HeldOrders(clock), t) \ {s})' \subseteq OfType(HeldOrders(clock), t) \ {s}
                  /\ OfType(HeldOrders(clock), t) \ {s} \subseteq Orders
    BY <1>2 DEF OfType, Quiet, HeldOrders
  <1>6. \A before \in SUBSET Orders : \A after \in SUBSET before :
           AtMost(SumFunctionOnSet(Tickets', after), TicketsOf(before))
    BY <1>1, TicketsShrink
  <1>7. \A t : AtMost(TicketsOf(Claims(t))', TicketsOf(Claims(t)))
    <2>1. ASSUME NEW t PROVE AtMost(TicketsOf(Claims(t))', TicketsOf(Claims(t)))
      <3>1. TicketsOf(Claims(t))' = SumFunctionOnSet(Tickets', Claims(t)')
        BY DEF TicketsOf, Tickets
      <3>2. QED
        BY <1>3, <1>6, <3>1
    <2>2. QED
      BY <2>1
  <1>8. \A t : AtMost(TicketsOf(OfType(SoldOrders, t))', TicketsOf(OfType(SoldOrders, t)))
    <2>1. ASSUME NEW t
          PROVE  AtMost(TicketsOf(OfType(SoldOrders, t))', TicketsOf(OfType(SoldOrders, t)))
      <3>1. TicketsOf(OfType(SoldOrders, t))' = SumFunctionOnSet(Tickets', OfType(SoldOrders, t)')
        BY DEF TicketsOf, Tickets
      <3>2. QED
        BY <1>4, <1>6, <3>1
    <2>2. QED
      BY <2>1
  <1>9. \A t, s : AtMost(TicketsOf(OfType(HeldOrders(clock), t) \ {s})',
                          TicketsOf(OfType(HeldOrders(clock), t) \ {s}))
    <2>1. ASSUME NEW t, NEW s
          PROVE  AtMost(TicketsOf(OfType(HeldOrders(clock), t) \ {s})',
                          TicketsOf(OfType(HeldOrders(clock), t) \ {s}))
      <3>1. TicketsOf(OfType(HeldOrders(clock), t) \ {s})'
              = SumFunctionOnSet(Tickets', (OfType(HeldOrders(clock), t) \ {s})')
        BY DEF TicketsOf, Tickets
      <3>2. QED
        BY <1>5, <1>6, <3>1
    <2>2. QED
      BY <2>1
  <1>10. QED
    BY <1>2, <1>3, <1>7, <1>8, <1>9

\* A query sees the holds at the time it has read, which may be past but never ahead:
\* what it counts is no less than what is held now.
LEMMA HeldSeen ==
    ASSUME TypeOK, NEW now \in Nat, now <= clock, NEW t, NEW s
    PROVE  AtMost(TicketsOf(OfType(HeldOrders(clock), t) \ {s}),
                  TicketsOf(OfType(HeldOrders(now), t) \ {s}))
  <1> DEFINE after == OfType(HeldOrders(clock), t) \ {s}
             before == OfType(HeldOrders(now), t) \ {s}
  <1>1. clock \in Nat
    BY ConstantsAssumption DEF TypeOK
  <1>2. after \in SUBSET before /\ before \in SUBSET Orders
    BY <1>1, ConstantsAssumption DEF OfType, HeldOrders, Orders
  <1> HIDE DEF after, before
  <1>3. /\ TicketsOf(after) = SumFunctionOnSet(Tickets, after) /\ TicketsOf(after) \in Nat
        /\ TicketsOf(before) = SumFunctionOnSet(Tickets, before) /\ TicketsOf(before) \in Nat
        /\ Measures(Tickets, before)
    BY <1>2, TicketsMeasure
  <1>4. SumFunctionOnSet(Tickets, after) <= SumFunctionOnSet(Tickets, before)
    BY <1>2, <1>3, SumMonotone
  <1>5. QED
    BY <1>3, <1>4 DEF AtMost, after, before

LEMMA QuietInventory ==
    ASSUME InventoryInv, IInv', Quiet, Reading
    PROVE  InventoryInv'
  <1> USE DEF InventoryInv
  <1>1. /\ Quantity \in [TicketTypes -> Nat] /\ clock \in Nat /\ clock' \in Nat
        /\ clock <= clock'
    BY ConstantsAssumption DEF IInv, TypeOK, Quiet
  <1>2. (NoReceipt = {})' /\ (late \subseteq SoldOrders)'
    BY DEF Quiet
  <1>3. \A t \in TicketTypes : TicketsOf(Claims(t))' <= Quantity[t]
    <2>1. ASSUME NEW t \in TicketTypes PROVE TicketsOf(Claims(t))' <= Quantity[t]
      <3>1. AtMost(TicketsOf(Claims(t))', TicketsOf(Claims(t)))
            /\ TicketsOf(Claims(t)) <= Quantity[t] /\ Quantity[t] \in Nat
        BY <1>1, QuietShrinks
      <3>2. QED
        BY <3>1 DEF AtMost
    <2>2. QED
      BY <2>1
  <1>4. Queries'
    <2>1. CASE UNCHANGED <<tx, seen>>
      <3>1. SUFFICES ASSUME tx.step # "idle" PROVE Queries'
        BY <2>1 DEF Queries
      <3>2. Queries
        OBVIOUS
      <3>3. PICK t, s : t = tx.type /\ s = tx.superseded
        OBVIOUS
      <3>4. AtMost(TicketsOf(OfType(SoldOrders, t))', TicketsOf(OfType(SoldOrders, t)))
        BY QuietShrinks
      <3>5. AtMost(TicketsOf(OfType(HeldOrders(clock), t) \ {s})',
                   TicketsOf(OfType(HeldOrders(clock), t) \ {s}))
        BY QuietShrinks
      <3>6. /\ TicketsOf(OfType(SoldOrders, tx.type))' = TicketsOf(OfType(SoldOrders, t))'
            /\ TicketsOf(OfType(HeldOrders(clock), tx.type) \ {tx.superseded})'
                 = TicketsOf(OfType(HeldOrders(clock), t) \ {s})'
        BY <2>1, <3>3
      <3>7. /\ TicketsOf(OfType(SoldOrders, t))' <= seen.sold
            /\ tx.step # "sold" => TicketsOf(OfType(HeldOrders(clock), t) \ {s})' <= seen.held
        BY <3>1, <3>2, <3>3, <3>4, <3>5 DEF Queries, AtMost
      <3>8. QED
        BY <1>1, <2>1, <3>1, <3>2, <3>6, <3>7 DEF Queries
    <2>2. CASE \E r \in Registrations, t \in TicketTypes : ReserveBegin(r, t)
      <3>1. PICK t, n :
               /\ t \in TicketTypes /\ n = Sold(t)
               /\ tx'.step = "sold" /\ tx'.type = t
               /\ seen' = [now |-> clock, sold |-> n, held |-> 0, confirmed |-> 0]
               /\ UNCHANGED <<order, clock>>
        <4>1. PICK r, t, n : /\ r \in Registrations /\ t \in TicketTypes
                             /\ ReserveBegin(r, t) /\ n = Sold(t)
          BY <2>2
        <4>2. seen' = [now |-> clock, sold |-> n, held |-> 0, confirmed |-> 0]
          BY <4>1 DEF ReserveBegin, Nothing
        <4>3. tx'.step = "sold" /\ tx'.type = t /\ UNCHANGED <<order, clock>>
          BY <4>1 DEF ReserveBegin
        <4>4. QED
          BY <4>1, <4>2, <4>3
      <3>. Sold(t) = TicketsOf(OfType(SoldOrders, t))
        BY DEF Sold, OfType
      <3>2. TicketsOf(OfType(SoldOrders, tx.type))' = TicketsOf(OfType(SoldOrders, t))
        BY <3>1 DEF TicketsOf, OfType, SoldOrders
      <3>3. TicketsOf(OfType(SoldOrders, t)) \in Nat
        BY QuietShrinks DEF AtMost
      <3>4. QED
        BY <1>1, <3>1, <3>2, <3>3 DEF Queries
    <2>3. CASE ReserveReadHeld
      <3>1. PICK t, s, n : /\ t = tx.type /\ s = tx.superseded
                           /\ n = TicketsOf(OfType(HeldOrders(seen.now), t) \ {s})
        OBVIOUS
      <3>2. /\ tx.step = "sold" /\ UNCHANGED <<order, clock>>
            /\ seen' = [seen EXCEPT !.held = n]
            /\ tx'.step = "held" /\ tx'.type = t /\ tx'.superseded = s
        BY <2>3, <3>1 DEF ReserveReadHeld, HeldSeenByTx, OfType, IInv, TypeOK, Idle
      <3>3. /\ TicketsOf(OfType(SoldOrders, t)) <= seen.sold
            /\ seen.now \in Nat /\ seen.now <= clock /\ seen.sold \in Nat
            /\ seen = [now |-> seen.now, sold |-> seen.sold, held |-> seen.held,
                       confirmed |-> seen.confirmed]
        BY <3>1, <3>2 DEF Queries
      <3>4. AtMost(TicketsOf(OfType(HeldOrders(clock), t) \ {s}), n)
        BY <3>1, <3>3, HeldSeen DEF IInv
      <3>5. /\ TicketsOf(OfType(SoldOrders, tx.type))' = TicketsOf(OfType(SoldOrders, t))
            /\ TicketsOf(OfType(HeldOrders(clock), tx.type) \ {tx.superseded})'
                 = TicketsOf(OfType(HeldOrders(clock), t) \ {s})
        BY <3>2 DEF TicketsOf, OfType, SoldOrders, HeldOrders
      <3>6. seen' = [now |-> seen.now, sold |-> seen.sold, held |-> n,
                     confirmed |-> seen.confirmed]
        BY <3>2, <3>3
      <3>7. QED
        BY <1>1, <3>2, <3>3, <3>4, <3>5, <3>6 DEF Queries, AtMost
    <2>4. CASE ReserveReadConfirmed
      <3>1. PICK t, s, n : t = tx.type /\ s = tx.superseded /\ n = Confirmed(Registrations)
        OBVIOUS
      <3>2. /\ tx.step = "held" /\ UNCHANGED <<order, clock>>
            /\ seen' = [seen EXCEPT !.confirmed = n]
            /\ tx'.step = "confirmed" /\ tx'.type = t /\ tx'.superseded = s
        BY <2>4, <3>1 DEF ReserveReadConfirmed, IInv, TypeOK, Idle
      <3>3. /\ TicketsOf(OfType(SoldOrders, t)) <= seen.sold
            /\ TicketsOf(OfType(HeldOrders(clock), t) \ {s}) <= seen.held
            /\ seen.now \in Nat /\ seen.now <= clock /\ seen.sold \in Nat /\ seen.held \in Nat
            /\ seen = [now |-> seen.now, sold |-> seen.sold, held |-> seen.held,
                       confirmed |-> seen.confirmed]
        BY <3>1, <3>2 DEF Queries
      <3>4. /\ TicketsOf(OfType(SoldOrders, tx.type))' = TicketsOf(OfType(SoldOrders, t))
            /\ TicketsOf(OfType(HeldOrders(clock), tx.type) \ {tx.superseded})'
                 = TicketsOf(OfType(HeldOrders(clock), t) \ {s})
        BY <3>2 DEF TicketsOf, OfType, SoldOrders, HeldOrders
      <3>5. seen' = [now |-> seen.now, sold |-> seen.sold, held |-> seen.held,
                     confirmed |-> n]
        BY <3>2, <3>3
      <3>6. QED
        BY <1>1, <3>2, <3>3, <3>4, <3>5 DEF Queries
    <2>5. CASE tx' = Idle
      BY <2>5 DEF Queries, Idle
    <2>6. QED
      BY <2>1, <2>2, <2>3, <2>4, <2>5 DEF Reading
  <1>5. QED
    BY <1>2, <1>3, <1>4

\* A payment moves its order from the held to the sold, or books it as late.
LEMMA SettleInventory ==
    ASSUME InventoryInv, IInv', NEW o \in Orders, Settles(o)
    PROVE  InventoryInv'
  <1> USE DEF InventoryInv
  <1> DEFINE rest == IF o \in HeldOrders(clock) THEN late ELSE late \union {o}
  <1>1. order[o] \in OrderRows /\ order[o].status \notin Settled
    BY RowFacts DEF IInv, Settles
  <1>2. tx.step = "idle" /\ UNCHANGED <<clock, tx, seen>> /\ late' = rest
    BY <1>1 DEF Settles, MarkOrderPaid, OccurrenceFree
  <1>3. /\ order'[o].status = "PAID" /\ order'[o].hold = "CONVERTED"
        /\ order'[o].type = order[o].type /\ order'[o].quantity = order[o].quantity
        /\ \A p \in Orders : p # o => order'[p] = order[p]
    BY <1>1 DEF Settles, MarkOrderPaid, IInv, TypeOK, OrderRows
  <1>4. SoldOrders' = SoldOrders \union {o} /\ o \notin SoldOrders
    BY <1>1, <1>3 DEF SoldOrders, Settled
  <1>5. \A t : Claims(t)' \subseteq Claims(t) /\ Claims(t) \subseteq Orders
    <2>1. HeldOrders(clock)' \subseteq HeldOrders(clock) \ {o}
      BY <1>2, <1>3 DEF HeldOrders
    <2>2. ((SoldOrders \ late) \union HeldOrders(clock))'
             \subseteq (SoldOrders \ late) \union HeldOrders(clock)
      BY <1>2, <1>4, <2>1
    <2>3. \A p \in Orders : order'[p].type = order[p].type
      BY <1>3
    <2>4. (SoldOrders \ late) \union HeldOrders(clock) \subseteq Orders
      BY DEF SoldOrders, HeldOrders
    <2>5. QED
      BY <2>2, <2>3, <2>4 DEF Claims, OfType
  <1>6. \A t \in TicketTypes : TicketsOf(Claims(t))' <= Quantity[t]
    <2>1. ASSUME NEW t \in TicketTypes PROVE TicketsOf(Claims(t))' <= Quantity[t]
      <3>1. \A p \in Claims(t)' : order'[p].quantity = order[p].quantity
        BY <1>3, <1>5
      <3>2. AtMost(SumFunctionOnSet(Tickets', Claims(t)'), TicketsOf(Claims(t)))
        BY <1>5, <3>1, TicketsShrink DEF IInv
      <3>3. TicketsOf(Claims(t))' = SumFunctionOnSet(Tickets', Claims(t)')
        BY DEF TicketsOf, Tickets
      <3>4. TicketsOf(Claims(t)) <= Quantity[t] /\ Quantity[t] \in Nat
        BY ConstantsAssumption
      <3>5. QED
        BY <3>2, <3>3, <3>4 DEF AtMost
    <2>2. QED
      BY <2>1
  <1>7. Queries' /\ (late \subseteq SoldOrders)'
    BY <1>2, <1>4 DEF Queries
  <1>8. QED
    BY <1>6, <1>7

\* The commit adds one hold, for which the two queries left room.
LEMMA CommitInventory ==
    ASSUME InventoryInv, IInv', NEW o \in Orders, ReserveCommit(o)
    PROVE  InventoryInv'
  <1> USE DEF InventoryInv
  <1>1. PICK t, s : t = tx.type /\ s = tx.superseded
    OBVIOUS
  <1> DEFINE sold == OfType(SoldOrders, t)
             held == OfType(HeldOrders(clock), t) \ {s}
  <1>2. /\ tx.step = "confirmed" /\ order[o].status = "NONE" /\ order[o] = NoRow
        /\ seen.sold + seen.held + tx.quantity <= Quantity[t]
        /\ tx' = Idle /\ UNCHANGED <<clock, late>>
        /\ t \in TicketTypes /\ tx.quantity \in Nat /\ Quantity[t] \in Nat
        /\ tx.registration \in Registrations
    <2>1. order[o] \notin OrderRows
      BY DEF ReserveCommit, Unused, OrderRows, Statuses
    <2>2. QED
      BY <1>1, <2>1, ConstantsAssumption
         DEF ReserveCommit, EnoughLeft, Unused, IInv, TypeOK, Idle
  <1>3. s # None => s \in Orders /\ order[s].status = "PENDING"
    BY <1>1, <1>2 DEF IInv, LocksHold, PendingOrders
  <1>4. /\ order'[o] = [status |-> "PENDING", registration |-> tx.registration, type |-> t,
                        quantity |-> tx.quantity, hold |-> "HELD", issued |-> 0]
        /\ s # o
        /\ s \in Orders => order'[s] = [order[s] EXCEPT !.status = "EXPIRED", !.hold = "RELEASED"]
        /\ \A p \in Orders \ {o, s} : order'[p] = order[p]
    BY <1>1, <1>2, <1>3, ConstantsAssumption DEF ReserveCommit, Superseded, IInv, TypeOK
  <1>5. s \in Orders => /\ order'[s].status = "EXPIRED" /\ order'[s].hold = "RELEASED"
                        /\ order'[s].type = order[s].type
                        /\ order'[s].quantity = order[s].quantity
                        /\ order[s].status = "PENDING"
    <2>1. SUFFICES ASSUME s \in Orders
                   PROVE  /\ order'[s].status = "EXPIRED" /\ order'[s].hold = "RELEASED"
                          /\ order'[s].type = order[s].type
                          /\ order'[s].quantity = order[s].quantity
                          /\ order[s].status = "PENDING"
      OBVIOUS
    <2>2. order[s].status = "PENDING" /\ order[s] \in OrderRows
      BY <1>3, <2>1, ConstantsAssumption, RowFacts DEF IInv
    <2>3. QED
      BY <1>4, <2>1, <2>2 DEF OrderRows
  <1>6. /\ SoldOrders' = SoldOrders
        /\ \A p \in Orders : p # o => /\ order'[p].type = order[p].type
                                      /\ order'[p].quantity = order[p].quantity
                                      /\ order'[p].hold = "HELD" => p # s /\ order[p].hold = "HELD"
    <2>1. \A p \in Orders : p = o \/ p = s \/ order'[p] = order[p]
      BY <1>4
    <2>2. QED
      BY <1>2, <1>4, <1>5, <2>1 DEF SoldOrders, Settled
  <1>7. HeldOrders(clock)' \subseteq (HeldOrders(clock) \ {s}) \union {o}
    BY <1>2, <1>6 DEF HeldOrders
  <1>8. o \notin SoldOrders /\ o \notin HeldOrders(clock) /\ order'[o].type = t
        /\ order'[o].quantity = tx.quantity
    BY <1>2, <1>4 DEF SoldOrders, HeldOrders, Settled, NoRow
  <1>9. sold \in SUBSET Orders /\ held \in SUBSET Orders /\ sold \intersect held = {}
    <2>1. SoldOrders \subseteq Orders /\ HeldOrders(clock) \subseteq Orders
      BY DEF SoldOrders, HeldOrders
    <2>2. SoldOrders \intersect HeldOrders(clock) = {}
      BY DEF SoldOrders, HeldOrders, IInv, HoldTracksOrder, Settled
    <2>3. QED
      BY <2>1, <2>2 DEF OfType
  <1>10. Claims(t)' \subseteq (sold \union held) \union {o}
    <2>1. SUFFICES ASSUME NEW p \in Claims(t)', p # o PROVE p \in sold \union held
      OBVIOUS
    <2>2. /\ p \in SoldOrders \/ p \in HeldOrders(clock) \ {s}
          /\ order'[p].type = t /\ p \in Orders
      BY <1>2, <1>6, <1>7, <2>1 DEF Claims, OfType, SoldOrders, HeldOrders
    <2>3. order[p].type = t
      BY <1>6, <2>1, <2>2
    <2>4. QED
      BY <2>2, <2>3 DEF OfType
  <1>11. TicketsOf(Claims(t))' <= Quantity[t]
    <2>1. /\ TicketsOf(sold) = SumFunctionOnSet(Tickets, sold) /\ TicketsOf(sold) \in Nat
          /\ TicketsOf(held) = SumFunctionOnSet(Tickets, held) /\ TicketsOf(held) \in Nat
          /\ Measures(Tickets, sold) /\ Measures(Tickets, held)
          /\ Measures(Tickets, sold \union held)
      BY <1>9, TicketsMeasure DEF IInv
    <2>2. \A p \in sold \union held : Tickets[p] = Tickets'[p]
      BY <1>6, <1>8, <1>9 DEF Tickets, OfType
    <2>3. SumFunctionOnSet(Tickets, sold \union held) = TicketsOf(sold) + TicketsOf(held)
      BY <1>9, <2>1, SumDisjoint
    <2>4. SumFunctionOnSet(Tickets', sold \union held) = TicketsOf(sold) + TicketsOf(held)
      BY <2>1, <2>2, <2>3, SumSame
    <2>5. /\ Tickets'[o] = tx.quantity /\ o \notin sold \union held
          /\ Measures(Tickets', sold \union held)
          /\ Measures(Tickets', (sold \union held) \union {o})
      BY <1>2, <1>8, <1>9, <2>1, <2>2, FS_AddElement DEF Measures, Tickets, OfType
    <2>6. SumFunctionOnSet(Tickets', (sold \union held) \union {o})
            = (TicketsOf(sold) + TicketsOf(held)) + tx.quantity
      BY <1>2, <2>4, <2>5, SumAdd
    <2>7. SumFunctionOnSet(Tickets', Claims(t)')
            <= SumFunctionOnSet(Tickets', (sold \union held) \union {o})
      BY <1>10, <2>5, SumMonotone
    <2>8. SumFunctionOnSet(Tickets', Claims(t)') \in Nat
      BY <1>10, <2>5, SumNat, FS_Subset DEF Measures
    <2>9. TicketsOf(Claims(t))' = SumFunctionOnSet(Tickets', Claims(t)')
      BY DEF TicketsOf, Tickets
    <2>10. TicketsOf(sold) <= seen.sold /\ TicketsOf(held) <= seen.held
           /\ seen.sold \in Nat /\ seen.held \in Nat
      BY <1>1, <1>2 DEF Queries
    <2> HIDE DEF sold, held
    <2>11. QED
      BY <1>2, <2>1, <2>6, <2>7, <2>8, <2>9, <2>10
  <1>12. ASSUME NEW u \in TicketTypes, u # t
         PROVE  TicketsOf(Claims(u))' <= Quantity[u]
    <2>1. Claims(u)' \subseteq Claims(u) /\ Claims(u) \subseteq Orders /\ o \notin Claims(u)
      BY <1>2, <1>6, <1>7, <1>8, <1>12 DEF Claims, OfType, SoldOrders, HeldOrders
    <2>2. \A p \in Claims(u)' : order'[p].quantity = order[p].quantity
      BY <1>6, <2>1
    <2>3. AtMost(SumFunctionOnSet(Tickets', Claims(u)'), TicketsOf(Claims(u)))
      BY <2>1, <2>2, TicketsShrink DEF IInv
    <2>4. TicketsOf(Claims(u))' = SumFunctionOnSet(Tickets', Claims(u)')
      BY DEF TicketsOf, Tickets
    <2>5. TicketsOf(Claims(u)) <= Quantity[u] /\ Quantity[u] \in Nat
      BY ConstantsAssumption
    <2>6. QED
      BY <2>3, <2>4, <2>5 DEF AtMost
  <1>13. \A u \in TicketTypes : TicketsOf(Claims(u))' <= Quantity[u]
    BY <1>11, <1>12
  <1>14. Queries' /\ (late \subseteq SoldOrders)'
    BY <1>2, <1>6 DEF Queries, Idle
  <1>15. QED
    BY <1>13, <1>14

LEMMA InitInventory == Init /\ NoReceipt = {} => InventoryInv
  <1> SUFFICES ASSUME Init, NoReceipt = {} PROVE InventoryInv
    OBVIOUS
  <1>1. IInv /\ late = {} /\ Queries
    BY InitIInv DEF Init, Queries, Idle
  <1>2. \A t \in TicketTypes : TicketsOf(Claims(t)) <= Quantity[t]
    <2>1. ASSUME NEW t \in TicketTypes PROVE TicketsOf(Claims(t)) <= Quantity[t]
      <3>1. Claims(t) = {}
        BY DEF Init, Claims, OfType, SoldOrders, HeldOrders, Settled, NoRow
      <3>2. TicketsOf({}) = 0
        BY SumEmpty DEF TicketsOf
      <3>3. Quantity[t] \in Nat
        BY ConstantsAssumption
      <3>4. QED
        BY <3>1, <3>2, <3>3
    <2>2. QED
      BY <2>1
  <1>3. QED
    BY <1>1, <1>2 DEF InventoryInv

LEMMA NextInventory == InventoryInv /\ [Next]_vars => InventoryInv'
  <1> SUFFICES ASSUME InventoryInv, [Next]_vars PROVE InventoryInv'
    OBVIOUS
  <1>1. IInv /\ IInv'
    BY NextIInv DEF InventoryInv
  <1>2. QED
    BY <1>1, InventorySteps, QuietInventory, SettleInventory, CommitInventory

\* What is sold and held is what has a claim, and what was paid late.
LEMMA InventoryExplains == InventoryInv => OversellExplained
  <1> SUFFICES ASSUME InventoryInv, NEW t \in TicketTypes
               PROVE  Sold(t) + Held(t)
                        <= Quantity[t] + TicketsOf({o \in late : order[o].type = t})
    BY DEF OversellExplained
  <1> DEFINE intime == OfType(SoldOrders \ late, t)
             tardy  == OfType(late, t)
             held   == OfType(HeldOrders(clock), t)
  <1> USE DEF InventoryInv
  <1>1. /\ intime \in SUBSET Orders /\ tardy \in SUBSET Orders /\ held \in SUBSET Orders
        /\ intime \intersect tardy = {} /\ intime \intersect held = {}
        /\ OfType(SoldOrders, t) = intime \union tardy
        /\ Claims(t) = intime \union held
    BY DEF OfType, SoldOrders, HeldOrders, Claims, IInv, HoldTracksOrder, Settled
  <1>2. /\ Sold(t) = TicketsOf(OfType(SoldOrders, t)) /\ Held(t) = TicketsOf(held)
        /\ TicketsOf({o \in late : order[o].type = t}) = TicketsOf(tardy)
    BY DEF Sold, Held, OfType
  <1>3. TicketsOf(Claims(t)) <= Quantity[t] /\ Quantity[t] \in Nat
    BY ConstantsAssumption
  <1> HIDE DEF intime, tardy, held
  <1>4. /\ Measures(Tickets, intime) /\ Measures(Tickets, tardy) /\ Measures(Tickets, held)
        /\ TicketsOf(intime) \in Nat /\ TicketsOf(tardy) \in Nat /\ TicketsOf(held) \in Nat
        /\ \A rows : TicketsOf(rows) = SumFunctionOnSet(Tickets, rows)
    BY <1>1, TicketsMeasure DEF IInv
  <1>5. SumFunctionOnSet(Tickets, intime \union tardy)
          = SumFunctionOnSet(Tickets, intime) + SumFunctionOnSet(Tickets, tardy)
    BY <1>1, <1>4, SumDisjoint
  <1>6. SumFunctionOnSet(Tickets, intime \union held)
          = SumFunctionOnSet(Tickets, intime) + SumFunctionOnSet(Tickets, held)
    BY <1>1, <1>4, SumDisjoint
  <1>7. Sold(t) = TicketsOf(intime) + TicketsOf(tardy)
        /\ TicketsOf(Claims(t)) = TicketsOf(intime) + TicketsOf(held)
    BY <1>1, <1>2, <1>4, <1>5, <1>6
  <1>8. QED
    BY <1>2, <1>3, <1>4, <1>7

\* "Two buyers cannot oversell the last available ticket", for any number of buyers, orders
\* and ticket types: what is sold and held of a type never exceeds its quantity by more
\* than the orders paid after their hold had gone.  It needs that every payment queues a
\* receipt (NoReceipt is empty), for the receipt's reference to the occurrence is what
\* keeps a payment from committing between the two inventory queries.
THEOREM SpecOversellExplained == NoReceipt = {} /\ Spec => []OversellExplained
  <1>1. Init /\ NoReceipt = {} => InventoryInv
    BY InitInventory
  <1>2. QED
    BY <1>1, NextInventory, InventoryExplains, PTL DEF Spec

=============================================================================
