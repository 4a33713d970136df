-------------------------- MODULE SiteAccessProofs --------------------------
(***************************************************************************)
(* Theorems about SiteAccess for any number of administrators, events and  *)
(* deletion requests, whatever the owner may do.  The inductive invariant  *)
(* adds to the invariants the run checks what Stripe's events look like    *)
(* (Announcements), how far the row has followed them (AppliedInOrder) and *)
(* where every deletion request comes from (RequestsAuthorised).           *)
(***************************************************************************)
EXTENDS SiteAccess, TLAPS

Event == [kind : Kinds, at : 0..MaxSecond]
KindAt(n, kind) == n \in DOMAIN events /\ events[n].kind = kind
Decides(n) == events[n].kind \in DOMAIN Verdict

\* No event is from the future or older than Stripe's subscription, and the session
\* is completed once, after the subscription's first events.
Announcements ==
    /\ stripe = "none" => events = <<>>
    /\ \A n \in DOMAIN events : events[n].at <= second
    /\ \A i, c \in DOMAIN events :
          KindAt(i, "incomplete") /\ KindAt(c, "completed") => events[i].at <= events[c].at
    /\ \A c, d \in DOMAIN events :
          KindAt(c, "completed") /\ KindAt(d, "completed") => events[c].at = events[d].at

\* A linked row has seen the session's completion, and the time it keeps is that of
\* the event that decided its status.
AppliedInOrder ==
    /\ subscription.linked =>
          /\ \E c \in DOMAIN events : KindAt(c, "completed")
          /\ \A c \in DOMAIN events :
                KindAt(c, "completed") => events[c].at <= subscription.last
    /\ decider # 0 => /\ subscription.linked /\ Decides(decider)
                      /\ events[decider].at = subscription.last
    /\ \A n \in processed : Decides(n) => events[n].at <= subscription.last

\* The owner's request in flight carries the status it decided on.
OwnerDecided ==
    owner # Calm => /\ owner.status \in Statuses \union {"unchanged"}
                    /\ owner.op \in {"unhold", "take"} => owner.request \in Requests

OwnRequest(d) == request[d].by = Owner /\ request[d].approver = Owner
TwoAdmins(d) == request[d].by \in Admins /\ request[d].approver \in Admins \ {request[d].by}

\* An administrator asks, and the owner or another administrator approves.
RequestsAuthorised ==
    /\ \A d \in Requests :
          /\ request[d].status = "REQUESTED" => request[d].by \in Admins
          /\ request[d].status \in {"APPROVED", "COMPLETED"} => OwnRequest(d) \/ TwoAdmins(d)
          /\ request[d].status = "COMPLETED" => request[d].due = "over"
    /\ site = "gone" => \E d \in Requests : request[d].status = "COMPLETED"

IInv ==
    /\ TypeOK /\ LiveSiteIsEntitled
    /\ Announcements /\ AppliedInOrder
    /\ OwnerDecided /\ RequestsAuthorised

LEMMA InitIInv == Init => IInv
  <1> SUFFICES ASSUME Init PROVE IInv
    OBVIOUS
  <1> USE ConstantsAssumption DEF Init
  <1>1. subscription.status \in {"ACTIVE", "TRIALING"} /\ site = subscription.status
    OBVIOUS
  <1>2. TypeOK
    <2>1. events \in Seq([kind : Kinds, at : 0..MaxSecond]) /\ Len(events) = 0
      OBVIOUS
    <2>2. /\ subscription \in [status : Statuses, linked : BOOLEAN,
                                grace : {"none", "running", "over"}, last : 0..MaxSecond]
          /\ site \in Statuses \union {"gone"}
      BY <1>1 DEF Statuses
    <2>3. owner \in [op : OwnerMay \union {"none"}, request : Requests \union {0},
                     status : Statuses \union {"none", "unchanged"}]
      BY DEF Calm
    <2>4. NoRequest \in
            [status : {"none", "REQUESTED", "APPROVED", "CANCELED", "COMPLETED"},
             by : Admins \union {Owner, Nobody}, approver : Admins \union {Owner, Nobody},
             due : {"no", "counting", "over"}]
      BY DEF NoRequest
    <2>5. /\ processed \subseteq DOMAIN events /\ decider \in 0..Len(events)
          /\ Len(events) <= MaxEvents /\ second \in 0..MaxSecond
      BY <2>1, SMT
    <2>6. /\ exempt \in BOOLEAN /\ trialOver \in BOOLEAN /\ suspending \in BOOLEAN
          /\ stripe = "none" /\ asking \subseteq Admins
      BY Zenon
    <2>7. request = [d \in Requests |-> NoRequest]
      OBVIOUS
    <2> HIDE DEF Init
    <2>8. QED
      BY <2>1, <2>2, <2>3, <2>4, <2>5, <2>6, <2>7 DEF TypeOK
  <1>3. LiveSiteIsEntitled /\ Announcements /\ AppliedInOrder
    BY <1>1 DEF LiveSiteIsEntitled, Announcements, AppliedInOrder
  <1>4. OwnerDecided /\ RequestsAuthorised
    BY <1>1 DEF OwnerDecided, RequestsAuthorised, NoRequest
  <1>5. QED
    BY <1>2, <1>3, <1>4 DEF IInv

-----------------------------------------------------------------------------
(* What a step leaves alone *)

LEMMA BillingFrame ==
    ASSUME Announcements, AppliedInOrder, UNCHANGED billing,
           subscription'.linked = subscription.linked,
           subscription'.last = subscription.last, decider' \in {decider, 0}
    PROVE  Announcements' /\ AppliedInOrder'
  BY DEF Announcements, AppliedInOrder, billing, KindAt, Decides

LEMMA RequestsFrame ==
    ASSUME RequestsAuthorised, UNCHANGED request, site' = "gone" => site = "gone"
    PROVE  RequestsAuthorised'
  BY DEF RequestsAuthorised, OwnRequest, TwoAdmins

LEMMA OwnerFrame ==
    ASSUME OwnerDecided, owner' \in {owner, Calm}
    PROVE  OwnerDecided'
  BY DEF OwnerDecided

LEMMA VerdictFacts ==
    /\ DOMAIN Verdict = Kinds \ {"completed", "incomplete"}
    /\ \A kind \in DOMAIN Verdict : Verdict[kind] \in Statuses
  BY DEF Verdict, Statuses, Kinds

-----------------------------------------------------------------------------
(* Stripe *)

LEMMA EventFacts ==
    ASSUME TypeOK
    PROVE  /\ events \in Seq(Event) /\ Len(events) \in Nat /\ DOMAIN events = 1..Len(events)
           /\ second \in Nat /\ subscription.last \in Nat
           /\ \A n \in DOMAIN events : events[n] \in Event /\ events[n].at \in Nat
                                     /\ events[n].kind \in Kinds
           /\ decider # 0 => decider \in DOMAIN events
  <1>1. events \in Seq(Event) /\ decider \in 0..Len(events)
    BY DEF TypeOK, Event
  <1>2. \A n \in DOMAIN events : events[n] \in Event
    BY <1>1
  <1>3. \A t \in 0..MaxSecond : t \in Nat
    BY ConstantsAssumption
  <1>4. \A e \in Event : e.at \in 0..MaxSecond /\ e.kind \in Kinds
    BY DEF Event
  <1>5. second \in Nat /\ subscription.last \in Nat
    BY <1>3 DEF TypeOK
  <1>6. QED
    BY <1>1, <1>2, <1>3, <1>4, <1>5

LEMMA ConcatFacts ==
    ASSUME NEW S, NEW s \in Seq(S), NEW t \in Seq(S)
    PROVE  /\ s \o t \in Seq(S) /\ Len(s \o t) = Len(s) + Len(t)
           /\ \A n \in 1..Len(s) : (s \o t)[n] = s[n]
           /\ \A n \in (Len(s) + 1)..Len(s \o t) : (s \o t)[n] = t[n - Len(s)]
  OBVIOUS

LEMMA SendsFacts ==
    ASSUME TypeOK, NEW kinds \in Seq(Kinds), Sends(kinds)
    PROVE  /\ events' \in Seq(Event) /\ Len(events') <= MaxEvents
           /\ Len(events) <= Len(events')
           /\ \A n \in DOMAIN events : n \in DOMAIN events' /\ events'[n] = events[n]
           /\ \A n \in DOMAIN events' \ DOMAIN events : \E i \in 1..Len(kinds) :
                 events'[n].kind = kinds[i] /\ events'[n].at = second
  <1> DEFINE new == [i \in 1..Len(kinds) |-> [kind |-> kinds[i], at |-> second]]
  <1>1. new \in Seq(Event) /\ Len(new) = Len(kinds)
    <2>1. Len(kinds) \in Nat /\ \A i \in 1..Len(kinds) : kinds[i] \in Kinds
      OBVIOUS
    <2>2. \A i \in 1..Len(kinds) : [kind |-> kinds[i], at |-> second] \in Event
      BY <2>1 DEF TypeOK, Event
    <2>3. new \in [1..Len(kinds) -> Event]
      BY <2>2
    <2>4. QED
      BY <2>1, <2>3
  <1>2. events' = events \o new /\ Len(events) + Len(kinds) <= MaxEvents
    BY DEF Sends
  <1>3. events \in Seq(Event)
    BY DEF TypeOK, Event
  <1> HIDE DEF new
  <1>4. /\ events' \in Seq(Event) /\ Len(events') = Len(events) + Len(kinds)
        /\ \A n \in 1..Len(events) : events'[n] = events[n]
        /\ \A n \in (Len(events) + 1)..Len(events') : events'[n] = new[n - Len(events)]
    <2>1. /\ events \o new \in Seq(Event) /\ Len(events \o new) = Len(events) + Len(new)
          /\ \A n \in 1..Len(events) : (events \o new)[n] = events[n]
          /\ \A n \in (Len(events) + 1)..Len(events \o new) :
                (events \o new)[n] = new[n - Len(events)]
      BY <1>1, <1>3, ConcatFacts, Zenon
    <2>2. QED
      BY <1>1, <1>2, <2>1, Zenon
  <1>5. /\ DOMAIN events = 1..Len(events) /\ DOMAIN events' = 1..Len(events')
        /\ Len(events) \in Nat /\ Len(kinds) \in Nat
    BY <1>3, <1>4
  <1>6. ASSUME NEW n \in DOMAIN events' \ DOMAIN events
        PROVE  \E i \in 1..Len(kinds) : events'[n].kind = kinds[i] /\ events'[n].at = second
    <2>1. n \in (Len(events) + 1)..Len(events') /\ n - Len(events) \in 1..Len(kinds)
      BY <1>4, <1>5
    <2>2. events'[n] = new[n - Len(events)]
      BY <1>4, <2>1
    <2>3. QED
      BY <2>1, <2>2 DEF new
  <1>7. QED
    BY <1>2, <1>4, <1>5, <1>6

\* Sending events disturbs nothing as long as a session is completed once and the
\* subscription starts with its first events.
LEMMA Announced ==
    ASSUME IInv, NEW kinds \in Seq(Kinds), Sends(kinds),
           UNCHANGED <<subscription, processed, decider, second>>, stripe' # "none",
           \A i \in 1..Len(kinds) : kinds[i] = "completed" =>
              \A n \in DOMAIN events : events[n].kind # "completed",
           \A i \in 1..Len(kinds) : kinds[i] = "incomplete" =>
              events = <<>> /\ \A j \in 1..Len(kinds) : kinds[j] # "completed"
    PROVE  Announcements' /\ AppliedInOrder'
  <1> USE EventFacts DEF KindAt, Decides
  <1>1. TypeOK /\ Announcements /\ AppliedInOrder
    BY DEF IInv
  <1>2. PICK new \in SUBSET DOMAIN events' :
          /\ DOMAIN events' = DOMAIN events \union new
          /\ \A n \in DOMAIN events : events'[n] = events[n]
          /\ \A n \in new : \E i \in 1..Len(kinds) :
                events'[n].kind = kinds[i] /\ events'[n].at = second
    <2> DEFINE later == DOMAIN events' \ DOMAIN events
    <2>1. /\ later \in SUBSET DOMAIN events' /\ DOMAIN events \subseteq DOMAIN events'
          /\ DOMAIN events' = DOMAIN events \union later
      BY <1>1, SendsFacts
    <2>2. QED
      BY <1>1, <2>1, SendsFacts
  <1>4. \A n \in DOMAIN events' : events'[n].at <= second'
    BY <1>1, <1>2 DEF Announcements
  <1>5. ASSUME NEW i \in DOMAIN events', NEW c \in DOMAIN events',
               events'[i].kind = "incomplete", events'[c].kind = "completed"
        PROVE  events'[i].at <= events'[c].at
    <2>1. CASE c \in new
      BY <1>2, <1>4, <2>1, <1>5
    <2>2. CASE i \in new
      BY <1>2, <2>2, <1>5
    <2>3. CASE i \in DOMAIN events /\ c \in DOMAIN events
      BY <1>1, <1>2, <2>3, <1>5 DEF Announcements
    <2>4. QED
      BY <1>2, <2>1, <2>2, <2>3
  <1>6. ASSUME NEW c \in DOMAIN events', NEW d \in DOMAIN events',
               events'[c].kind = "completed", events'[d].kind = "completed"
        PROVE  events'[c].at = events'[d].at
    BY <1>1, <1>2, <1>6 DEF Announcements
  <1>7. Announcements'
    BY <1>4, <1>5, <1>6 DEF Announcements
  <1>8. AppliedInOrder'
    <2>1. processed \subseteq DOMAIN events /\ (decider # 0 => decider \in DOMAIN events)
      BY <1>1 DEF TypeOK
    <2>2. subscription.linked =>
            \A c \in new : events'[c].kind # "completed"
      BY <1>1, <1>2 DEF AppliedInOrder
    <2>3. QED
      BY <1>1, <1>2, <2>1, <2>2 DEF AppliedInOrder
  <1>9. QED
    BY <1>7, <1>8

-----------------------------------------------------------------------------
(* The steps of Stripe *)

LEMMA StripeStepStep ==
    ASSUME IInv, NEW from, NEW to \in {"trialing", "active", "past_due", "paused", "canceled"},
           NEW kinds \in Seq(Kinds), StripeStep(from, to, kinds),
           \A i \in 1..Len(kinds) : kinds[i] = "completed" =>
              \A n \in DOMAIN events : events[n].kind # "completed",
           \A i \in 1..Len(kinds) : kinds[i] = "incomplete" =>
              from = {"none"} /\ \A j \in 1..Len(kinds) : kinds[j] # "completed"
    PROVE  IInv'
  <1> USE DEF StripeStep, deletions
  <1>1. TypeOK'
    <2>1. /\ events' \in Seq(Event) /\ Len(events') <= MaxEvents
          /\ Len(events) <= Len(events') /\ DOMAIN events \subseteq DOMAIN events'
      BY SendsFacts DEF IInv
    <2>2. Len(events) \in Nat /\ Len(events') \in Nat
      BY <2>1, EventFacts DEF IInv
    <2>3. QED
      BY <2>1, <2>2 DEF TypeOK, IInv, Event
  <1>2. Announcements' /\ AppliedInOrder'
    <2>1. Sends(kinds) /\ UNCHANGED <<subscription, processed, decider, second>>
          /\ stripe' # "none"
      OBVIOUS
    <2>2. \A i \in 1..Len(kinds) : kinds[i] = "incomplete" => events = <<>>
      BY DEF IInv, Announcements
    <2>3. QED
      BY <2>1, <2>2, Announced
  <1>3. LiveSiteIsEntitled' /\ OwnerDecided' /\ RequestsAuthorised'
    BY OwnerFrame, RequestsFrame DEF IInv, LiveSiteIsEntitled
  <1>4. QED
    BY <1>1, <1>2, <1>3 DEF IInv

KindsSent == {"completed", "incomplete", "paid", "payment_failed", "deleted", "paused",
              "active", "trialing", "past_due"}

LEMMA KindsAre == Kinds = KindsSent
  BY DEF Kinds, Verdict, KindsSent

LEMMA StripeStepOne ==
    ASSUME IInv, NEW from, NEW to \in {"trialing", "active", "past_due", "paused", "canceled"},
           NEW k \in KindsSent \ {"incomplete"}, StripeStep(from, to, <<k>>),
           k = "completed" => \A n \in DOMAIN events : events[n].kind # "completed"
    PROVE  IInv'
  <1> DEFINE kinds == <<k>>
  <1>1. kinds \in Seq(Kinds) /\ \A i \in 1..Len(kinds) : kinds[i] = k
    BY KindsAre
  <1>2. StripeStep(from, to, kinds)
    OBVIOUS
  <1> HIDE DEF kinds
  <1>3. QED
    BY <1>1, <1>2, StripeStepStep

LEMMA StripeStepTwo ==
    ASSUME IInv, NEW from, NEW to \in {"trialing", "active", "past_due", "paused", "canceled"},
           NEW k \in KindsSent \ {"completed"}, NEW l \in KindsSent \ {"completed", "incomplete"},
           StripeStep(from, to, <<k, l>>), k = "incomplete" => from = {"none"}
    PROVE  IInv'
  <1> DEFINE kinds == <<k, l>>
  <1>1. kinds \in Seq(Kinds) /\ \A i \in 1..Len(kinds) : kinds[i] \in {k, l}
    BY KindsAre
  <1>2. StripeStep(from, to, kinds)
    OBVIOUS
  <1> HIDE DEF kinds
  <1>3. QED
    BY <1>1, <1>2, StripeStepStep

LEMMA StripeSteps ==
    ASSUME IInv, \/ StripeSubscribes \/ CheckoutCompletes \/ StripeRenews \/ StripeFails
                 \/ StripePauses \/ StripeCancels \/ StripeUpdates
    PROVE  IInv'
  <1> USE DEF KindsSent
  <1>1. CASE StripeSubscribes
    <2>1. CASE StripeStep({"none"}, "trialing", <<"trialing">>)
      BY <2>1, StripeStepOne
    <2>2. CASE StripeStep({"none"}, "active", <<"incomplete", "paid">>)
      BY <2>2, StripeStepTwo
    <2>3. QED
      BY <1>1, <2>1, <2>2 DEF StripeSubscribes
  <1>2. CASE CheckoutCompletes
    <2>1. PICK s \in {"trialing", "active"} : StripeStep({s}, s, <<"completed">>)
      BY <1>2 DEF CheckoutCompletes
    <2>2. \A n \in DOMAIN events : events[n].kind # "completed"
      BY <1>2 DEF CheckoutCompletes
    <2>3. QED
      BY <2>1, <2>2, StripeStepOne
  <1>3. CASE StripeRenews
    <2>1. PICK kind \in {"active", "paid"} :
             StripeStep({"trialing", "active", "past_due", "paused"}, "active", <<kind>>)
      BY <1>3 DEF StripeRenews
    <2>2. QED
      BY <2>1, StripeStepOne
  <1>4. CASE StripeFails
    <2>1. PICK kind \in {"past_due", "payment_failed"} :
             StripeStep({"trialing", "active"}, "past_due", <<kind>>)
      BY <1>4 DEF StripeFails
    <2>2. QED
      BY <2>1, StripeStepOne
  <1>5. CASE StripePauses
    BY <1>5, StripeStepOne DEF StripePauses
  <1>6. CASE StripeCancels
    BY <1>6, StripeStepOne DEF StripeCancels
  <1>7. CASE StripeUpdates
    <2>1. PICK s \in {"trialing", "active", "past_due"} : StripeStep({s}, s, <<s>>)
      BY <1>7 DEF StripeUpdates
    <2>2. QED
      BY <2>1, StripeStepOne
  <1>8. QED
    BY <1>1, <1>2, <1>3, <1>4, <1>5, <1>6, <1>7

-----------------------------------------------------------------------------
(* Clocks and the hourly job *)

LEMMA ClockSteps ==
    ASSUME IInv, SecondPasses \/ TrialEnds \/ GraceEnds
    PROVE  IInv'
  <1> USE DEF SecondPasses, TrialEnds, GraceEnds, billing, deletions
  <1>1. subscription'.status = subscription.status /\ subscription'.linked = subscription.linked
        /\ subscription'.last = subscription.last
    BY DEF IInv, TypeOK
  <1>2. TypeOK'
    <2>1. CASE SecondPasses
      BY <2>1, ConstantsAssumption DEF IInv, TypeOK
    <2>2. CASE TrialEnds
      BY <2>2, ConstantsAssumption DEF IInv, TypeOK
    <2>3. CASE GraceEnds
      BY <2>3 DEF IInv, TypeOK
    <2>4. QED
      BY <2>1, <2>2, <2>3
  <1>3. Announcements' /\ AppliedInOrder'
    <2>1. UNCHANGED <<events, processed, decider, stripe>>
      OBVIOUS
    <2>2. second' \in Nat /\ second <= second'
      BY EventFacts DEF IInv
    <2>3. Announcements'
      BY <2>1, <2>2, EventFacts DEF IInv, Announcements, KindAt
    <2>4. AppliedInOrder'
      BY <1>1, <2>1 DEF IInv, AppliedInOrder, KindAt, Decides
    <2>5. QED
      BY <2>3, <2>4
  <1>4. LiveSiteIsEntitled' /\ OwnerDecided' /\ RequestsAuthorised'
    BY <1>1, OwnerFrame, RequestsFrame DEF IInv, LiveSiteIsEntitled
  <1>5. QED
    BY <1>2, <1>3, <1>4 DEF IInv

LEMMA SynchronizeAccessStep ==
    ASSUME IInv, SynchronizeAccess
    PROVE  IInv'
  <1> USE DEF SynchronizeAccess, SetStatus, billing, deletions
  <1>1. TypeOK'
    BY DEF IInv, TypeOK, Statuses
  <1>2. Announcements' /\ AppliedInOrder'
    BY BillingFrame DEF IInv, TypeOK
  <1>3. LiveSiteIsEntitled' /\ OwnerDecided' /\ RequestsAuthorised'
    BY OwnerFrame, RequestsFrame DEF IInv, LiveSiteIsEntitled, Live
  <1>4. QED
    BY <1>1, <1>2, <1>3 DEF IInv

-----------------------------------------------------------------------------
(* Webhooks *)

LEMMA DeliverStep ==
    ASSUME IInv, NEW n \in DOMAIN events, Deliver(n)
    PROVE  IInv'
  <1> DEFINE kind == events[n].kind
  <1>0. /\ TypeOK /\ Announcements /\ AppliedInOrder
        /\ kind \in Kinds /\ events[n].at \in Nat /\ events[n].at \in 0..MaxSecond
        /\ subscription.last \in Nat /\ site # "gone"
    BY EventFacts DEF IInv, Deliver, Exists, Event
  <1>1. UNCHANGED <<exempt, trialOver, stripe, second, events, owner, suspending, asking, request>>
        /\ processed' \in {processed, processed \union {n}}
    BY DEF Deliver, deletions
  <1>2. \/ Stale(n) /\ UNCHANGED <<subscription, site, decider>>
        \/ /\ ~Stale(n) /\ kind = "completed" /\ UNCHANGED <<site, decider>>
           /\ subscription' = [subscription EXCEPT !.linked = TRUE, !.last = events[n].at]
        \/ /\ ~Stale(n) /\ kind = "incomplete" /\ UNCHANGED <<site, decider>>
           /\ subscription' = [subscription EXCEPT !.last = events[n].at] /\ subscription.linked
        \/ /\ ~Stale(n) /\ kind \in DOMAIN Verdict /\ subscription.linked
           /\ site' = Verdict[kind] /\ decider' = n
           /\ subscription' = [subscription EXCEPT !.status = Verdict[kind],
                                  !.grace = GraceAfter(kind), !.last = events[n].at]
    BY VerdictFacts DEF Deliver
  <1>3. subscription' \in [status : Statuses, linked : BOOLEAN,
                           grace : {"none", "running", "over"}, last : 0..MaxSecond]
    <2>1. GraceAfter(kind) \in {"none", "running", "over"}
      BY <1>0 DEF GraceAfter, TypeOK
    <2>2. subscription \in [status : Statuses, linked : BOOLEAN,
                            grace : {"none", "running", "over"}, last : 0..MaxSecond]
      BY <1>0 DEF TypeOK
    <2>3. QED
      BY <1>0, <1>2, <2>1, <2>2, VerdictFacts
  <1>a. subscription'.status = site' \/ (subscription'.status = subscription.status
                                              /\ site' = site)
    BY <1>0, <1>2 DEF TypeOK
  <1>b. site' \in Statuses
    BY <1>0, <1>2, VerdictFacts DEF TypeOK
  <1>4. TypeOK'
    <2>1. decider' \in {decider, n} /\ processed' \subseteq DOMAIN events
      BY <1>0, <1>1, <1>2 DEF TypeOK
    <2>2. decider' \in 0..Len(events)
      BY <1>0, <2>1, EventFacts DEF TypeOK
    <2>3. QED
      BY <1>0, <1>1, <1>3, <1>b, <2>1, <2>2 DEF TypeOK
  <1>5. Announcements'
    BY <1>0, <1>1 DEF Announcements, KindAt
  \* An event that is not stale moves the time kept forward, and one that decides
  \* nothing leaves it where the deciding event put it.
  <1>6. /\ subscription'.last \in Nat /\ subscription.last <= subscription'.last
        /\ Decides(n) => events[n].at <= subscription'.last
        /\ \/ /\ decider' = decider /\ subscription'.last = subscription.last /\ subscription'.linked = subscription.linked
           \/ /\ decider' = n /\ Decides(n) /\ subscription.linked
              /\ subscription'.last = events[n].at /\ subscription'.linked = subscription.linked
           \/ /\ kind \in {"completed", "incomplete"}
              /\ decider' = decider /\ subscription'.last = events[n].at
              /\ kind = "incomplete" => subscription.linked /\ subscription'.linked = subscription.linked
              /\ kind = "completed" => subscription'.linked
    <2>1. subscription \in [status : Statuses, linked : BOOLEAN,
                            grace : {"none", "running", "over"}, last : 0..MaxSecond]
      BY <1>0 DEF TypeOK
    <2>2. CASE Stale(n) /\ UNCHANGED <<subscription, site, decider>>
      <3>1. subscription' = subscription /\ decider' = decider
        BY <2>2
      <3>2. events[n].at < subscription.last
        BY <2>2 DEF Stale
      <3>3. QED
        BY <1>0, <3>1, <3>2
    <2>3. ASSUME ~Stale(n), subscription'.last = events[n].at
          PROVE  subscription'.last \in Nat /\ subscription.last <= subscription'.last
                 /\ events[n].at <= subscription'.last
      BY <1>0, <2>3 DEF Stale
    <2>4. CASE /\ ~Stale(n) /\ kind = "completed" /\ UNCHANGED <<site, decider>>
               /\ subscription' = [subscription EXCEPT !.linked = TRUE, !.last = events[n].at]
      <3>1. subscription'.last = events[n].at /\ subscription'.linked = TRUE /\ decider' = decider
        BY <2>1, <2>4
      <3>2. QED
        BY <2>3, <2>4, <3>1
    <2>5. CASE /\ ~Stale(n) /\ kind = "incomplete" /\ UNCHANGED <<site, decider>>
               /\ subscription' = [subscription EXCEPT !.last = events[n].at]
               /\ subscription.linked
      <3>1. subscription'.last = events[n].at /\ subscription'.linked = subscription.linked
            /\ decider' = decider
        BY <2>1, <2>5
      <3>2. QED
        BY <2>3, <2>5, <3>1
    <2>6. CASE /\ ~Stale(n) /\ kind \in DOMAIN Verdict /\ subscription.linked
               /\ site' = Verdict[kind] /\ decider' = n
               /\ subscription' = [subscription EXCEPT !.status = Verdict[kind],
                                      !.grace = GraceAfter(kind), !.last = events[n].at]
      <3>1. subscription'.last = events[n].at /\ subscription'.linked = subscription.linked
            /\ decider' = n
        BY <2>1, <2>6
      <3>2. Decides(n)
        BY <2>6 DEF Decides
      <3>3. QED
        BY <2>3, <2>6, <3>1, <3>2
    <2>7. QED
      BY <1>2, <2>2, <2>4, <2>5, <2>6
  <1>7. AppliedInOrder'
    <2>1. /\ UNCHANGED events /\ DOMAIN events = 1..Len(events)
          /\ \A m \in DOMAIN events : events[m].at \in Nat
          /\ processed \subseteq DOMAIN events
      BY <1>0, <1>1, EventFacts DEF TypeOK
    <2>2. subscription'.linked =>
             /\ \E c \in DOMAIN events : KindAt(c, "completed")
             /\ \A c \in DOMAIN events :
                   KindAt(c, "completed") => events[c].at <= subscription'.last
      <3>1. CASE subscription.linked
        BY <1>0, <1>6, <2>1, <3>1 DEF AppliedInOrder
      <3>2. CASE ~subscription.linked /\ subscription'.linked
        <4>1. KindAt(n, "completed") /\ subscription'.last = events[n].at
          BY <1>6, <3>2 DEF KindAt
        <4>2. QED
          BY <1>0, <2>1, <4>1 DEF Announcements
      <3>3. QED
        BY <3>1, <3>2
    <2>3. decider' # 0 => /\ subscription'.linked /\ Decides(decider')
                          /\ events[decider'].at = subscription'.last
      BY <1>0, <1>6, <2>1 DEF AppliedInOrder, Announcements, KindAt, Decides
    <2>4. \A m \in processed' : Decides(m) => events[m].at <= subscription'.last
      BY <1>0, <1>1, <1>6, <2>1 DEF AppliedInOrder, Decides
    <2>5. QED
      BY <2>1, <2>2, <2>3, <2>4 DEF AppliedInOrder, KindAt, Decides
  <1>8. LiveSiteIsEntitled'
    BY <1>1, <1>a DEF IInv, LiveSiteIsEntitled
  <1>9. OwnerDecided' /\ RequestsAuthorised'
    <2>1. site' # "gone"
      BY <1>b DEF Statuses
    <2>2. QED
      BY <1>1, <2>1, OwnerFrame, RequestsFrame DEF IInv
  <1>10. QED
    BY <1>4, <1>5, <1>7, <1>8, <1>9 DEF IInv

-----------------------------------------------------------------------------
(* The owner *)

LEMMA SyncFacts ==
    ASSUME IInv, SyncCancelSchedule,
           UNCHANGED <<subscription, processed, decider, second, stripe>>
    PROVE  /\ events' \in Seq(Event) /\ Len(events') <= MaxEvents
           /\ Len(events) <= Len(events') /\ DOMAIN events \subseteq DOMAIN events'
           /\ Announcements' /\ AppliedInOrder'
  <1>1. CASE subscription.linked
    <2>1. stripe \in KindsSent \ {"completed", "incomplete"} /\ Sends(<<stripe>>)
      <3>1. events # <<>>
        BY <1>1 DEF IInv, AppliedInOrder
      <3>2. stripe # "none" /\ stripe # "canceled" /\ Sends(<<stripe>>)
        BY <1>1, <3>1 DEF SyncCancelSchedule, IInv, Announcements
      <3>3. stripe \in {"none", "trialing", "active", "past_due", "paused", "canceled"}
        BY DEF IInv, TypeOK
      <3>4. QED
        BY <3>2, <3>3 DEF KindsSent
    <2>2. PICK kinds \in Seq(Kinds) : kinds = <<stripe>>
      <3>1. stripe \in Kinds
        BY <2>1, KindsAre
      <3>2. <<stripe>> \in Seq(Kinds)
        BY <3>1
      <3>3. QED
        BY <3>2
    <2>3. Sends(kinds) /\ \A i \in 1..Len(kinds) : kinds[i] \notin {"completed", "incomplete"}
      BY <2>1, <2>2
    <2>4. stripe' # "none"
      BY <2>1 DEF KindsSent
    <2>5. QED
      BY <2>3, <2>4, SendsFacts, Announced DEF IInv
  <1>2. CASE ~subscription.linked
    BY <1>2, EventFacts DEF SyncCancelSchedule, IInv, TypeOK, Event, Announcements,
       AppliedInOrder, KindAt, Decides
  <1>3. QED
    BY <1>1, <1>2

LEMMA OwnerBeginsStep ==
    ASSUME IInv, OwnerBegins
    PROVE  IInv'
  <1>1. PICK op \in OwnerMay, status \in Statuses \union {"unchanged"}, d \in Requests \union {0} :
           OwnerReads(op, status, d) /\ op # "take" /\ (op = "unhold" => d \in Requests)
    <2>1. ResumedStatus # "refused" => ResumedStatus \in Statuses
      BY DEF ResumedStatus, Statuses
    <2>2. {"SUSPENDED", "CANCELED"} \subseteq Statuses
      BY DEF Statuses
    <2>3. QED
      BY <2>1, <2>2 DEF OwnerBegins, OwnerReads
  <1>2. SyncCancelSchedule \/ UNCHANGED events
    BY DEF OwnerBegins
  <1>3. UNCHANGED <<subscription, site, exempt, trialOver, stripe, second, processed,
                    suspending, asking, request, decider>>
        /\ owner' = [op |-> op, status |-> status, request |-> d]
    BY <1>1 DEF OwnerReads, deletions
  <1>4. /\ events' \in Seq(Event) /\ Len(events') <= MaxEvents
        /\ Len(events) <= Len(events') /\ DOMAIN events \subseteq DOMAIN events'
        /\ Announcements' /\ AppliedInOrder'
    <2>1. CASE SyncCancelSchedule
      BY <1>3, <2>1, SyncFacts
    <2>2. CASE UNCHANGED events
      BY <1>3, <2>2, EventFacts DEF IInv, TypeOK, Event, Announcements, AppliedInOrder,
         KindAt, Decides
    <2>3. QED
      BY <1>2, <2>1, <2>2
  <1>5. TypeOK'
    <2>1. Len(events) \in Nat /\ Len(events') \in Nat
      BY <1>4, EventFacts DEF IInv
    <2>2. processed' \subseteq DOMAIN events' /\ decider' \in 0..Len(events')
      BY <1>3, <1>4, <2>1 DEF IInv, TypeOK
    <2>3. owner' \in [op : OwnerMay \union {"none", "create", "take"}, request : Requests \union {0},
                      status : Statuses \union {"none", "unchanged"}]
      BY <1>3
    <2>4. QED
      BY <1>3, <1>4, <2>2, <2>3 DEF IInv, TypeOK, Event
  <1>6. OwnerDecided'
    BY <1>1, <1>3 DEF OwnerDecided
  <1>7. LiveSiteIsEntitled' /\ RequestsAuthorised'
    BY <1>3, RequestsFrame DEF IInv, LiveSiteIsEntitled
  <1>8. QED
    BY <1>4, <1>5, <1>6, <1>7 DEF IInv

LEMMA HoldLooksStep ==
    ASSUME IInv, HoldLooks
    PROVE  IInv'
  <1>1. UNCHANGED <<subscription, site, exempt, trialOver, billing, suspending, request, asking,
                    decider>>
    BY DEF HoldLooks, deletions
  <1>2. owner.op = "hold" /\ owner # Calm
    <2>1. Calm.op = "none"
      BY DEF Calm
    <2>2. QED
      BY <2>1 DEF HoldLooks
  <1>3. TypeOK' /\ OwnerDecided'
    <2> DEFINE Mind == [op : OwnerMay \union {"none", "create", "take"},
                        request : Requests \union {0},
                        status : Statuses \union {"none", "unchanged"}]
    <2>1. owner \in Mind /\ owner.status \in Statuses \union {"unchanged"}
      BY <1>2 DEF IInv, TypeOK, OwnerDecided
    <2>2. /\ owner' \in Mind /\ owner'.status = owner.status
          /\ owner'.op = "create" \/ (owner'.op = "take" /\ owner'.request \in Requests)
      <3>1. CASE owner' = [owner EXCEPT !.op = "create"]
        BY <2>1, <3>1
      <3>2. ASSUME NEW d \in Requests, owner' = [owner EXCEPT !.op = "take", !.request = d]
            PROVE  /\ owner' \in Mind /\ owner'.status = owner.status
                   /\ owner'.op = "take" /\ owner'.request \in Requests
        BY <2>1, <3>2
      <3>3. QED
        BY <3>1, <3>2 DEF HoldLooks
    <2>3. OwnerDecided'
      BY <2>1, <2>2 DEF OwnerDecided
    <2>4. TypeOK'
      BY <1>1, <2>2 DEF IInv, TypeOK, billing
    <2>5. QED
      BY <2>3, <2>4
  <1>4. Announcements' /\ AppliedInOrder'
    BY <1>1, BillingFrame DEF IInv
  <1>5. LiveSiteIsEntitled' /\ RequestsAuthorised'
    BY <1>1, RequestsFrame DEF IInv, LiveSiteIsEntitled
  <1>6. QED
    BY <1>3, <1>4, <1>5 DEF IInv

LEMMA OwnerCommitsStep ==
    ASSUME IInv, OwnerCommits
    PROVE  IInv'
  <1> DEFINE Row == [status : {"none", "REQUESTED", "APPROVED", "CANCELED", "COMPLETED"},
                     by : Admins \union {Owner, Nobody}, approver : Admins \union {Owner, Nobody},
                     due : {"no", "counting", "over"}]
  <1>1. /\ TypeOK /\ site # "gone" /\ owner # Calm /\ owner' = Calm
        /\ UNCHANGED <<exempt, trialOver, stripe, second, events, processed, suspending, asking>>
    BY DEF OwnerCommits, Exists, IInv, billing
  <1>2. \/ UNCHANGED <<subscription, site, decider>>
        \/ /\ owner.status \in Statuses /\ decider' = 0 /\ site' = owner.status
           /\ subscription' = [subscription EXCEPT !.status = owner.status]
    BY <1>1 DEF OwnerCommits, SetStatus, OwnerDecided, IInv
  <1>3. site' # "gone" /\ site' \in Statuses
    BY <1>1, <1>2 DEF Statuses, TypeOK
  <1>4. /\ subscription' \in [status : Statuses, linked : BOOLEAN,
                              grace : {"none", "running", "over"}, last : 0..MaxSecond]
        /\ subscription'.linked = subscription.linked /\ subscription'.last = subscription.last
        /\ decider' \in {decider, 0}
        /\ subscription'.status = site' \/ UNCHANGED <<subscription, site>>
    BY <1>1, <1>2 DEF TypeOK
  <1>5. \/ UNCHANGED request
        \/ \E d \in Requests : \/ request' = [request EXCEPT ![d] = Held(@)]
                              \/ request' = [request EXCEPT ![d].status = "CANCELED"]
    BY DEF OwnerCommits, OwnerDecided, IInv
  <1>6. request' \in [Requests -> Row] /\ RequestsAuthorised'
    <2>1. request \in [Requests -> Row] /\ RequestsAuthorised
      BY DEF IInv, TypeOK
    <2>2. CASE UNCHANGED request
      BY <1>3, <2>1, <2>2, RequestsFrame
    <2>3. ASSUME NEW d \in Requests, request' = [request EXCEPT ![d].status = "CANCELED"]
          PROVE  request' \in [Requests -> Row] /\ RequestsAuthorised'
      BY <1>3, <2>1, <2>3 DEF RequestsAuthorised, OwnRequest, TwoAdmins
    <2>4. ASSUME NEW d \in Requests, request' = [request EXCEPT ![d] = Held(@)]
          PROVE  request' \in [Requests -> Row] /\ RequestsAuthorised'
      BY <1>3, <2>1, <2>4 DEF Held, RequestsAuthorised, OwnRequest, TwoAdmins
    <2>5. QED
      BY <1>5, <2>2, <2>3, <2>4
  <1>7. TypeOK'
    BY <1>1, <1>3, <1>4, <1>6 DEF TypeOK, Calm
  <1>8. Announcements' /\ AppliedInOrder'
    BY <1>1, <1>4, BillingFrame DEF IInv, billing
  <1>9. LiveSiteIsEntitled' /\ OwnerDecided'
    BY <1>1, <1>4, OwnerFrame DEF IInv, LiveSiteIsEntitled
  <1>10. QED
    BY <1>6, <1>7, <1>8, <1>9 DEF IInv

LEMMA OwnerFailsStep ==
    ASSUME IInv, OwnerFails
    PROVE  IInv'
  <1> USE DEF OwnerFails, deletions
  <1>1. TypeOK'
    BY DEF IInv, TypeOK, Calm, billing
  <1>2. Announcements' /\ AppliedInOrder'
    BY BillingFrame DEF IInv
  <1>3. LiveSiteIsEntitled' /\ OwnerDecided' /\ RequestsAuthorised'
    BY OwnerFrame, RequestsFrame DEF IInv, LiveSiteIsEntitled
  <1>4. QED
    BY <1>1, <1>2, <1>3 DEF IInv

-----------------------------------------------------------------------------
(* The administrators *)

\* Between its two saves suspend_site is excused; after them the site is down.
LEMMA SuspendSteps ==
    ASSUME IInv, SuspendSubscription \/ SuspendSite
    PROVE  IInv'
  <1> USE DEF SuspendSubscription, SuspendSite, deletions, Exists
  <1>1. TypeOK'
    <2>1. CASE SuspendSubscription
      BY <2>1, ConstantsAssumption DEF IInv, TypeOK, Statuses, billing
    <2>2. CASE SuspendSite
      <3>1. site' \in Statuses \union {"gone"} /\ suspending' \in BOOLEAN
        BY <2>2 DEF IInv, TypeOK, Statuses
      <3>2. UNCHANGED <<subscription, exempt, trialOver, stripe, second, events, processed,
                        owner, asking, request, decider>>
        BY <2>2 DEF billing
      <3> HIDE DEF SuspendSite
      <3>3. QED
        BY <3>1, <3>2 DEF IInv, TypeOK
    <2>3. QED
      BY <2>1, <2>2
  <1>2. Announcements' /\ AppliedInOrder'
    BY BillingFrame DEF IInv, TypeOK
  <1>3. LiveSiteIsEntitled' /\ OwnerDecided' /\ RequestsAuthorised'
    BY OwnerFrame, RequestsFrame DEF IInv, LiveSiteIsEntitled, Live
  <1>4. QED
    BY <1>1, <1>2, <1>3 DEF IInv

LEMMA AdminChecksStep ==
    ASSUME IInv, NEW a \in Admins, AdminChecks(a)
    PROVE  IInv'
  <1> USE DEF AdminChecks
  <1>1. TypeOK'
    BY DEF IInv, TypeOK, billing
  <1>2. Announcements' /\ AppliedInOrder'
    BY BillingFrame DEF IInv
  <1>3. LiveSiteIsEntitled' /\ OwnerDecided' /\ RequestsAuthorised'
    BY OwnerFrame, RequestsFrame DEF IInv, LiveSiteIsEntitled
  <1>4. QED
    BY <1>1, <1>2, <1>3 DEF IInv

\* A change of the requests that keeps their types and leaves site, row and billing
\* alone has only to keep the requests authorised.
LEMMA RequestChange ==
    ASSUME IInv, RequestsAuthorised', asking' \subseteq asking,
           request' \in [Requests ->
              [status : {"none", "REQUESTED", "APPROVED", "CANCELED", "COMPLETED"},
               by : Admins \union {Owner, Nobody}, approver : Admins \union {Owner, Nobody},
               due : {"no", "counting", "over"}]],
           UNCHANGED <<subscription, exempt, trialOver, billing, owner, suspending, decider>>,
           site' \in {site, "gone"}
    PROVE  IInv'
  <1>1. TypeOK'
    BY DEF IInv, TypeOK, billing
  <1>2. Announcements' /\ AppliedInOrder'
    BY BillingFrame DEF IInv
  <1>3. LiveSiteIsEntitled' /\ OwnerDecided'
    BY OwnerFrame DEF IInv, LiveSiteIsEntitled, Live
  <1>4. QED
    BY <1>1, <1>2, <1>3 DEF IInv

LEMMA RequestSteps ==
    ASSUME IInv, NEW d \in Requests,
           \/ CancelDeletion(d) \/ DeletionDue(d) \/ ExecuteDeletion(d)
           \/ \E a \in Admins : AdminRequests(a, d) \/ Approve(a, d)
    PROVE  IInv'
  <1> DEFINE Row == [status : {"none", "REQUESTED", "APPROVED", "CANCELED", "COMPLETED"},
                     by : Admins \union {Owner, Nobody}, approver : Admins \union {Owner, Nobody},
                     due : {"no", "counting", "over"}]
  <1> USE DEF RequestsAuthorised, OwnRequest, TwoAdmins
  <1>1. request \in [Requests -> Row] /\ RequestsAuthorised
    BY DEF IInv, TypeOK
  <1>2. CASE CancelDeletion(d)
    <2>1. request' \in [Requests -> Row] /\ RequestsAuthorised'
      BY <1>1, <1>2 DEF CancelDeletion, RequestStep, Pending
    <2>2. QED
      BY <1>2, <2>1, RequestChange DEF CancelDeletion, RequestStep
  <1>3. CASE DeletionDue(d)
    <2>1. request' \in [Requests -> Row] /\ RequestsAuthorised'
      BY <1>1, <1>3 DEF DeletionDue, RequestStep
    <2>2. QED
      BY <1>3, <2>1, RequestChange DEF DeletionDue, RequestStep
  <1>4. CASE ExecuteDeletion(d)
    <2>1. request' \in [Requests -> Row] /\ RequestsAuthorised'
      BY <1>1, <1>4 DEF ExecuteDeletion, RequestStep
    <2>2. QED
      BY <1>4, <2>1, RequestChange DEF ExecuteDeletion, RequestStep
  <1>5. ASSUME NEW a \in Admins, AdminRequests(a, d)
        PROVE  IInv'
    <2>1. request' \in [Requests -> Row] /\ RequestsAuthorised'
      BY <1>1, <1>5 DEF AdminRequests, Unused, Exists
    <2>2. QED
      BY <1>5, <2>1, RequestChange DEF AdminRequests
  <1>6. ASSUME NEW a \in Admins, Approve(a, d)
        PROVE  IInv'
    <2>1. request' \in [Requests -> Row] /\ RequestsAuthorised'
      <3>1. /\ request[d].status = "REQUESTED" /\ request[d].by # a
            /\ request' = [request EXCEPT ![d] = [request[d] EXCEPT
                              !.status = "APPROVED", !.approver = a, !.due = "counting"]]
            /\ UNCHANGED site
        BY <1>6 DEF Approve, RequestStep
      <3>2. request[d] \in Row /\ request[d].by \in Admins
        BY <1>1, <3>1
      <3>3. /\ request'[d] \in Row /\ request'[d].status = "APPROVED"
            /\ request'[d].by = request[d].by /\ request'[d].approver = a
        BY <1>1, <3>1, <3>2
      <3>4. \A e \in Requests \ {d} : request'[e] = request[e]
        BY <1>1, <3>1
      <3>5. request' \in [Requests -> Row]
        BY <1>1, <3>1, <3>3, <3>4
      <3>6. RequestsAuthorised'
        BY <1>1, <3>1, <3>2, <3>3, <3>4
      <3>7. QED
        BY <3>5, <3>6
    <2>2. QED
      BY <1>6, <2>1, RequestChange DEF Approve, RequestStep
  <1>7. QED
    BY <1>2, <1>3, <1>4, <1>5, <1>6

-----------------------------------------------------------------------------
(* The theorems *)

LEMMA NextIInv == IInv /\ [Next]_vars => IInv'
  <1> SUFFICES ASSUME IInv, [Next]_vars PROVE IInv'
    OBVIOUS
  <1>1. CASE UNCHANGED vars
    <2>1. /\ TypeOK' /\ LiveSiteIsEntitled' /\ Announcements' /\ AppliedInOrder'
          /\ OwnerDecided' /\ RequestsAuthorised'
      BY <1>1, BillingFrame, OwnerFrame, RequestsFrame
         DEF IInv, vars, TypeOK, LiveSiteIsEntitled, billing
    <2>2. QED
      BY <2>1 DEF IInv
  <1>2. CASE Next
    BY <1>2, StripeSteps, ClockSteps, SynchronizeAccessStep, DeliverStep, OwnerBeginsStep,
       HoldLooksStep, OwnerCommitsStep, OwnerFailsStep, SuspendSteps, AdminChecksStep, RequestSteps DEF Next
  <1>3. QED
    BY <1>1, <1>2

\* All of the above holds in every reachable state.
THEOREM SpecIInv == Spec => []IInv
  BY InitIInv, NextIInv, PTL DEF Spec

\* Rows, events and requests always hold values of their types.
THEOREM SpecTypeOK == Spec => []TypeOK
  BY SpecIInv, PTL DEF IInv

\* A live site's subscription says the same as the site, except between the two
\* saves of suspend_site.
THEOREM SpecLiveSiteIsEntitled == Spec => []LiveSiteIsEntitled
  BY SpecIInv, PTL DEF IInv

\* However webhooks are delayed or repeated, the event that decided the status is
\* not older than any other that was processed.
THEOREM SpecNewestDecides == Spec => []NewestDecides
  <1>1. IInv => NewestDecides
    BY DEF IInv, AppliedInOrder, NewestDecides, Decides
  <1>2. QED
    BY <1>1, SpecIInv, PTL

\* No site is deleted without its owner's request or two different administrators.
THEOREM SpecDeletionAuthorised == Spec => []DeletionAuthorised
  <1>1. IInv => DeletionAuthorised
    BY DEF IInv, RequestsAuthorised, OwnRequest, TwoAdmins, DeletionAuthorised
  <1>2. QED
    BY <1>1, SpecIInv, PTL

-----------------------------------------------------------------------------
(* SiteAccess implements SiteDeletion *)

\* A request the owner has found exists, an unwritten one has nobody's agreement, and a
\* completed one has taken the site with it.
RequestsKept ==
    /\ owner.op \in {"unhold", "take"} => request[owner.request].status # "none"
    /\ \A d \in Requests : /\ request[d].status = "COMPLETED" => site = "gone"
                           /\ request[d].status = "APPROVED" => request[d].due # "no"
                           /\ request[d].status = "none" => request[d].approver = Nobody

DeletionInv == IInv /\ RequestsKept

\* A deleted site stays deleted, whatever was under way.
LEMMA GoneForGood ==
    ASSUME IInv, [Next]_vars, site = "gone"
    PROVE  site' = "gone"
  <1>1. \A n \in DOMAIN events : ~Deliver(n)
    BY DEF Deliver, Exists
  <1>2. ~OwnerCommits /\ ~SynchronizeAccess
    BY DEF OwnerCommits, SynchronizeAccess, Exists
  <1>3. ASSUME NEW from, NEW to, NEW kinds, StripeStep(from, to, kinds) PROVE UNCHANGED site
    BY <1>3 DEF StripeStep
  <1>4. StripeSubscribes \/ CheckoutCompletes \/ StripeRenews \/ StripeFails
        \/ StripePauses \/ StripeCancels \/ StripeUpdates => UNCHANGED site
    BY <1>3 DEF StripeSubscribes, CheckoutCompletes, StripeRenews, StripeFails, StripePauses,
       StripeCancels, StripeUpdates
  <1>5. SecondPasses \/ TrialEnds \/ GraceEnds \/ OwnerBegins \/ HoldLooks \/ OwnerFails
        \/ SuspendSubscription => UNCHANGED site
    BY DEF SecondPasses, TrialEnds, GraceEnds, OwnerBegins, OwnerReads, HoldLooks, OwnerFails,
       SuspendSubscription
  <1>6. SuspendSite => UNCHANGED site
    BY DEF SuspendSite, Exists
  <1>7. ASSUME NEW d \in Requests, \/ CancelDeletion(d) \/ DeletionDue(d)
                                    \/ \E a \in Admins : AdminRequests(a, d) \/ Approve(a, d)
        PROVE  UNCHANGED site
    BY <1>7 DEF CancelDeletion, DeletionDue, AdminRequests, Approve
  <1>8. ASSUME NEW d \in Requests, ExecuteDeletion(d) PROVE site' = "gone"
    BY <1>8 DEF ExecuteDeletion
  <1>9. ASSUME NEW a \in Admins, AdminChecks(a) PROVE UNCHANGED site
    BY <1>9 DEF AdminChecks
  <1>10. QED
    BY <1>1, <1>2, <1>4, <1>5, <1>6, <1>7, <1>8, <1>9 DEF Next, vars

\* A step that writes no request does nothing that the deletion sees.
LEMMA DeletionStutter ==
    ASSUME DeletionInv, IInv', [Next]_vars, UNCHANGED request,
           \/ owner' \in {owner, Calm} \/ owner'.op \notin {"unhold", "take"}
           \/ owner'.request \in Pending
    PROVE  RequestsKept' /\ UNCHANGED Deletion!vars
  <1>1. site' = "gone" <=> site = "gone"
    <2>1. site' = "gone" => \E d \in Requests : request[d].status = "COMPLETED"
      BY DEF IInv, RequestsAuthorised
    <2>2. QED
      BY <2>1, GoneForGood DEF DeletionInv, RequestsKept
  <1>2. RequestsKept'
    <2>1. Calm.op = "none"
      BY DEF Calm
    <2>2. owner'.op \in {"unhold", "take"} => request[owner'.request].status # "none"
      BY <2>1 DEF DeletionInv, RequestsKept, Pending
    <2>3. QED
      BY <1>1, <2>2 DEF DeletionInv, RequestsKept
  <1>3. UNCHANGED Deletion!vars
    BY <1>1 DEF Deletion!vars
  <1>4. QED
    BY <1>2, <1>3

\* A step gives one request another row, and the owner's own request ends or stays.
OneRow(d, row) ==
    /\ request' = [request EXCEPT ![d] = row]
    /\ row.status \notin {"none"} /\ (row.status = "APPROVED" => row.due # "no")
    /\ row.status = "COMPLETED" => site' = "gone"
    /\ owner' \in {owner, Calm}

\* What SiteDeletion sees of it.
Seen(d, row) == request'[d] = row /\ \A e \in Requests \ {d} : request'[e] = request[e]

LEMMA RowSeen ==
    ASSUME DeletionInv, IInv', [Next]_vars, NEW d \in Requests, NEW row, OneRow(d, row)
    PROVE  RequestsKept' /\ Seen(d, row)
  <1>1. /\ request'[d] = row /\ \A e \in Requests \ {d} : request'[e] = request[e]
    BY DEF OneRow, DeletionInv, IInv, TypeOK
  <1>2. RequestsKept'
    <2>1. owner'.op \in {"unhold", "take"} => request'[owner'.request].status # "none"
      <3>1. CASE owner' = Calm
        BY <3>1 DEF Calm
      <3>2. CASE owner' = owner
        <4>1. owner.op \in {"unhold", "take"} => owner.request \in Requests
          BY DEF DeletionInv, IInv, OwnerDecided, Calm
        <4>2. QED
          BY <1>1, <3>2, <4>1 DEF DeletionInv, RequestsKept, OneRow
      <3>3. QED
        BY <3>1, <3>2 DEF OneRow
    <2>2. QED
      BY <1>1, <2>1, GoneForGood DEF DeletionInv, RequestsKept, OneRow
  <1>3. QED
    BY <1>1, <1>2 DEF Seen

\* A function that differs from another at one place.
LEMMA PointChange ==
    ASSUME NEW S, NEW d \in S, NEW f, NEW g, NEW v, f = [e \in S |-> f[e]], g = [e \in S |-> g[e]],
           f[d] = v, \A e \in S \ {d} : f[e] = g[e]
    PROVE  f = [g EXCEPT ![d] = v]
  OBVIOUS

\* What the deletion sees of such a step.
SeenBy(d, phase, by, approver) ==
    /\ [e \in Requests |-> PhaseOf(request'[e])]
          = [[e \in Requests |-> PhaseOf(request[e])] EXCEPT ![d] = phase]
    /\ [e \in Requests |-> request'[e].by]
          = [[e \in Requests |-> request[e].by] EXCEPT ![d] = by]
    /\ [e \in Requests |-> request'[e].approver]
          = [[e \in Requests |-> request[e].approver] EXCEPT ![d] = approver]

LEMMA SeenAs ==
    ASSUME NEW d \in Requests, NEW row, Seen(d, row)
    PROVE  SeenBy(d, PhaseOf(row), row.by, row.approver)
  <1> DEFINE new == request'
             old == request
  <1>0. new[d] = row /\ \A e \in Requests \ {d} : new[e] = old[e]
    BY DEF Seen
  <1> HIDE DEF new, old
  <1>1. [e \in Requests |-> PhaseOf(new[e])]
                = [[e \in Requests |-> PhaseOf(old[e])] EXCEPT ![d] = PhaseOf(row)]
    <2> DEFINE f == [e \in Requests |-> PhaseOf(new[e])]
               g == [e \in Requests |-> PhaseOf(old[e])]
    <2>1. f[d] = PhaseOf(row) /\ \A e \in Requests \ {d} : f[e] = g[e]
      BY <1>0
    <2>2. f = [e \in Requests |-> f[e]] /\ g = [e \in Requests |-> g[e]]
      OBVIOUS
    <2> HIDE DEF f, g
    <2>3. f = [g EXCEPT ![d] = PhaseOf(row)]
      BY <2>1, <2>2, PointChange
    <2>4. QED
      BY <2>3 DEF f, g
  <1>2. [e \in Requests |-> new[e].by]
                = [[e \in Requests |-> old[e].by] EXCEPT ![d] = row.by]
    BY <1>0
  <1>3. [e \in Requests |-> new[e].approver]
                = [[e \in Requests |-> old[e].approver] EXCEPT ![d] = row.approver]
    BY <1>0
  <1>4. QED
    BY <1>1, <1>2, <1>3 DEF new, old, SeenBy
LEMMA PhaseFacts ==
    ASSUME NEW row
    PROVE  /\ row.status = "none" => PhaseOf(row) = "none"
           /\ row.status = "REQUESTED" => PhaseOf(row) = "asked"
           /\ row.status = "APPROVED" => PhaseOf(row) = IF row.due = "over" THEN "ripe" ELSE "waiting"
           /\ row.status = "CANCELED" => PhaseOf(row) = "withdrawn"
           /\ row.status = "COMPLETED" => PhaseOf(row) = "done"
  BY DEF PhaseOf

\* The administrators' steps and the command, one by one.
LEMMA AdminsDelete ==
    ASSUME DeletionInv, IInv', [Next]_vars, NEW d \in Requests,
           \/ CancelDeletion(d) \/ DeletionDue(d) \/ ExecuteDeletion(d)
           \/ \E a \in Admins : AdminRequests(a, d) \/ Approve(a, d)
    PROVE  RequestsKept' /\ Deletion!Next
  <1>1. /\ request[d] \in [status : {"none", "REQUESTED", "APPROVED", "CANCELED", "COMPLETED"},
                           by : Admins \union {Owner, Nobody}, approver : Admins \union {Owner, Nobody},
                           due : {"no", "counting", "over"}]
        /\ request[d].status = "APPROVED" => request[d].due # "no"
    BY DEF DeletionInv, IInv, TypeOK, RequestsKept
  <1>2. CASE CancelDeletion(d)
    <2> DEFINE row == [request[d] EXCEPT !.status = "CANCELED"]
    <2>1. /\ request[d].status \in {"REQUESTED", "APPROVED"} /\ UNCHANGED <<site, owner>>
          /\ request' = [request EXCEPT ![d] = row]
      BY <1>2 DEF CancelDeletion, RequestStep, Pending
    <2>2. /\ row.status = "CANCELED" /\ row.by = request[d].by /\ row.approver = request[d].approver
      BY <1>1
    <2> HIDE DEF row
    <2>3. OneRow(d, row)
      BY <2>1, <2>2 DEF OneRow
    <2>4. RequestsKept' /\ Seen(d, row)
      BY <2>3, RowSeen
    <2>5. Deletion!Withdraw(d)
      <3>0. PhaseOf(request[d]) \in {"asked", "waiting", "ripe"} /\ PhaseOf(row) = "withdrawn"
        BY <2>1, <2>2, PhaseFacts
      <3>9. SeenBy(d, PhaseOf(row), row.by, row.approver)
        BY <2>4, SeenAs
      <3>1. /\ [e \in Requests |-> PhaseOf(request[e])][d] = PhaseOf(request[d])
            /\ [e \in Requests |-> request[e].by][d] = request[d].by
        OBVIOUS
      <3>2. [e \in Requests |-> PhaseOf(request'[e])]
              = [[e \in Requests |-> PhaseOf(request[e])] EXCEPT ![d] = "withdrawn"]
        BY <3>9, <3>0 DEF SeenBy
      <3>3. [e \in Requests |-> request'[e].by]
              = [e \in Requests |-> request[e].by]
        BY <2>1, <2>2, <2>4 DEF Seen
      <3>4. [e \in Requests |-> request'[e].approver]
              = [e \in Requests |-> request[e].approver]
        BY <2>1, <2>2, <2>4 DEF Seen
      <3>5. QED
        BY <2>1, <3>0, <3>1, <3>2, <3>3, <3>4 DEF Deletion!Withdraw
    <2>6. QED
      BY <2>4, <2>5 DEF Deletion!Next
  <1>3. CASE DeletionDue(d)
    <2> DEFINE row == [request[d] EXCEPT !.due = "over"]
    <2>1. /\ request[d].status = "APPROVED" /\ request[d].due = "counting" /\ UNCHANGED <<site, owner>>
          /\ request' = [request EXCEPT ![d] = row]
      BY <1>3 DEF DeletionDue, RequestStep
    <2>2. /\ row.status = "APPROVED" /\ row.due = "over"
          /\ row.by = request[d].by /\ row.approver = request[d].approver
      BY <1>1, <2>1
    <2> HIDE DEF row
    <2>3. OneRow(d, row)
      BY <2>1, <2>2 DEF OneRow
    <2>4. RequestsKept' /\ Seen(d, row)
      BY <2>3, RowSeen
    <2>5. Deletion!Ripen(d)
      <3>0. PhaseOf(request[d]) = "waiting" /\ PhaseOf(row) = "ripe"
        BY <2>1, <2>2, PhaseFacts
      <3>9. SeenBy(d, PhaseOf(row), row.by, row.approver)
        BY <2>4, SeenAs
      <3>1. /\ [e \in Requests |-> PhaseOf(request[e])][d] = PhaseOf(request[d])
            /\ [e \in Requests |-> request[e].by][d] = request[d].by
        OBVIOUS
      <3>2. [e \in Requests |-> PhaseOf(request'[e])]
              = [[e \in Requests |-> PhaseOf(request[e])] EXCEPT ![d] = "ripe"]
        BY <3>9, <3>0 DEF SeenBy
      <3>3. [e \in Requests |-> request'[e].by]
              = [e \in Requests |-> request[e].by]
        BY <2>1, <2>2, <2>4 DEF Seen
      <3>4. [e \in Requests |-> request'[e].approver]
              = [e \in Requests |-> request[e].approver]
        BY <2>1, <2>2, <2>4 DEF Seen
      <3>5. QED
        BY <2>1, <3>0, <3>1, <3>2, <3>3, <3>4 DEF Deletion!Ripen
    <2>6. QED
      BY <2>4, <2>5 DEF Deletion!Next
  <1>4. CASE ExecuteDeletion(d)
    <2> DEFINE row == [request[d] EXCEPT !.status = "COMPLETED"]
    <2>1. /\ request[d].status = "APPROVED" /\ request[d].due = "over" /\ UNCHANGED owner
          /\ site # "gone" /\ site' = "gone" /\ request' = [request EXCEPT ![d] = row]
      BY <1>4 DEF ExecuteDeletion, RequestStep, Exists
    <2>2. /\ row.status = "COMPLETED" /\ row.by = request[d].by /\ row.approver = request[d].approver
      BY <1>1, <2>1
    <2> HIDE DEF row
    <2>3. OneRow(d, row)
      BY <2>1, <2>2 DEF OneRow
    <2>4. RequestsKept' /\ Seen(d, row)
      BY <2>3, RowSeen
    <2>5. Deletion!Delete(d)
      <3>0. PhaseOf(request[d]) = "ripe" /\ PhaseOf(row) = "done"
        BY <2>1, <2>2, PhaseFacts
      <3>9. SeenBy(d, PhaseOf(row), row.by, row.approver)
        BY <2>4, SeenAs
      <3>1. /\ [e \in Requests |-> PhaseOf(request[e])][d] = PhaseOf(request[d])
            /\ [e \in Requests |-> request[e].by][d] = request[d].by
        OBVIOUS
      <3>2. [e \in Requests |-> PhaseOf(request'[e])]
              = [[e \in Requests |-> PhaseOf(request[e])] EXCEPT ![d] = "done"]
        BY <3>9, <3>0 DEF SeenBy
      <3>3. [e \in Requests |-> request'[e].by]
              = [e \in Requests |-> request[e].by]
        BY <2>1, <2>2, <2>4 DEF Seen
      <3>4. [e \in Requests |-> request'[e].approver]
              = [e \in Requests |-> request[e].approver]
        BY <2>1, <2>2, <2>4 DEF Seen
      <3>5. QED
        BY <2>1, <3>0, <3>1, <3>2, <3>3, <3>4 DEF Deletion!Delete
    <2>6. QED
      BY <2>4, <2>5 DEF Deletion!Next
  <1>5. ASSUME NEW a \in Admins, AdminRequests(a, d)
        PROVE  RequestsKept' /\ Deletion!Next
    <2> DEFINE row == [status |-> "REQUESTED", by |-> a, approver |-> Nobody, due |-> "no"]
    <2>1. /\ request[d].status = "none" /\ site # "gone" /\ UNCHANGED <<site, owner>>
          /\ request' = [request EXCEPT ![d] = row]
      BY <1>5 DEF AdminRequests, Unused, Exists
    <2>2. row.status = "REQUESTED" /\ row.by = a /\ row.approver = Nobody
      OBVIOUS
    <2> HIDE DEF row
    <2>3. OneRow(d, row)
      BY <2>1, <2>2 DEF OneRow
    <2>4. RequestsKept' /\ Seen(d, row)
      BY <2>3, RowSeen
    <2>5. Deletion!Ask(d, a)
      <3>0. PhaseOf(request[d]) = "none" /\ PhaseOf(row) = "asked"
        BY <2>1, <2>2, PhaseFacts
      <3>9. SeenBy(d, PhaseOf(row), row.by, row.approver)
        BY <2>4, SeenAs
      <3>1. /\ [e \in Requests |-> PhaseOf(request[e])][d] = PhaseOf(request[d])
            /\ [e \in Requests |-> request[e].by][d] = request[d].by
        OBVIOUS
      <3>2. [e \in Requests |-> PhaseOf(request'[e])]
              = [[e \in Requests |-> PhaseOf(request[e])] EXCEPT ![d] = "asked"]
        BY <3>9, <3>0 DEF SeenBy
      <3>3. [e \in Requests |-> request'[e].by]
              = [[e \in Requests |-> request[e].by] EXCEPT ![d] = a]
        BY <3>9, <2>2 DEF SeenBy
      <3>4. [e \in Requests |-> request'[e].approver]
              = [e \in Requests |-> request[e].approver]
        BY <2>1, <2>2, <2>4 DEF Seen, DeletionInv, RequestsKept
      <3>5. UNCHANGED (site = "gone") /\ ~(site = "gone")
        BY <2>1
      <3>6. QED
        BY <3>5, <3>0, <3>1, <3>2, <3>3, <3>4 DEF Deletion!Ask
    <2>6. QED
      BY <2>4, <2>5 DEF Deletion!Next
  <1>6. ASSUME NEW a \in Admins, Approve(a, d)
        PROVE  RequestsKept' /\ Deletion!Next
    <2> DEFINE row == [request[d] EXCEPT !.status = "APPROVED", !.approver = a, !.due = "counting"]
    <2>1. /\ request[d].status = "REQUESTED" /\ request[d].by # a /\ UNCHANGED <<site, owner>>
          /\ request' = [request EXCEPT ![d] = row]
      BY <1>6 DEF Approve, RequestStep
    <2>2. /\ row.status = "APPROVED" /\ row.due = "counting"
          /\ row.by = request[d].by /\ row.approver = a
      BY <1>1
    <2> HIDE DEF row
    <2>3. OneRow(d, row)
      BY <2>1, <2>2 DEF OneRow
    <2>4. RequestsKept' /\ Seen(d, row)
      BY <2>3, RowSeen
    <2>5. Deletion!Agree(d, a)
      <3>0. PhaseOf(request[d]) = "asked" /\ PhaseOf(row) = "waiting"
        BY <2>1, <2>2, PhaseFacts
      <3>9. SeenBy(d, PhaseOf(row), row.by, row.approver)
        BY <2>4, SeenAs
      <3>1. /\ [e \in Requests |-> PhaseOf(request[e])][d] = PhaseOf(request[d])
            /\ [e \in Requests |-> request[e].by][d] = request[d].by
        OBVIOUS
      <3>2. [e \in Requests |-> PhaseOf(request'[e])]
              = [[e \in Requests |-> PhaseOf(request[e])] EXCEPT ![d] = "waiting"]
        BY <3>9, <3>0 DEF SeenBy
      <3>3. [e \in Requests |-> request'[e].by]
              = [e \in Requests |-> request[e].by]
        BY <2>1, <2>2, <2>4 DEF Seen
      <3>4. [e \in Requests |-> request'[e].approver]
              = [[e \in Requests |-> request[e].approver] EXCEPT ![d] = a]
        BY <3>9, <2>2 DEF SeenBy
      <3>5. QED
        BY <2>1, <3>0, <3>1, <3>2, <3>3, <3>4 DEF Deletion!Agree
    <2>6. QED
      BY <2>4, <2>5 DEF Deletion!Next
  <1>7. QED
    BY <1>2, <1>3, <1>4, <1>5, <1>6

\* What the owner's request looked for is done on the row that it finds.
LEMMA OwnerDeletes ==
    ASSUME DeletionInv, IInv', [Next]_vars, OwnerCommits
    PROVE  RequestsKept' /\ (Deletion!Next \/ UNCHANGED Deletion!vars)
  <1>1. site # "gone" /\ site' # "gone" /\ owner' = Calm
    BY DEF OwnerCommits, Exists, SetStatus, Statuses, DeletionInv, IInv, OwnerDecided
  <1>2. \A e \in Requests : request[e].status # "COMPLETED"
    BY <1>1 DEF DeletionInv, RequestsKept
  <1>3. UNCHANGED (site = "gone") /\ ~(site = "gone")
    BY <1>1
  <1>4. \A e \in Requests :
           request[e] \in [status : {"none", "REQUESTED", "APPROVED", "CANCELED", "COMPLETED"},
                           by : Admins \union {Owner, Nobody}, approver : Admins \union {Owner, Nobody},
                           due : {"no", "counting", "over"}]
    BY DEF DeletionInv, IInv, TypeOK
  <1>5. ASSUME NEW d \in Requests, request' = [request EXCEPT ![d] = Held(request[d])]
        PROVE  RequestsKept' /\ Deletion!Own(d)
    <2> DEFINE row == Held(request[d])
    <2>1. row.status = "APPROVED" /\ row.due = "counting" /\ row.by = Owner /\ row.approver = Owner
      BY DEF Held
    <2> HIDE DEF row
    <2>2. OneRow(d, row)
      BY <1>1, <1>5, <2>1 DEF OneRow, row
    <2>3. RequestsKept' /\ Seen(d, row)
      BY <2>2, RowSeen
    <2>4. SeenBy(d, PhaseOf(row), row.by, row.approver)
      BY <2>3, SeenAs
    <2>5. PhaseOf(row) = "waiting" /\ PhaseOf(request[d]) # "done"
      BY <1>2, <1>4, <2>1, PhaseFacts
    <2>6. [e \in Requests |-> PhaseOf(request[e])][d] = PhaseOf(request[d])
      OBVIOUS
    <2>7. /\ [e \in Requests |-> PhaseOf(request'[e])]
               = [[e \in Requests |-> PhaseOf(request[e])] EXCEPT ![d] = "waiting"]
          /\ [e \in Requests |-> request'[e].by]
               = [[e \in Requests |-> request[e].by] EXCEPT ![d] = Owner]
          /\ [e \in Requests |-> request'[e].approver]
               = [[e \in Requests |-> request[e].approver] EXCEPT ![d] = Owner]
      BY <2>1, <2>4, <2>5 DEF SeenBy
    <2>8. QED
      BY <1>3, <2>3, <2>5, <2>6, <2>7 DEF Deletion!Own
  <1>6. CASE owner.op = "create"
    BY <1>5, <1>6 DEF OwnerCommits, Deletion!Next
  <1>7. CASE owner.op = "take"
    <2>1. owner.request \in Requests
      BY <1>7 DEF DeletionInv, IInv, OwnerDecided, OwnerCommits
    <2>2. request' = [request EXCEPT ![owner.request] = Held(request[owner.request])]
      BY <1>7 DEF OwnerCommits
    <2>3. QED
      BY <1>5, <2>1, <2>2 DEF Deletion!Next
  <1>8. CASE owner.op = "unhold"
    <2>1. PICK d \in Requests : d = owner.request
      BY <1>8 DEF DeletionInv, IInv, OwnerDecided, OwnerCommits
    <2> DEFINE row == [request[d] EXCEPT !.status = "CANCELED"]
    <2>2. request' = [request EXCEPT ![d] = row] /\ request[d].status # "none"
      BY <1>8, <2>1 DEF OwnerCommits, DeletionInv, RequestsKept
    <2>3. row.status = "CANCELED" /\ row.by = request[d].by /\ row.approver = request[d].approver
      BY <1>4
    <2>4. request[d].status \in {"REQUESTED", "APPROVED", "CANCELED"}
      BY <1>2, <1>4, <2>2
    <2>5. request[d].status = "CANCELED" => row = request[d]
      BY <1>4
    <2> HIDE DEF row
    <2>6. OneRow(d, row)
      BY <1>1, <2>2, <2>3 DEF OneRow
    <2>7. RequestsKept' /\ Seen(d, row)
      BY <2>6, RowSeen
    <2>8. SeenBy(d, PhaseOf(row), row.by, row.approver)
      BY <2>7, SeenAs
    <2>9. PhaseOf(row) = "withdrawn"
      BY <2>3, PhaseFacts
    <2>10. /\ [e \in Requests |-> PhaseOf(request[e])][d] = PhaseOf(request[d])
           /\ [e \in Requests |-> PhaseOf(request'[e])]
                = [[e \in Requests |-> PhaseOf(request[e])] EXCEPT ![d] = "withdrawn"]
      BY <2>8, <2>9 DEF SeenBy
    <2>11. /\ [e \in Requests |-> request'[e].by] = [e \in Requests |-> request[e].by]
           /\ [e \in Requests |-> request'[e].approver] = [e \in Requests |-> request[e].approver]
      BY <2>3, <2>7 DEF Seen
    <2>12. CASE request[d].status = "CANCELED"
      <3>1. \A e \in Requests : request'[e] = request[e]
        BY <2>5, <2>7, <2>12 DEF Seen
      <3>2. request' = request
        BY <2>2, <2>5, <2>12, <3>1 DEF DeletionInv, IInv, TypeOK
      <3>3. UNCHANGED Deletion!vars
        BY <1>3, <3>2 DEF Deletion!vars
      <3>4. QED
        BY <2>7, <3>3
    <2>13. CASE request[d].status # "CANCELED"
      <3>1. PhaseOf(request[d]) \in {"asked", "waiting", "ripe"}
        BY <2>4, <2>13, PhaseFacts
      <3>2. Deletion!Withdraw(d)
        BY <1>3, <2>10, <2>11, <3>1 DEF Deletion!Withdraw
      <3>3. QED
        BY <2>7, <3>2 DEF Deletion!Next
    <2>14. QED
      BY <2>12, <2>13
  <1>9. CASE owner.op \in {"suspend", "resume"}
    <2>1. UNCHANGED request
      BY <1>9 DEF OwnerCommits
    <2>2. QED
      BY <1>1, <2>1, DeletionStutter
  <1>10. QED
    BY <1>6, <1>7, <1>8, <1>9 DEF OwnerCommits

LEMMA InitDeletion == Init => RequestsKept /\ Deletion!Init
  <1> SUFFICES ASSUME Init PROVE RequestsKept /\ Deletion!Init
    OBVIOUS
  <1>1. /\ request = [d \in Requests |-> NoRequest] /\ owner = Calm /\ site # "gone"
    BY DEF Init, Calm
  <1>2. \A d \in Requests : /\ request[d].status = "none" /\ request[d].by = Nobody
                            /\ request[d].approver = Nobody
    BY <1>1 DEF NoRequest
  <1>3. \A d \in Requests : PhaseOf(request[d]) = "none"
    BY <1>2, PhaseFacts
  <1>4. RequestsKept
    BY <1>1, <1>2 DEF RequestsKept, Calm
  <1>5. [d \in Requests |-> PhaseOf(request[d])] = [d \in Requests |-> "none"]
    BY <1>3
  <1>6. /\ [d \in Requests |-> request[d].by] = [d \in Requests |-> Nobody]
        /\ [d \in Requests |-> request[d].approver] = [d \in Requests |-> Nobody]
    BY <1>2
  <1>7. QED
    BY <1>1, <1>4, <1>5, <1>6 DEF Deletion!Init

\* Every step of SiteAccess is a step of SiteDeletion or none.
LEMMA NextDeletion ==
    ASSUME DeletionInv, IInv', [Next]_vars
    PROVE  RequestsKept' /\ (Deletion!Next \/ UNCHANGED Deletion!vars)
  <1>1. ASSUME NEW d \in Requests,
               \/ CancelDeletion(d) \/ DeletionDue(d) \/ ExecuteDeletion(d)
               \/ \E a \in Admins : AdminRequests(a, d) \/ Approve(a, d)
        PROVE  RequestsKept' /\ Deletion!Next
    BY <1>1, AdminsDelete
  <1>2. CASE OwnerCommits
    BY <1>2, OwnerDeletes
  <1>3. CASE /\ UNCHANGED request
             /\ \/ owner' \in {owner, Calm} \/ owner'.op \notin {"unhold", "take"}
                \/ owner'.request \in Pending
    BY <1>3, DeletionStutter
  <1>4. CASE UNCHANGED vars
    BY <1>3, <1>4 DEF vars
  <1>5. CASE OwnerBegins
    <2>1. owner'.op \notin {"unhold", "take"} \/ owner'.request \in Pending
      BY <1>5 DEF OwnerBegins, OwnerReads, LatestPending
    <2>2. UNCHANGED request
      BY <1>5 DEF OwnerBegins, OwnerReads, deletions
    <2>3. QED
      BY <1>3, <2>1, <2>2
  <1>6. CASE HoldLooks
    <2>1. owner'.op \notin {"unhold", "take"} \/ owner'.request \in Pending
      BY <1>6 DEF HoldLooks, LatestPending, DeletionInv, IInv, TypeOK
    <2>2. UNCHANGED request
      BY <1>6 DEF HoldLooks, deletions
    <2>3. QED
      BY <1>3, <2>1, <2>2
  <1>7. CASE OwnerFails
    BY <1>3, <1>7 DEF OwnerFails, deletions
  <1>8. ASSUME NEW from, NEW to, NEW kinds, StripeStep(from, to, kinds)
        PROVE  UNCHANGED <<request, owner>>
    BY <1>8 DEF StripeStep, deletions
  <1>9. CASE StripeSubscribes \/ CheckoutCompletes \/ StripeRenews \/ StripeFails
             \/ StripePauses \/ StripeCancels \/ StripeUpdates
    <2>1. UNCHANGED <<request, owner>>
      BY <1>8, <1>9 DEF StripeSubscribes, CheckoutCompletes, StripeRenews, StripeFails,
         StripePauses, StripeCancels, StripeUpdates
    <2>2. QED
      BY <1>3, <2>1
  <1>10. CASE \/ SecondPasses \/ TrialEnds \/ GraceEnds \/ SynchronizeAccess \/ SuspendSite
              \/ SuspendSubscription \/ (\E n \in DOMAIN events : Deliver(n))
              \/ \E a \in Admins : AdminChecks(a)
    <2>1. UNCHANGED <<request, owner>>
      BY <1>10 DEF SecondPasses, TrialEnds, GraceEnds, SynchronizeAccess, SuspendSite,
         SuspendSubscription, Deliver, AdminChecks, deletions
    <2>2. QED
      BY <1>3, <2>1
  <1>11. QED
    BY <1>1, <1>2, <1>4, <1>5, <1>6, <1>7, <1>9, <1>10 DEF Next

\* SiteAccess implements SiteDeletion: a site is deleted only after one who asked, another
\* who agreed and a whole period, though the services trust what they have read.
THEOREM SpecDeletesInGoodOrder == Spec => DeletesInGoodOrder
  <1>1. Init => RequestsKept /\ Deletion!Init
    BY InitDeletion
  <1>2. IInv /\ IInv' /\ RequestsKept /\ [Next]_vars => RequestsKept' /\ [Deletion!Next]_(Deletion!vars)
    BY NextDeletion DEF DeletionInv
  <1>3. QED
    BY <1>1, <1>2, SpecIInv, PTL DEF Spec, DeletesInGoodOrder, Deletion!Spec

=============================================================================
