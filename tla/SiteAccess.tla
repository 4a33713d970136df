----------------------------- MODULE SiteAccess -----------------------------
(***************************************************************************)
(* Whether ONE site is open to the public: the platform subscription that  *)
(* pays for it, Stripe's webhooks about that subscription, the hourly job  *)
(* that ends trials and grace periods, the owner who suspends, resumes or  *)
(* gives up the site, and the platform administrators who suspend it or    *)
(* have it deleted.                                                        *)
(*                                                                         *)
(* Sources: subscriptions/services.py, sites/services.py, ops/services.py, *)
(* ops/views.py; Stripe is external.                                       *)
(*                                                                         *)
(* Atomicity.  The webhook and the job lock the subscription row and, as   *)
(* select_related joins it, the site row: one action each.  The owner's    *)
(* services are transactions that lock nothing: what they read (and a call *)
(* to Stripe they make) comes before what they write, so each is a begin   *)
(* and a commit; a deletion hold looks for a request in between.  The      *)
(* administrators' views are not transactions at all:                      *)
(* suspend_site saves two rows one after the other (by one administrator   *)
(* at a time, here), and request_site_deletion looks for a pending request *)
(* before it makes one.                                                    *)
(***************************************************************************)
EXTENDS Naturals, Sequences, FiniteSets

CONSTANTS
    Admins,         \* platform administrators
    Owner,          \* the subscriber admin of the site
    Nobody,
    OwnerMay,       \* bound: what the owner may do in this instance
    MaxEvents,      \* bound: events Stripe ever sends
    MaxSecond,      \* bound: events carry a time in seconds, 0..MaxSecond
    MaxRequests     \* bound: SiteDeletionRequest rows

Requests == 1..MaxRequests

ASSUME ConstantsAssumption ==
    /\ MaxEvents \in Nat /\ MaxSecond \in Nat /\ MaxRequests \in Nat
    /\ OwnerMay \subseteq {"suspend", "resume", "hold", "unhold"}
    /\ Owner \notin Admins /\ Nobody \notin Admins /\ Owner # Nobody

VARIABLES
    subscription,   \* PlatformSubscription: status, linked to Stripe, grace
                    \* deadline, time of the newest event applied
    site,           \* Site.status, or "gone"
    exempt,         \* the owner is_subscription_exempt
    trialOver,      \* trial_ends_at is past
    stripe,         \* status of Stripe's subscription
    second,         \* Stripe's clock
    events,         \* the events sent so far, in the order they happened
    processed,      \* those whose inbox row is PROCESSED
    owner,          \* the owner's request in flight
    suspending,     \* suspend_site is between its two saves
    asking,         \* administrators between check and create of a request
    request,        \* SiteDeletionRequest rows
    decider         \* history: the event that last set the status, 0 if none did

vars == <<subscription, site, exempt, trialOver, stripe, second, events, processed,
          owner, suspending, asking, request, decider>>

billing   == <<stripe, second, events, processed>>
deletions == <<asking, request>>

Statuses == {"TRIALING", "ACTIVE", "GRACE", "SUSPENDED", "CANCELED"}
Live     == {"TRIALING", "ACTIVE", "GRACE"}      \* Site.accepts_public_traffic
Calm     == [op |-> "none", status |-> "none", request |-> 0]
NoRequest == [status |-> "none", by |-> Nobody, approver |-> Nobody, due |-> "no"]

Init ==
    /\ exempt \in BOOLEAN
    /\ subscription = [status |-> IF exempt THEN "ACTIVE" ELSE "TRIALING",
                       linked |-> FALSE, grace |-> "none", last |-> 0]
    /\ site = subscription.status
    /\ trialOver = FALSE
    /\ stripe = "none" /\ second = 0 /\ events = <<>> /\ processed = {}
    /\ owner = Calm /\ suspending = FALSE /\ asking = {}
    /\ request = [d \in Requests |-> NoRequest]
    /\ decider = 0

Exists == site # "gone"

\* Mutant: the site is not saved with its subscription.
SetSubscriptionOnly(status) ==
    /\ subscription' = [subscription EXCEPT !.status = status]
    /\ site' = site

\* _set_status and _apply_site_and_subscription_status: the two rows change together.
SetStatus(status) ==
    /\ subscription' = [subscription EXCEPT !.status = status]
    /\ site' = status

-----------------------------------------------------------------------------
(* Stripe (external): a step of its subscription is announced by an event     *)
(* that carries the second; StripeUpdates may send the other events of the    *)
(* same change in the same second or later.                                   *)

Sends(kinds) ==
    /\ Len(events) + Len(kinds) <= MaxEvents
    /\ events' = events \o [i \in 1..Len(kinds) |-> [kind |-> kinds[i], at |-> second]]

StripeStep(from, to, kinds) ==
    /\ stripe \in from /\ stripe' = to /\ Sends(kinds)
    /\ UNCHANGED <<subscription, site, exempt, trialOver, second, processed, owner,
                   suspending, deletions, decider>>

\* create_checkout_session passes on what is left of the trial.  The session is
\* completed after its subscription exists.
StripeSubscribes ==
    \/ ~trialOver /\ StripeStep({"none"}, "trialing", <<"trialing">>)
    \/ trialOver /\ StripeStep({"none"}, "active", <<"incomplete", "paid">>)

CheckoutCompletes ==
    /\ \A n \in DOMAIN events : events[n].kind # "completed"
    /\ \E s \in {"trialing", "active"} : StripeStep({s}, s, <<"completed">>)

\* The trial at Stripe is what was left of the local one, rounded up to days.
TrialMayEnd == stripe = "trialing" => trialOver

StripeRenews ==
    /\ TrialMayEnd
    /\ \E kind \in {"active", "paid"} :
          StripeStep({"trialing", "active", "past_due", "paused"}, "active", <<kind>>)

StripeFails ==
    /\ TrialMayEnd
    /\ \E kind \in {"past_due", "payment_failed"} :
          StripeStep({"trialing", "active"}, "past_due", <<kind>>)

StripePauses  == TrialMayEnd /\ StripeStep({"trialing"}, "paused", <<"paused">>)
StripeCancels == StripeStep({"trialing", "active", "past_due", "paused"}, "canceled",
                            <<"deleted">>)

\* Any other change, such as a new card or plan, sends a snapshot of the status.
StripeUpdates ==
    \E s \in {"trialing", "active", "past_due"} : StripeStep({s}, s, <<s>>)

SecondPasses ==
    /\ second < MaxSecond /\ second' = second + 1
    /\ UNCHANGED <<subscription, site, exempt, trialOver, stripe, events, processed,
                   owner, suspending, deletions, decider>>

-----------------------------------------------------------------------------
(* Deadlines *)

\* Days after it began: what Stripe does from now on has a later second.
TrialEnds ==
    /\ ~trialOver /\ trialOver' = TRUE
    /\ second < MaxSecond /\ second' = second + 1
    /\ UNCHANGED <<subscription, site, exempt, stripe, events, processed, owner, suspending,
                   deletions, decider>>

GraceEnds ==
    /\ Exists /\ subscription.grace = "running"
    /\ subscription' = [subscription EXCEPT !.grace = "over"]
    /\ UNCHANGED <<site, exempt, trialOver, billing, owner, suspending, deletions, decider>>

\* synchronize_access, from the hourly job.
SynchronizeAccess ==
    /\ Exists /\ ~exempt
    /\ \/ subscription.status = "TRIALING" /\ trialOver
       \/ subscription.status = "GRACE" /\ subscription.grace = "over"
    /\ SetStatus("SUSPENDED")
    /\ decider' = 0
    /\ UNCHANGED <<exempt, trialOver, billing, owner, suspending, deletions>>

-----------------------------------------------------------------------------
(* Webhooks: process_stripe_event *)

\* The status an event asks for; "customer.subscription.updated" goes by the
\* snapshot it carries and "incomplete" is one of the snapshots that ask nothing.
Verdict ==
    [paid |-> "ACTIVE", payment_failed |-> "GRACE", deleted |-> "CANCELED",
     paused |-> "SUSPENDED", active |-> "ACTIVE", trialing |-> "TRIALING",
     past_due |-> "GRACE"]

GraceAfter(kind) ==
    IF kind = "paid" THEN "none"
    ELSE IF kind = "payment_failed" THEN "running"
    ELSE IF kind = "past_due" /\ subscription.grace = "none" THEN "running"
    ELSE subscription.grace

\* Mutant: events are applied in the order they arrive.
NeverStale(n) == FALSE

Stale(n) == events[n].at < subscription.last

\* An event for a subscription id that no row has yet raises DoesNotExist: it is
\* FAILED and Stripe sends it again.  A PROCESSED one returns early, but an attempt
\* that failed while another succeeded writes FAILED over PROCESSED.
Deliver(n) ==
    LET kind == events[n].kind
    IN  /\ Exists /\ n \notin processed
        /\ kind = "completed" \/ subscription.linked
        /\ processed' \in {processed, processed \union {n}}
        /\ \/ Stale(n) /\ UNCHANGED <<subscription, site, decider>>
           \/ ~Stale(n) /\ kind = "completed"
              /\ subscription' = [subscription EXCEPT !.linked = TRUE, !.last = events[n].at]
              /\ UNCHANGED <<site, decider>>
           \/ ~Stale(n) /\ kind = "incomplete"
              /\ subscription' = [subscription EXCEPT !.last = events[n].at]
              /\ UNCHANGED <<site, decider>>
           \/ ~Stale(n) /\ kind \in DOMAIN Verdict
              /\ subscription' = [subscription EXCEPT !.status = Verdict[kind],
                                     !.grace = GraceAfter(kind), !.last = events[n].at]
              /\ site' = Verdict[kind]
              /\ decider' = n
        /\ UNCHANGED <<exempt, trialOver, stripe, second, events, owner, suspending, deletions>>

-----------------------------------------------------------------------------
(* The owner *)

Pending == {d \in Requests : request[d].status \in {"REQUESTED", "APPROVED"}}
LatestPending(d) == d \in Pending /\ \A e \in Pending : e <= d
Unused(d) == request[d].status = "none" /\ \A e \in 1..(d - 1) : request[e].status # "none"

\* _resume_subscription_status; "refused" is its ValidationError.
ResumedStatus ==
    IF exempt \/ subscription.linked THEN "ACTIVE"
    ELSE IF ~trialOver THEN "TRIALING" ELSE "refused"

\* _sync_stripe_cancel_schedule: Stripe refuses to change a canceled subscription,
\* and announces the change of any other.
SyncCancelSchedule ==
    IF subscription.linked THEN stripe # "canceled" /\ Sends(<<stripe>>)
    ELSE UNCHANGED events

OwnerReads(op, status, d) ==
    /\ Exists /\ owner = Calm /\ op \in OwnerMay
    /\ owner' = [op |-> op, status |-> status, request |-> d]
    /\ UNCHANGED <<subscription, site, exempt, trialOver, stripe, second, processed,
                   suspending, deletions, decider>>

\* What each service has read, decided and asked of Stripe when it starts to write.
OwnerBegins ==
    \/ site \in Live /\ OwnerReads("suspend", "SUSPENDED", 0) /\ UNCHANGED events
    \/ /\ site \notin Live /\ ResumedStatus # "refused"
       /\ OwnerReads("resume", ResumedStatus, 0) /\ UNCHANGED events
    \/ OwnerReads("hold", "CANCELED", 0) /\ SyncCancelSchedule
    \/ /\ site \in Live \/ ResumedStatus # "refused"
       /\ \E d \in Requests :
             /\ LatestPending(d)
             /\ OwnerReads("unhold", IF site \in Live THEN "unchanged" ELSE ResumedStatus, d)
       /\ SyncCancelSchedule

\* start_site_delete_hold looks, without a lock, for the latest pending request: it takes that
\* one over, whatever has become of it when it is saved, or makes one of its own.
HoldLooks ==
    /\ Exists /\ owner.op = "hold"
    /\ \/ Pending = {} /\ owner' = [owner EXCEPT !.op = "create"]
       \/ \E d \in Requests :
             LatestPending(d) /\ owner' = [owner EXCEPT !.op = "take", !.request = d]
    /\ UNCHANGED <<subscription, site, exempt, trialOver, billing, suspending, deletions,
                   decider>>

\* Mutant: a period that has begun goes on.
HeldOn(row) ==
    [row EXCEPT !.status = "APPROVED", !.by = Owner, !.approver = Owner,
                !.due = IF @ = "no" THEN "counting" ELSE @]
Held(row) == [status |-> "APPROVED", by |-> Owner, approver |-> Owner, due |-> "counting"]

\* The writes, which trust what was read.  If the site was deleted meanwhile they
\* fail and the request ends below.
OwnerCommits ==
    /\ Exists /\ owner # Calm /\ owner.op # "hold"
    /\ IF owner.status = "unchanged" THEN UNCHANGED <<subscription, site, decider>>
       ELSE SetStatus(owner.status) /\ decider' = 0
    /\ \/ /\ owner.op = "create"
          /\ \E d \in Requests : Unused(d) /\ request' = [request EXCEPT ![d] = Held(@)]
       \/ /\ owner.op = "take"
          /\ request' = [request EXCEPT ![owner.request] = Held(@)]
       \/ owner.op = "unhold"
          /\ request' = [request EXCEPT ![owner.request].status = "CANCELED"]
       \/ owner.op \in {"suspend", "resume"} /\ UNCHANGED request
    /\ owner' = Calm
    /\ UNCHANGED <<exempt, trialOver, billing, suspending, asking>>

\* Stripe's answer is an error or is lost, or the transaction rolls back.
OwnerFails ==
    /\ owner # Calm /\ owner' = Calm
    /\ UNCHANGED <<subscription, site, exempt, trialOver, billing, suspending,
                   deletions, decider>>

-----------------------------------------------------------------------------
(* The platform administrators *)

\* suspend_site saves the subscription, then the site.
SuspendSubscription ==
    /\ Exists /\ ~suspending /\ suspending' = TRUE
    /\ subscription' = [subscription EXCEPT !.status = "SUSPENDED"]
    /\ decider' = 0
    /\ UNCHANGED <<site, exempt, trialOver, billing, owner, deletions>>

SuspendSite ==
    /\ suspending /\ suspending' = FALSE
    /\ site' = IF Exists THEN "SUSPENDED" ELSE site
    /\ UNCHANGED <<subscription, exempt, trialOver, billing, owner, deletions, decider>>

\* request_site_deletion: check, then create.  (Bound: as many checks as rows left.)
AdminChecks(a) ==
    /\ site \in {"SUSPENDED", "CANCELED"} /\ Pending = {} /\ a \notin asking
    /\ Cardinality(asking) < Cardinality({d \in Requests : request[d].status = "none"})
    /\ asking' = asking \union {a}
    /\ UNCHANGED <<subscription, site, exempt, trialOver, billing, owner, suspending,
                   request, decider>>

AdminRequests(a, d) ==
    /\ Exists /\ a \in asking /\ asking' = asking \ {a}
    /\ Unused(d)
    /\ request' = [request EXCEPT ![d] =
          [status |-> "REQUESTED", by |-> a, approver |-> Nobody, due |-> "no"]]
    /\ UNCHANGED <<subscription, site, exempt, trialOver, billing, owner, suspending, decider>>

RequestStep(d, row) ==
    /\ request' = [request EXCEPT ![d] = row]
    /\ UNCHANGED <<subscription, exempt, trialOver, billing, owner, suspending, asking,
                   decider>>

\* Mutant: anyone may approve.
ApproveAnyone(a, d) ==
    /\ request[d].status = "REQUESTED"
    /\ RequestStep(d, [request[d] EXCEPT !.status = "APPROVED", !.approver = a,
                                         !.due = "counting"])
    /\ UNCHANGED site

Approve(a, d) ==
    /\ request[d].status = "REQUESTED" /\ request[d].by # a
    /\ RequestStep(d, [request[d] EXCEPT !.status = "APPROVED", !.approver = a,
                                         !.due = "counting"])
    /\ UNCHANGED site

CancelDeletion(d) ==
    /\ d \in Pending
    /\ RequestStep(d, [request[d] EXCEPT !.status = "CANCELED"]) /\ UNCHANGED site

DeletionDue(d) ==
    /\ request[d].status = "APPROVED" /\ request[d].due = "counting"
    /\ RequestStep(d, [request[d] EXCEPT !.due = "over"]) /\ UNCHANGED site

\* execute_site_deletion looks at the request only, not at the site's status.
ExecuteDeletion(d) ==
    /\ Exists /\ request[d].status = "APPROVED" /\ request[d].due = "over"
    /\ RequestStep(d, [request[d] EXCEPT !.status = "COMPLETED"])
    /\ site' = "gone"

-----------------------------------------------------------------------------
Next ==
    \/ StripeSubscribes \/ CheckoutCompletes \/ StripeRenews \/ StripeFails
    \/ StripePauses \/ StripeCancels \/ StripeUpdates \/ SecondPasses
    \/ TrialEnds \/ GraceEnds \/ SynchronizeAccess
    \/ \E n \in DOMAIN events : Deliver(n)
    \/ OwnerBegins \/ HoldLooks \/ OwnerCommits \/ OwnerFails
    \/ (\E a \in Admins : SuspendSubscription) \/ SuspendSite
    \/ \E d \in Requests :
          \/ CancelDeletion(d) \/ DeletionDue(d) \/ ExecuteDeletion(d)
          \/ \E a \in Admins : AdminRequests(a, d) \/ Approve(a, d)
    \/ \E a \in Admins : AdminChecks(a)

Spec == Init /\ [][Next]_vars

-----------------------------------------------------------------------------
(* Properties *)

Kinds == {"completed", "incomplete"} \union DOMAIN Verdict

\* Every variable holds a value the tables, Stripe or a request can hold.
TypeOK ==
    /\ subscription \in [status : Statuses, linked : BOOLEAN,
                         grace : {"none", "running", "over"}, last : 0..MaxSecond]
    /\ site \in Statuses \union {"gone"}
    /\ exempt \in BOOLEAN /\ trialOver \in BOOLEAN /\ suspending \in BOOLEAN
    /\ stripe \in {"none", "trialing", "active", "past_due", "paused", "canceled"}
    /\ second \in 0..MaxSecond
    /\ events \in Seq([kind : Kinds, at : 0..MaxSecond]) /\ Len(events) <= MaxEvents
    /\ processed \subseteq DOMAIN events /\ decider \in 0..Len(events)
    /\ owner \in [op : OwnerMay \union {"none", "create", "take"}, request : Requests \union {0},
                  status : Statuses \union {"none", "unchanged"}]
    /\ asking \subseteq Admins
    /\ request \in [Requests ->
          [status : {"none", "REQUESTED", "APPROVED", "CANCELED", "COMPLETED"},
           by : Admins \union {Owner, Nobody}, approver : Admins \union {Owner, Nobody},
           due : {"no", "counting", "over"}]]

\* A site is never open to the public on the strength of a subscription that says
\* otherwise, although webhooks, job, owner and administrators write the two rows
\* under different locks or none.  Only between the two saves of suspend_site does
\* the site lag behind.
LiveSiteIsEntitled ==
    site \in Live /\ ~suspending => subscription.status = site

\* "Delayed older subscription webhooks cannot regress newer billing state": the
\* event that decided the present status is as new as every event applied or
\* dismissed so far, to the second.
NewestDecides ==
    decider # 0 =>
        \A n \in processed : events[n].kind \in DOMAIN Verdict
                             => events[n].at <= events[decider].at

\* A site is gone only by a request whose period is over and that the owner made or
\* two administrators did, also when one took over the other's request.
DeletionAuthorised ==
    site = "gone" =>
        \E d \in Requests :
            /\ request[d].status = "COMPLETED" /\ request[d].due = "over"
            /\ \/ request[d].by = Owner /\ request[d].approver = Owner
               \/ request[d].by \in Admins /\ request[d].approver \in Admins \ {request[d].by}

\* The deletion requests as SiteDeletion sees them.
PhaseOf(row) ==
    CASE row.status = "none" -> "none"
      [] row.status = "REQUESTED" -> "asked"
      [] row.status = "APPROVED" -> IF row.due = "over" THEN "ripe" ELSE "waiting"
      [] row.status = "CANCELED" -> "withdrawn"
      [] row.status = "COMPLETED" -> "done"

Deletion == INSTANCE SiteDeletion WITH
    phase  <- [d \in Requests |-> PhaseOf(request[d])],
    asker  <- [d \in Requests |-> request[d].by],
    backer <- [d \in Requests |-> request[d].approver],
    gone   <- site = "gone"

\* Services that trust what they have read, an owner and administrators who take over,
\* withdraw and approve each other's requests, and a command that looks at nothing but the
\* request keep to SiteDeletion: whoever asks, agreement and the whole period come before
\* the deletion, which happens once.
DeletesInGoodOrder == Deletion!Spec

=============================================================================
