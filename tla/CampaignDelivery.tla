-------------------------- MODULE CampaignDelivery --------------------------
(***************************************************************************)
(* ONE campaign of a site from its draft to its end: staff edit, test,     *)
(* launch and cancel it, a task expands it into one outbound message per   *)
(* contact, workers deliver the messages, and contacts opt out.  An SMS    *)
(* campaign reserves segments of the site's monthly allowance; an email    *)
(* campaign needs the sender's postal address and no segments.             *)
(*                                                                         *)
(* Sources: communications/campaigns.py, services.py, views.py, forms.py,  *)
(* models.py, contacts/services.py.  The largest gap: the provider's       *)
(* callbacks, and a claim taken back from a worker that is slow rather     *)
(* than dead, are in Outbox.                                               *)
(* EXPANDING is never visible: expand_campaign commits once.               *)
(***************************************************************************)
EXTENDS Naturals, FiniteSets

CONSTANTS
    Contacts,       \* the campaign's audience
    Tests,          \* test messages that may be queued
    MaxAttempts,    \* MAX_DELIVERY_ATTEMPTS
    Segments,       \* SMS segments of one message
    Included,       \* segments of the month's allowance, bought ones included
    Budgets         \* bounds, one of them in a behaviour: staff requests (edits, tests),
                    \* changes of consent or address from outside, losses (a worker
                    \* dies, an answer of the provider never comes)

ASSUME ConstantsAssumption ==
    /\ IsFiniteSet(Contacts)
    /\ MaxAttempts \in Nat \ {0}
    /\ Segments \in Nat /\ Included \in Nat
    /\ Budgets \subseteq [requests : Nat, changes : Nat, losses : Nat]

Messages == Contacts \union Tests   \* a contact's message is named after it

CampaignStatus == {"DRAFT", "SCHEDULED", "SENDING", "SENT", "CANCELED", "FAILED"}
MessageStatus == {"NONE", "QUEUED", "PROCESSING", "SENT", "FAILED", "SUPPRESSED", "UNSUBSCRIBED"}
RecipientStatus == {"NONE", "EXCLUDED", "QUEUED", "SENT", "FAILED", "SUPPRESSED", "UNSUBSCRIBED"}
\* NONE stands for every way of not being eligible that can end: consent unknown
\* or withdrawn, an archived contact, no address.
Consents == {"NONE", "GRANTED", "SUPPRESSED"}

\* Where a delivery stands between the commits of deliver_message.
Steps == {"idle", "sending", "accepted", "sent", "recorded", "refused", "failed", "settled",
          "closing"}

VARIABLES
    campaign,   \* Campaign: status, channel, segments reserved, allowance set, scheduled_for passed
    address,    \* the site has a postal address
    allowance,  \* SmsAllowance: reserved and sent segments
    consent,    \* the contact's consent for the campaign's channel
    recipient,  \* CampaignRecipient.status
    message,    \* OutboundMessage: status, attempts
    link,       \* an UnsubscribeCapability not used yet
    job,        \* the delivery of each message
    request,    \* a staff request between reading the campaign and saving it
    optOut,     \* a contact's unsubscribe between reading its messages and its commit
    \* For the properties only:
    spent,      \* SMS segments the provider accepted this month
    copies,     \* copies of its message the provider accepted, per contact
    unheard,    \* those of them whose acceptance never reached the row
    clobbered,  \* the campaign's reservation was overwritten by another value
    died,       \* a worker died
    left        \* what is left of the budget

vars == <<campaign, address, allowance, consent, recipient, message, link, job,
          request, optOut, spent, copies, unheard, clobbered, died, left>>
history == <<spent, copies, unheard, clobbered, died, left>>

NoRequest == [kind |-> "none", reserved |-> 0, charged |-> FALSE]

\* campaign_create and duplicate_campaign both start a draft.
Init ==
    /\ campaign \in [status : {"DRAFT"}, channel : {"EMAIL", "SMS"}, reserved : {0},
                     charged : {FALSE}, due : BOOLEAN]
    /\ address = TRUE
    /\ allowance \in [reserved : {0}, sent : 0..Included]   \* earlier campaigns' segments
    /\ consent \in [Contacts -> {"NONE", "GRANTED"}]
    /\ recipient = [c \in Contacts |-> "NONE"]
    /\ message = [m \in Messages |-> [status |-> "NONE", attempts |-> 0]]
    /\ link = [c \in Contacts |-> FALSE]
    /\ job = [m \in Messages |-> "idle"]
    /\ request = NoRequest
    /\ optOut = [c \in Contacts |-> "no"]
    /\ spent = allowance.sent
    /\ copies = [c \in Contacts |-> 0] /\ unheard = [c \in Contacts |-> 0]
    /\ clobbered = FALSE /\ died = FALSE
    /\ left \in Budgets

-----------------------------------------------------------------------------
(* Helpers *)

Cost == IF campaign.channel = "SMS" THEN Segments ELSE 0

Remaining == Included - (allowance.reserved + allowance.sent)

AtMost(a, b) == IF a <= b THEN a ELSE b

\* contact_eligibility
Eligible(c) == consent[c] = "GRANTED"

\* Mutant: who was eligible when the campaign was expanded remains so.
ReachableOnce(m) == TRUE
\* Test messages have no contact.
Reachable(m) == m \in Contacts => Eligible(m)

SenderMissing == campaign.channel = "EMAIL" /\ ~address

\* refresh_campaign_status within a transaction: what the campaign becomes once
\* the recipients are as given.
Refreshed(camp, recipients) ==
    IF camp.status = "SENDING" /\ \A c \in Contacts : recipients[c] # "QUEUED"
    THEN [camp EXCEPT !.status = "SENT"] ELSE camp

\* _release_sms_locked
Releasable(n) ==
    IF campaign.charged THEN AtMost(n, AtMost(allowance.reserved, campaign.reserved)) ELSE 0

\* What a reservation that shrinks by n leaves.  Mutant: the allowance shrinks alone.
AllowanceAlone(camp, n) == camp
Less(camp, n) == [camp EXCEPT !.reserved = @ - n]

\* consume_sms_for_message
Consumable(n) == AtMost(n, AtMost(allowance.reserved, campaign.reserved))

-----------------------------------------------------------------------------
(* Staff *)

\* Mutant: the reservation is not compared with the remaining allowance.
AffordableAlways(n) == TRUE
Affordable(n) == n <= Remaining

\* The estimate replaces what waiting tests have reserved.
Launch ==
    LET eligible == {c \in Contacts : Eligible(c)}
        estimate == Cost * Cardinality(eligible)
        sms == campaign.channel = "SMS"
    IN  /\ campaign.status = "DRAFT"
        /\ eligible # {} /\ ~SenderMissing
        /\ sms => Affordable(estimate)
        /\ campaign' = [campaign EXCEPT !.status = "SCHEDULED",
                          !.reserved = IF sms THEN estimate ELSE @, !.charged = @ \/ sms]
        /\ allowance' = [allowance EXCEPT !.reserved = @ + estimate]
        /\ clobbered' = (clobbered \/ (sms /\ campaign.reserved # 0))
        /\ UNCHANGED <<address, consent, recipient, message, link, job, request, optOut,
                       spent, copies, unheard, died, left>>

\* One transaction under the campaign's lock: what is still reserved goes back at
\* once, waiting messages are suppressed; one in PROCESSING is left to its worker.
Cancel ==
    /\ campaign.status \in {"DRAFT", "SCHEDULED", "SENDING"}
    /\ LET waiting == {m \in Messages : message[m].status \in {"QUEUED", "FAILED"}}
           released == Releasable(campaign.reserved)
       IN  /\ campaign' = [Less(campaign, released) EXCEPT !.status = "CANCELED"]
           /\ allowance' = [allowance EXCEPT !.reserved = @ - released]
           /\ message' = [m \in Messages |-> IF m \in waiting
                            THEN [message[m] EXCEPT !.status = "SUPPRESSED"] ELSE message[m]]
           /\ recipient' = [c \in Contacts |->
                 IF recipient[c] = "QUEUED" /\ message'[c].status = "SUPPRESSED"
                 THEN "SUPPRESSED" ELSE recipient[c]]
    /\ UNCHANGED <<address, consent, link, job, request, optOut, history>>

\* campaign_edit reads the draft without a lock ...
EditRead ==
    /\ request.kind = "none" /\ campaign.status = "DRAFT"
    /\ request' = [kind |-> "edit", reserved |-> campaign.reserved, charged |-> campaign.charged]
    /\ left.requests > 0 /\ left' = [left EXCEPT !.requests = @ - 1]
    /\ UNCHANGED <<campaign, address, allowance, consent, recipient, message, link, job,
                   optOut, spent, copies, unheard, clobbered, died>>

\* ... and form.save() writes every column of what it has read.
EditSave ==
    /\ request.kind = "edit"
    /\ \E d \in BOOLEAN :
          campaign' = [campaign EXCEPT !.status = "DRAFT", !.due = d,
                         !.reserved = request.reserved, !.charged = request.charged]
    /\ clobbered' = (clobbered \/ campaign.status # "DRAFT" \/ campaign.reserved # request.reserved
                       \/ campaign.charged # request.charged)
    /\ request' = NoRequest
    /\ UNCHANGED <<address, allowance, consent, recipient, message, link, job, optOut,
                   spent, copies, unheard, died, left>>

\* The view loads the campaign, in any status, and hands it to queue_campaign_test.
TestRead ==
    /\ request.kind = "none" /\ \E t \in Tests : message[t].status = "NONE"
    /\ request' = [kind |-> "test", reserved |-> campaign.reserved, charged |-> campaign.charged]
    /\ left.requests > 0 /\ left' = [left EXCEPT !.requests = @ - 1]
    /\ UNCHANGED <<campaign, address, allowance, consent, recipient, message, link, job,
                   optOut, spent, copies, unheard, clobbered, died>>

\* It locks the allowance, and adds to the counter it was handed.
TestQueue(t) ==
    /\ request.kind = "test" /\ message[t].status = "NONE"
    /\ campaign.channel = "SMS" => Affordable(Cost)
    /\ allowance' = [allowance EXCEPT !.reserved = @ + Cost]
    /\ campaign' = IF campaign.channel = "SMS"
                   THEN [campaign EXCEPT !.reserved = request.reserved + Cost, !.charged = TRUE]
                   ELSE campaign
    /\ clobbered' = (clobbered \/ (campaign.channel = "SMS" /\ campaign.reserved # request.reserved))
    /\ message' = [message EXCEPT ![t].status = "QUEUED"]
    /\ request' = NoRequest
    /\ UNCHANGED <<address, consent, recipient, link, job, optOut, spent, copies, unheard, died, left>>

RequestEnds ==
    /\ request.kind # "none"
    /\ request' = NoRequest
    /\ UNCHANGED <<campaign, address, allowance, consent, recipient, message, link, job,
                   optOut, history>>

-----------------------------------------------------------------------------
(* expand_campaign, dispatched at launch or by beat once it is due *)

BecomesDue ==
    /\ ~campaign.due
    /\ campaign' = [campaign EXCEPT !.due = TRUE]
    /\ UNCHANGED <<address, allowance, consent, recipient, message, link, job, request,
                   optOut, history>>

\* Mutant: a contact whose message has left is not recognised.
WaitingOnly == {c \in Contacts : message[c].status \in {"QUEUED", "FAILED"}}
Contacted == {c \in Contacts : message[c].status # "NONE"}

\* Contacts are judged again; those who already have a message keep it and their
\* recipient's status.  What the audience turned out not to need is released; an
\* audience that has grown is not checked against the reservation.
Expand ==
    /\ campaign.status = "SCHEDULED" /\ campaign.due
    /\ IF SenderMissing
       THEN /\ campaign' = [campaign EXCEPT !.status = "FAILED"]
            /\ UNCHANGED <<allowance, recipient, message, link>>
       ELSE LET has == Contacted
                fresh == {c \in Contacts \ has : Eligible(c)}
                actual == Cost * Cardinality(has \union fresh)
                released == IF actual < campaign.reserved
                            THEN Releasable(campaign.reserved - actual) ELSE 0
                after == [c \in Contacts |->
                            IF c \in has THEN recipient[c]
                            ELSE IF c \in fresh THEN "QUEUED"
                            ELSE IF consent[c] = "SUPPRESSED" THEN "SUPPRESSED" ELSE "EXCLUDED"]
            IN  /\ recipient' = after
                /\ message' = [m \in Messages |->
                      IF m \in fresh THEN [status |-> "QUEUED", attempts |-> 0] ELSE message[m]]
                /\ link' = [c \in Contacts |-> link[c] \/ c \in fresh]
                /\ allowance' = [allowance EXCEPT !.reserved = @ - released]
                /\ campaign' = [Less(campaign, released) EXCEPT
                      !.status = IF \E c \in Contacts : after[c] = "QUEUED"
                                 THEN "SENDING" ELSE "SENT"]
    /\ UNCHANGED <<address, consent, job, request, optOut, history>>

-----------------------------------------------------------------------------
(* deliver_message: each action is one commit *)

Claimable(m) ==
    /\ job[m] = "idle" /\ message[m].status \in {"QUEUED", "FAILED"}
    /\ message[m].attempts < MaxAttempts

Claim(m) ==
    /\ Claimable(m) /\ Reachable(m)
    /\ message' = [message EXCEPT ![m] = [status |-> "PROCESSING", attempts |-> @.attempts + 1]]
    /\ job' = [job EXCEPT ![m] = "sending"]
    /\ UNCHANGED <<campaign, address, allowance, consent, recipient, link, request, optOut, history>>

Suppress(m) ==
    /\ Claimable(m) /\ ~Reachable(m)
    /\ LET released == Releasable(Cost)
       IN  /\ allowance' = [allowance EXCEPT !.reserved = @ - released]
           /\ recipient' = [recipient EXCEPT ![m] = "SUPPRESSED"]
           /\ campaign' = Refreshed(Less(campaign, released), recipient')
    /\ message' = [message EXCEPT ![m].status = "SUPPRESSED"]
    /\ UNCHANGED <<address, consent, link, job, request, optOut, history>>

\* A counter of the contact's copies goes up; test messages have none.
Counted(count, m) == [c \in Contacts |-> IF c = m THEN count[c] + 1 ELSE count[c]]

\* The provider (external) takes the message: nothing in the database says so yet.
Accept(m) ==
    /\ job[m] = "sending"
    /\ job' = [job EXCEPT ![m] = "accepted"]
    /\ spent' = spent + Cost
    /\ copies' = Counted(copies, m)
    /\ UNCHANGED <<campaign, address, allowance, consent, recipient, message, link, request,
                   optOut, unheard, clobbered, died, left>>

\* Its answer has come, and the row says so.
SaveSent(m) ==
    /\ job[m] = "accepted"
    /\ message' = [message EXCEPT ![m].status = "SENT"]
    /\ job' = [job EXCEPT ![m] = "sent"]
    /\ UNCHANGED <<campaign, address, allowance, consent, recipient, link, request, optOut, history>>

\* send() raises: the row is FAILED and waits for its next attempt.
Refuse(m) ==
    /\ job[m] = "sending"
    /\ message' = [message EXCEPT ![m].status = "FAILED"]
    /\ job' = [job EXCEPT ![m] = "refused"]
    /\ UNCHANGED <<campaign, address, allowance, consent, recipient, link, request, optOut, history>>

\* It raises, too, when the answer to an accepted message does not come in time.
AnswerLost(m) ==
    /\ job[m] = "accepted"
    /\ left.losses > 0 /\ left' = [left EXCEPT !.losses = @ - 1]
    /\ message' = [message EXCEPT ![m].status = "FAILED"]
    /\ job' = [job EXCEPT ![m] = "refused"]
    /\ unheard' = Counted(unheard, m)
    /\ UNCHANGED <<campaign, address, allowance, consent, recipient, link, request,
                   optOut, spent, copies, clobbered, died>>

\* _recipient_update(message, SENT)
RecordSent(m) ==
    /\ job[m] = "sent"
    /\ recipient' = [c \in Contacts |-> IF c = m THEN "SENT" ELSE recipient[c]]
    /\ job' = [job EXCEPT ![m] = "recorded"]
    /\ UNCHANGED <<campaign, address, allowance, consent, message, link, request, optOut, history>>

\* _consume_sms
Consume(m) ==
    /\ job[m] = "recorded"
    /\ LET n == Consumable(Cost)
       IN  /\ allowance' = [reserved |-> allowance.reserved - n, sent |-> allowance.sent + n]
           /\ campaign' = Less(campaign, n)
    /\ job' = [job EXCEPT ![m] = "settled"]
    /\ UNCHANGED <<address, consent, recipient, message, link, request, optOut, history>>

\* Mutant: the last attempt is taken for one that will be repeated.
LastAttemptMissed(m) == message[m].attempts > MaxAttempts
LastAttempt(m) == message[m].attempts >= MaxAttempts

\* The recipient waits for the next attempt or, after the last one, has failed.
RecordFailed(m) ==
    /\ job[m] = "refused"
    /\ recipient' = [c \in Contacts |->
          IF c # m THEN recipient[c] ELSE IF LastAttempt(m) THEN "FAILED" ELSE "QUEUED"]
    /\ job' = [job EXCEPT ![m] = IF LastAttempt(m) THEN "failed" ELSE "idle"]
    /\ UNCHANGED <<campaign, address, allowance, consent, message, link, request, optOut, history>>

\* _release_sms after the last attempt; a second save erases the body.
Release(m) ==
    /\ job[m] = "failed"
    /\ LET released == Releasable(Cost)
       IN  /\ allowance' = [allowance EXCEPT !.reserved = @ - released]
           /\ campaign' = Less(campaign, released)
    /\ job' = [job EXCEPT ![m] = "settled"]
    /\ UNCHANGED <<address, consent, recipient, message, link, request, optOut, history>>

\* _finish_campaign: refresh_campaign_status reads the campaign and its recipients
\* without a lock ...
RefreshRead(m) ==
    /\ job[m] = "settled"
    /\ job' = [job EXCEPT ![m] = IF Refreshed(campaign, recipient) # campaign
                                 THEN "closing" ELSE "idle"]
    /\ UNCHANGED <<campaign, address, allowance, consent, recipient, message, link, request,
                   optOut, history>>

\* ... and saves the status whatever it has become.
RefreshSave(m) ==
    /\ job[m] = "closing"
    /\ campaign' = [campaign EXCEPT !.status = "SENT"]
    /\ job' = [job EXCEPT ![m] = "idle"]
    /\ UNCHANGED <<address, allowance, consent, recipient, message, link, request, optOut, history>>

WorkerDies(m) ==
    /\ job[m] # "idle"
    /\ left.losses > 0 /\ left' = [left EXCEPT !.losses = @ - 1]
    /\ job' = [job EXCEPT ![m] = "idle"]
    /\ died' = TRUE
    /\ unheard' = IF job[m] = "accepted" THEN Counted(unheard, m) ELSE unheard
    /\ UNCHANGED <<campaign, address, allowance, consent, recipient, message, link, request,
                   optOut, spent, copies, clobbered>>

\* queued_message_ids takes back the claim of a worker that died.
Reclaim(m) ==
    /\ message[m].status = "PROCESSING" /\ job[m] = "idle"
    /\ message' = [message EXCEPT ![m].status = "QUEUED"]
    /\ UNCHANGED <<campaign, address, allowance, consent, recipient, link, job, request,
                   optOut, history>>

-----------------------------------------------------------------------------
(* Contacts and the site *)

\* unsubscribe: the transaction reads the contact's waiting messages ...
OptOutRead(c) ==
    /\ link[c] /\ optOut[c] = "no"
    /\ optOut' = [optOut EXCEPT ![c] =
          IF message[c].status \in {"QUEUED", "FAILED"} THEN "waiting" ELSE "nothing"]
    /\ UNCHANGED <<campaign, address, allowance, consent, recipient, message, link, job,
                   request, history>>

\* ... and writes what it has read, whatever a worker did in between.
OptOutCommit(c) ==
    /\ optOut[c] # "no"
    /\ consent' = [consent EXCEPT ![c] = IF @ = "SUPPRESSED" THEN @ ELSE "NONE"]
    /\ link' = [link EXCEPT ![c] = FALSE]
    /\ optOut' = [optOut EXCEPT ![c] = "no"]
    /\ IF optOut[c] = "waiting"
       THEN LET released == Releasable(Cost)
            IN  /\ allowance' = [allowance EXCEPT !.reserved = @ - released]
                /\ message' = [message EXCEPT ![c].status = "UNSUBSCRIBED"]
                /\ recipient' = [recipient EXCEPT ![c] = "UNSUBSCRIBED"]
                /\ campaign' = Refreshed(Less(campaign, released), recipient')
       ELSE UNCHANGED <<campaign, allowance, message, recipient>>
    /\ UNCHANGED <<address, job, request, history>>

\* A manager's form, the newsletter form or a callback about another message; even a
\* suppression can be undone (module Contacts).  The row is locked while an
\* opt-out runs.
SetConsent(c, s) ==
    /\ optOut[c] = "no" /\ consent[c] # s
    /\ consent' = [consent EXCEPT ![c] = s]
    /\ left.changes > 0 /\ left' = [left EXCEPT !.changes = @ - 1]
    /\ UNCHANGED <<campaign, address, allowance, recipient, message, link, job, request,
                   optOut, spent, copies, unheard, clobbered, died>>

\* website settings; only email campaigns read the address
SetAddress ==
    /\ campaign.channel = "EMAIL"
    /\ address' = ~address
    /\ left.changes > 0 /\ left' = [left EXCEPT !.changes = @ - 1]
    /\ UNCHANGED <<campaign, allowance, consent, recipient, message, link, job, request,
                   optOut, spent, copies, unheard, clobbered, died>>

-----------------------------------------------------------------------------
Deliver(m) ==
    \/ Claim(m) \/ (m \in Contacts /\ Suppress(m))
    \/ SaveSent(m) \/ RecordSent(m) \/ Consume(m)
    \/ RecordFailed(m) \/ Release(m)
    \/ RefreshRead(m) \/ RefreshSave(m) \/ Reclaim(m)

Next ==
    \/ Launch \/ Cancel \/ BecomesDue \/ Expand
    \/ EditRead \/ EditSave \/ TestRead \/ RequestEnds
    \/ \E t \in Tests : TestQueue(t)
    \/ \E m \in Messages : Deliver(m) \/ Accept(m) \/ Refuse(m) \/ AnswerLost(m) \/ WorkerDies(m)
    \/ \E c \in Contacts : OptOutRead(c) \/ OptOutCommit(c)
    \/ \E c \in Contacts, s \in Consents : SetConsent(c, s)
    \/ SetAddress

Spec == Init /\ [][Next]_vars

(* Beat dispatches due campaigns and the queue every minute and some worker  *)
(* runs the tasks; a call to the provider ends.                              *)
Fairness ==
    /\ WF_vars(BecomesDue) /\ WF_vars(Expand)
    /\ \A m \in Messages : WF_vars(Deliver(m)) /\ WF_vars(Accept(m) \/ Refuse(m))
    /\ \A c \in Contacts : WF_vars(OptOutCommit(c))

FairSpec == Spec /\ Fairness

-----------------------------------------------------------------------------
(* Properties *)

TypeOK ==
    /\ campaign \in [status : CampaignStatus, channel : {"EMAIL", "SMS"}, reserved : Nat,
                     charged : BOOLEAN, due : BOOLEAN]
    /\ address \in BOOLEAN
    /\ allowance \in [reserved : Nat, sent : Nat]
    /\ consent \in [Contacts -> Consents]
    /\ recipient \in [Contacts -> RecipientStatus]
    /\ message \in [Messages -> [status : MessageStatus, attempts : 0..MaxAttempts]]
    /\ link \in [Contacts -> BOOLEAN]
    /\ job \in [Messages -> Steps]
    /\ request \in [kind : {"none", "edit", "test"}, reserved : Nat, charged : BOOLEAN]
    /\ optOut \in [Contacts -> {"no", "waiting", "nothing"}]
    /\ spent \in Nat /\ copies \in [Contacts -> Nat] /\ unheard \in [Contacts -> Nat]
    /\ clobbered \in BOOLEAN /\ died \in BOOLEAN
    /\ left \in [requests : Nat, changes : Nat, losses : Nat]

\* communications_sms_reserved_within_allowance: no order of launches, tests,
\* deliveries, opt-outs and cancellations makes the row fail its constraint.
WithinAllowance == allowance.reserved + allowance.sent <= Included

\* What the allowance keeps for the campaign is what the campaign believes it has
\* reserved, unless a launch or a request overwrote that counter.
ReservationsAgree == clobbered \/ allowance.reserved = campaign.reserved

\* Each further copy of a contact is owed to one whose acceptance never reached the row,
\* however often the campaign goes back to being a draft and is launched and expanded again.
CopiesExplained == \A c \in Contacts : copies[c] <= 1 + unheard[c]

\* The campaign as each contact sees it (Mailing).
Promise == INSTANCE Mailing WITH
    MaxTries <- MaxAttempts,
    willing  <- {c \in Contacts : Eligible(c)},
    trying   <- {c \in Contacts : job[c] \in {"sending", "accepted"}},
    tries    <- [c \in Contacts |-> message[c].attempts]

\* Whatever staff, tasks and workers do at a time, nobody is written to without consent,
\* more often than MaxAttempts allows, or again after a copy whose acceptance was recorded
\* (Mailing): consent is judged again when a message is claimed, and an expansion that is
\* repeated does not start the count anew.
WritesToTheWilling == Promise!Spec

\* A recipient waits for a message that will not be sent: it opted out, or the
\* campaign was canceled, between the commits that record a refused attempt.
Overtaken == \E c \in Contacts :
    recipient[c] = "QUEUED" /\ message[c].status \in {"UNSUBSCRIBED", "SUPPRESSED"}

\* A campaign that is being sent ends, unless a worker died or one that recorded a
\* refused attempt overtook an opt-out or a cancellation.
CampaignEnds ==
    campaign.status = "SENDING" ~> campaign.status # "SENDING" \/ died \/ Overtaken

\* "SMS cannot exceed configured site/platform limits without explicit
\* confirmation or credit": what left the provider was within the allowance.
SmsLimitKept == spent <= Included

=============================================================================
