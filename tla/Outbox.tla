------------------------------- MODULE Outbox -------------------------------
(***************************************************************************)
(* Delivery of ONE outbound message: the row committed by enqueue_message, *)
(* the Celery workers that claim it, call the provider outside any         *)
(* transaction and write the outcome, the beat job that takes back stale   *)
(* claims, and the provider's callbacks.                                   *)
(*                                                                         *)
(* Sources: communications/services.py, callbacks.py, campaigns.py,        *)
(* providers.py.  Celery acknowledges late, so the broker may hand the     *)
(* same task to several workers at any time: a worker may call             *)
(* deliver_message whenever the row exists.                                *)
(***************************************************************************)
EXTENDS Naturals, FiniteSets

CONSTANTS
    Workers,        \* Celery workers
    MaxAttempts,    \* MAX_DELIVERY_ATTEMPTS
    Events,         \* the callback events that may come, a subset of Rank's
    Idempotent      \* the provider drops a message id it has accepted before

(* Statuses with their ENGAGEMENT_RANK; the others rank 0. *)
Rank == [SENT |-> 1, DELIVERED |-> 2, OPENED |-> 3, FAILED |-> 90,
         BOUNCED |-> 100, SUPPRESSED |-> 105, UNSUBSCRIBED |-> 110,
         QUEUED |-> 0, PROCESSING |-> 0]

Statuses == DOMAIN Rank
Terminal == {"SENT", "DELIVERED", "OPENED", "BOUNCED", "SUPPRESSED", "UNSUBSCRIBED"}
Reported == {"DELIVERED", "OPENED", "BOUNCED"}  \* known from the provider only

ASSUME ConstantsAssumption ==
    /\ IsFiniteSet(Workers)
    /\ MaxAttempts \in Nat \ {0}
    /\ Events \subseteq Reported \union {"FAILED"}
    /\ Idempotent \in BOOLEAN

VARIABLES
    message,    \* OutboundMessage: status, attempts, body kept, provider id known
    due,        \* available_at has passed
    stale,      \* a PROCESSING row not updated for 15 minutes
    reachable,  \* the contact may be sent this message
    worker,     \* each worker's step, with the attempts and body it has in memory
    reports,    \* the provider's callbacks: unsent, sent, processed, ignored
    accepted,   \* copies that left the provider
    blanks,     \* how many of them had lost their body
    lost,       \* answers of the provider that never reached the row
    reclaims,   \* stale claims taken back
    optOut,     \* an unsubscribe request has read the row as waiting
    overtaken   \* one of them wrote over a claim made since it read

vars == <<message, due, stale, reachable, worker, reports, accepted, blanks, lost, reclaims,
          optOut, overtaken>>
unsubscribes == <<optOut, overtaken>>

Row == [status : Statuses, attempts : 0..MaxAttempts, body : BOOLEAN, known : BOOLEAN]
Job == [step : {"idle", "sending", "accepted", "raised"}, attempts : 0..MaxAttempts, body : BOOLEAN]
Idle == [step |-> "idle", attempts |-> 0, body |-> TRUE]

Init ==
    /\ message = [status |-> "QUEUED", attempts |-> 0, body |-> TRUE, known |-> FALSE]
    /\ due = TRUE /\ stale = FALSE /\ reachable = TRUE
    /\ worker = [w \in Workers |-> Idle]
    /\ reports = [e \in Events |-> "unsent"]
    /\ accepted = 0 /\ blanks = 0 /\ lost = 0 /\ reclaims = 0
    /\ optOut = FALSE /\ overtaken = FALSE

-----------------------------------------------------------------------------
(* deliver_message: the claim *)

\* Mutants: a PROCESSING message may be claimed again; a FAILED message is not tried
\* again.
ClaimableWhileProcessing ==
    /\ message.status \notin Terminal
    /\ message.attempts < MaxAttempts /\ due

ClaimableOnce == message.status = "QUEUED" /\ message.attempts < MaxAttempts /\ due

Claimable ==
    /\ message.status \notin Terminal \union {"PROCESSING"}
    /\ message.attempts < MaxAttempts /\ due

Claim(w) ==
    /\ worker[w].step = "idle"
    /\ Claimable /\ reachable
    /\ message' = [message EXCEPT !.status = "PROCESSING", !.attempts = @ + 1]
    /\ worker' = [worker EXCEPT ![w] =
          [step |-> "sending", attempts |-> message.attempts + 1, body |-> message.body]]
    /\ stale' = FALSE
    /\ UNCHANGED <<due, reachable, reports, accepted, blanks, lost, reclaims, unsubscribes>>

\* The contact was archived, suppressed or withdrew consent in the meantime.
Suppress(w) ==
    /\ worker[w].step = "idle"
    /\ Claimable /\ ~reachable
    /\ message' = [message EXCEPT !.status = "SUPPRESSED", !.body = FALSE]
    /\ UNCHANGED <<due, stale, reachable, worker, reports, accepted, blanks, lost, reclaims, unsubscribes>>

-----------------------------------------------------------------------------
(* The provider (external) *)

ProviderAccepts(w) ==
    /\ worker[w].step = "sending"
    /\ LET fresh == ~Idempotent \/ accepted = 0
       IN  /\ accepted' = IF fresh THEN accepted + 1 ELSE accepted
           /\ blanks' = IF fresh /\ ~worker[w].body THEN blanks + 1 ELSE blanks
    /\ \/ worker' = [worker EXCEPT ![w].step = "accepted"] /\ UNCHANGED lost
       \/ worker' = [worker EXCEPT ![w].step = "raised"] /\ lost' = lost + 1
    /\ UNCHANGED <<message, due, stale, reachable, reports, reclaims, unsubscribes>>

ProviderRefuses(w) ==
    /\ worker[w].step = "sending"
    /\ worker' = [worker EXCEPT ![w].step = "raised"]
    /\ UNCHANGED <<message, due, stale, reachable, reports, accepted, blanks, lost, reclaims, unsubscribes>>

ProviderReports(e) ==
    /\ accepted > 0 /\ reports[e] = "unsent"
    /\ reports' = [reports EXCEPT ![e] = "sent"]
    /\ UNCHANGED <<message, due, stale, reachable, worker, accepted, blanks, lost, reclaims, unsubscribes>>

-----------------------------------------------------------------------------
(* deliver_message: the outcome, written without lock or check *)

SaveSent(w) ==
    /\ worker[w].step = "accepted"
    /\ message' = [message EXCEPT !.status = "SENT", !.known = TRUE, !.body = FALSE]
    /\ worker' = [worker EXCEPT ![w] = Idle]
    /\ stale' = FALSE
    /\ UNCHANGED <<due, reachable, reports, accepted, blanks, lost, reclaims, unsubscribes>>

\* Mutant: the body is erased after every failure, not only after the last.
EveryAttempt(w) == TRUE

LastAttempt(w) == worker[w].attempts >= MaxAttempts

\* available_at moves into the future: min(60, 2^attempts) minutes.
SaveFailed(w) ==
    /\ worker[w].step = "raised"
    /\ message' = [message EXCEPT !.status = "FAILED",
                     !.body = @ /\ ~LastAttempt(w)]
    /\ worker' = [worker EXCEPT ![w] = Idle]
    /\ due' = FALSE /\ stale' = FALSE
    /\ UNCHANGED <<reachable, reports, accepted, blanks, lost, reclaims, unsubscribes>>

\* The process is killed at any point between claim and outcome.
WorkerDies(w) ==
    /\ worker[w].step # "idle"
    /\ worker' = [worker EXCEPT ![w] = Idle]
    /\ lost' = IF worker[w].step = "accepted" THEN lost + 1 ELSE lost
    /\ UNCHANGED <<message, due, stale, reachable, reports, accepted, blanks, reclaims, unsubscribes>>

-----------------------------------------------------------------------------
(* Time and queued_message_ids *)

BecomesDue ==
    /\ ~due
    /\ due' = TRUE
    /\ UNCHANGED <<message, stale, reachable, worker, reports, accepted, blanks, lost, reclaims, unsubscribes>>

BecomesStale ==
    /\ message.status = "PROCESSING" /\ ~stale
    /\ stale' = TRUE
    /\ UNCHANGED <<message, due, reachable, worker, reports, accepted, blanks, lost, reclaims, unsubscribes>>

\* Whether the worker that claimed it is dead or only slow.
Reclaim ==
    /\ message.status = "PROCESSING" /\ stale
    /\ message' = [message EXCEPT !.status = "QUEUED"]
    /\ reclaims' = reclaims + 1
    /\ UNCHANGED <<due, stale, reachable, worker, reports, accepted, blanks, lost, unsubscribes>>

-----------------------------------------------------------------------------
(* process_provider_callback, cancel_campaign *)

\* Mutant: events are applied in the order they come.
AlwaysAdvances(e) == TRUE

Advances(e) == Rank[e] >= Rank[message.status]

\* Without the provider's id on the row the callback finds no message and is
\* IGNORED for good.  A final failure exhausts the attempts; a bounce suppresses
\* the contact.
Callback(e) ==
    /\ reports[e] = "sent"
    /\ IF message.known
       THEN /\ message' = [message EXCEPT
                   !.status = IF Advances(e) THEN e ELSE @,
                   !.attempts = IF e = "FAILED" /\ @ < MaxAttempts THEN MaxAttempts ELSE @]
            /\ reachable' = (reachable /\ e # "BOUNCED")
            /\ reports' = [reports EXCEPT ![e] = "processed"]
            /\ stale' = FALSE
       ELSE /\ reports' = [reports EXCEPT ![e] = "ignored"]
            /\ UNCHANGED <<message, reachable, stale>>
    /\ UNCHANGED <<due, worker, accepted, blanks, lost, reclaims, unsubscribes>>

\* One UPDATE of the campaign's messages that are waiting.
CancelCampaign ==
    /\ message.status \in {"QUEUED", "FAILED"}
    /\ message' = [message EXCEPT !.status = "SUPPRESSED", !.body = FALSE]
    /\ UNCHANGED <<due, stale, reachable, worker, reports, accepted, blanks, lost, reclaims, unsubscribes>>

\* The contact is archived or suppressed, or a later opt-in gives the consent again.
BecomesUnreachable ==
    /\ reachable
    /\ reachable' = FALSE
    /\ UNCHANGED <<message, due, stale, worker, reports, accepted, blanks, lost, reclaims, unsubscribes>>

BecomesReachable ==
    /\ ~reachable
    /\ reachable' = TRUE
    /\ UNCHANGED <<message, due, stale, worker, reports, accepted, blanks, lost, reclaims, unsubscribes>>

-----------------------------------------------------------------------------
(* unsubscribe: reads the waiting messages without a lock, commits its save later *)

UnsubscribeReads ==
    /\ message.status \in {"QUEUED", "FAILED"} /\ ~optOut
    /\ optOut' = TRUE
    /\ UNCHANGED <<message, due, stale, reachable, worker, reports, accepted, blanks, lost,
                   reclaims, overtaken>>

\* The consent goes and the row is written, whatever it has become; a request on another
\* of the contact's links may have read it too.
UnsubscribeCommits ==
    /\ optOut
    /\ optOut' \in BOOLEAN
    /\ reachable' = FALSE
    /\ message' = [message EXCEPT !.status = "UNSUBSCRIBED", !.body = FALSE]
    /\ stale' = FALSE
    /\ overtaken' = (overtaken \/ message.status = "PROCESSING")
    /\ UNCHANGED <<due, worker, reports, accepted, blanks, lost, reclaims>>

-----------------------------------------------------------------------------
Next ==
    \/ \E w \in Workers :
          \/ Claim(w) \/ Suppress(w)
          \/ ProviderAccepts(w) \/ ProviderRefuses(w)
          \/ SaveSent(w) \/ SaveFailed(w) \/ WorkerDies(w)
    \/ \E e \in Events : ProviderReports(e) \/ Callback(e)
    \/ BecomesDue \/ BecomesStale \/ Reclaim
    \/ CancelCampaign \/ BecomesUnreachable \/ BecomesReachable
    \/ UnsubscribeReads \/ UnsubscribeCommits

Spec == Init /\ [][Next]_vars

(* Beat drains the queue every minute and some worker is alive to run the    *)
(* task; time passes; a call to the provider ends, or its process does.      *)
Fairness ==
    /\ WF_vars(\E w \in Workers : Claim(w) \/ Suppress(w))
    /\ WF_vars(BecomesDue) /\ WF_vars(BecomesStale) /\ WF_vars(Reclaim)
    /\ \A w \in Workers : WF_vars(SaveSent(w) \/ SaveFailed(w) \/ WorkerDies(w))

FairSpec == Spec /\ Fairness

-----------------------------------------------------------------------------
(* Properties *)

\* Every variable holds a value the row, the worker or the provider can hold; the
\* attempts stay within MAX_DELIVERY_ATTEMPTS.
TypeOK ==
    /\ message \in Row
    /\ due \in BOOLEAN /\ stale \in BOOLEAN /\ reachable \in BOOLEAN
    /\ worker \in [Workers -> Job]
    /\ reports \in [Events -> {"unsent", "sent", "processed", "ignored"}]
    /\ accepted \in Nat /\ blanks \in 0..accepted /\ lost \in Nat /\ reclaims \in Nat
    /\ optOut \in BOOLEAN /\ overtaken \in BOOLEAN

\* A task that the broker delivers again never sends again: even with a provider
\* that does not recognise duplicates, each further copy is owed to an answer that
\* never reached the row or to a stale claim taken back.
DuplicatesExplained == accepted <= 1 + lost + reclaims

\* A message is not sent without its body, which is erased once it is settled, unless
\* the row was reopened behind that: a claim was taken back from a worker that was only
\* slow, or an unsubscribe erased the body of a claimed message whose call then failed.
BlankExplained == blanks > 0 => reclaims > 0 \/ overtaken

\* What the provider reported is not undone: neither a report that comes out of
\* order nor the worker's own late write takes a message back, as long as no claim
\* was taken back.
ReportsOnlyAdvance ==
    [][(message.status \in Reported /\ reclaims = 0)
          => Rank[message'.status] >= Rank[message.status]]_vars

\* "Recovers stale processing state", "bounded retries": whoever died, in the end every
\* message has left PROCESSING for good, settled or with its attempts used up.
RetriesEnd ==
    <>[](/\ message.status # "PROCESSING"
         /\ message.status \in Terminal \/ message.attempts = MaxAttempts)

=============================================================================
