-------------------------- MODULE ConnectedAccount --------------------------
(***************************************************************************)
(* The site's connected Stripe account and the row that mirrors it.  The   *)
(* row follows snapshots: account.updated events in any order, and fetches *)
(* by the six-hourly task or by an administrator, whose answer is applied  *)
(* after the call.  Revoked access is learnt from one event, which Stripe  *)
(* may not send, or from three permanent failures in a row.                *)
(*                                                                         *)
(* Sources: payments/services.py, tasks.py, views.py, models.py.           *)
(***************************************************************************)
EXTENDS Naturals

Snapshots == {"PENDING", "READY", "RESTRICTED"}
AccountStatus == {"NONE", "DISCONNECTED"} \union Snapshots

VARIABLES
    account,    \* ConnectedAccount: status (NONE: no row) and permanent failures in a row
    stripe,     \* the account at Stripe
    notices,    \* account events on their way
    fetch,      \* refresh_connected_account between Stripe's answer and its use
    failures    \* transient failures of Stripe still to come (bound)

accountVars == <<account, stripe, notices, fetch, failures>>

AccountInit ==
    /\ account = [status |-> "NONE", strikes |-> 0]
    /\ stripe = "NONE"
    /\ notices = {}
    /\ fetch = "NONE"
    /\ failures \in 0..1

\* commerce_ready
CommerceReady == account.status = "READY"

\* synchronize_connected_account: the snapshot replaces everything, a disconnection too.
Synchronized(snapshot) == [status |-> snapshot, strikes |-> 0]

\* connect_start: the account is created with an idempotency key and its row with it.
StartAccount ==
    /\ account.status = "NONE"
    /\ stripe' = "PENDING"
    /\ account' = Synchronized("PENDING")
    /\ UNCHANGED <<notices, fetch, failures>>

\* Stripe (external): onboarding proceeds, requirements fall due.
StripeChanges(snapshot) ==
    /\ stripe \in Snapshots \ {snapshot}
    /\ stripe' = snapshot
    /\ notices' = notices \union {snapshot}
    /\ UNCHANGED <<account, fetch, failures>>

\* The owner revokes the access; the event may not be exposed.
StripeRevokes ==
    /\ stripe \in Snapshots
    /\ stripe' = "REVOKED"
    /\ notices' \in {notices, notices \union {"REVOKED"}}
    /\ UNCHANGED <<account, fetch, failures>>

\* account.updated and account.application.deauthorized, in any order
HandleNotice(notice) ==
    /\ notice \in notices
    /\ notices' = notices \ {notice}
    /\ account' = IF notice = "REVOKED" THEN [account EXCEPT !.status = "DISCONNECTED"]
                  ELSE Synchronized(notice)
    /\ UNCHANGED <<stripe, fetch, failures>>

\* gateway.retrieve_account answers with a snapshot, refuses for good or fails.
FetchAccount ==
    /\ account.status # "NONE" /\ fetch = "NONE"
    /\ \/ fetch' = stripe /\ UNCHANGED failures
       \/ failures > 0 /\ failures' = failures - 1 /\ fetch' = "FAILURE"
    /\ UNCHANGED <<account, stripe, notices>>

\* reconcile_connected_accounts passes over disconnected accounts.
FetchByTask == account.status # "DISCONNECTED" /\ FetchAccount

\* connect_sync and the return from onboarding ask in any status.
FetchByAdmin == account.status = "DISCONNECTED" /\ FetchAccount

\* record_connected_account_sync_failure; strikes beyond 3 make no difference.  Mutant:
\* a permanent failure is not told from a transient one.
StruckNever(permanent) == [account EXCEPT !.strikes = 0]
Struck(permanent) ==
    IF ~permanent THEN [account EXCEPT !.strikes = 0]
    ELSE IF account.strikes >= 2 THEN [status |-> "DISCONNECTED", strikes |-> 3]
    ELSE [account EXCEPT !.strikes = @ + 1]

ApplyFetch ==
    /\ fetch # "NONE"
    /\ account' = IF fetch \in Snapshots THEN Synchronized(fetch) ELSE Struck(fetch = "REVOKED")
    /\ fetch' = "NONE"
    /\ UNCHANGED <<stripe, notices, failures>>

AccountStep ==
    \/ StartAccount \/ StripeRevokes \/ FetchByTask \/ FetchByAdmin \/ ApplyFetch
    \/ \E snapshot \in Snapshots : StripeChanges(snapshot)
    \/ \E notice \in notices : HandleNotice(notice)

-----------------------------------------------------------------------------
(* Properties *)

AccountTypeOK ==
    /\ account \in [status : AccountStatus, strikes : 0..3]
    /\ stripe \in Snapshots \union {"NONE", "REVOKED"}
    /\ notices \subseteq Snapshots \union {"REVOKED"}
    /\ fetch \in Snapshots \union {"NONE", "REVOKED", "FAILURE"}
    /\ failures \in Nat

\* "This provides a bounded fallback": once Stripe's account stops changing, the row
\* says what Stripe says and goes on saying so, whatever order the events came in and
\* whether or not the revocation was announced.
RowConverges ==
    <>[](account.status = CASE stripe = "REVOKED" -> "DISCONNECTED" [] OTHER -> stripe)

=============================================================================
