-------------------------- MODULE SubscriberSites --------------------------
(***************************************************************************)
(* Accounts and the sites they own: an account is verified by e-mail,      *)
(* creates sites within the trial policy, suspends and resumes them, and   *)
(* lets managers in.  The order of Stripe's webhooks and the holds of one  *)
(* site are in SiteAccess; here Stripe reports what a subscription has     *)
(* come to, and a hold and its cancellation are like a suspension and a    *)
(* resumption.  Creation locks the owner's row; every other step is one    *)
(* transaction or one write.                                               *)
(*                                                                         *)
(* Sources: users/views.py, users/tokens.py, sites/views.py,               *)
(* sites/services.py, subscriptions/services.py, gateway.py.               *)
(***************************************************************************)
EXTENDS Naturals, FiniteSets

CONSTANTS
    Users,
    Sites,      \* 1..n: sites ever created (bound)
    MaxPosts    \* onboarding forms of each user under way at a time (bound)

ASSUME SubscribersAssumption == Sites \subseteq Nat /\ MaxPosts \in [Users -> Nat]

VARIABLES
    account,    \* User: NONE, UNVERIFIED (inactive) or VERIFIED
    link,       \* users with a verification link that check_token accepts
    exempt,     \* users with is_subscription_exempt, set by the platform's staff
    status,     \* Site and PlatformSubscription status, changed together; SUSPENDED
                \* stands for CANCELED as well
    trial,      \* trial_ends_at is still ahead
    billing,    \* Stripe's subscription: none (the site is not linked to one), or what
                \* the newest report had of it: still trialing, paying, over
    role,       \* SiteRole of each site and user
    posts,      \* each user's onboarding forms that have been let in
    decided,    \* creations that have been decided, under the lock on the user's row
    beside      \* for the properties: sites resumed, or put by a report of Stripe's, into
                \* their trial beside another trial or a creation that was already decided

siteVars == <<account, link, exempt, status, trial, billing, role, posts, decided, beside>>

Statuses == {"NONE", "TRIALING", "ACTIVE", "GRACE", "SUSPENDED"}
Live == {"TRIALING", "ACTIVE", "GRACE"}
Stages == {"trialing", "paying", "over"}
Roles == {"NONE", "ADMIN", "MANAGER", "REMOVED"}
Owned(u) == {s \in Sites : role[s][u] = "ADMIN"}
Trials(u) == {s \in Owned(u) : status[s] = "TRIALING"}

SubscribersInit ==
    /\ account = [u \in Users |-> "NONE"] /\ link = {} /\ exempt = {}
    /\ status = [s \in Sites |-> "NONE"] /\ trial = {} /\ billing = [s \in Sites |-> "none"]
    /\ role = [s \in Sites |-> [u \in Users |-> "NONE"]]
    /\ posts = [u \in Users |-> 0] /\ decided = [u \in Users |-> 0] /\ beside = {}

-----------------------------------------------------------------------------
(* Accounts *)

\* signup saves an inactive account, then sends the link; a mail server that refuses it
\* leaves the account without one.
SignUp(u) ==
    /\ account[u] = "NONE"
    /\ account' = [account EXCEPT ![u] = "UNVERIFIED"]
    /\ \/ link' = link \union {u}
       \/ UNCHANGED link
    /\ UNCHANGED <<exempt, status, trial, billing, role, posts, decided, beside>>

\* resend_verification
Resend(u) ==
    /\ account[u] = "UNVERIFIED"
    /\ link' = link \union {u}
    /\ UNCHANGED <<account, exempt, status, trial, billing, role, posts, decided, beside>>

\* verify_email; the token's hash covers is_active and email_verified_at, so the links of a
\* verified account are dead.
Verify(u) ==
    /\ u \in link
    /\ account' = [account EXCEPT ![u] = "VERIFIED"]
    /\ link' = link \ {u}
    /\ UNCHANGED <<exempt, status, trial, billing, role, posts, decided, beside>>

\* External: the platform's staff grants or withdraws the exemption, which updates the
\* user's row and so waits for a creation to commit.
Exempt(u) ==
    /\ account[u] = "VERIFIED" /\ decided[u] = 0
    /\ exempt' = IF u \in exempt THEN exempt \ {u} ELSE exempt \union {u}
    /\ UNCHANGED <<account, link, status, trial, billing, role, posts, decided, beside>>

-----------------------------------------------------------------------------
(* Sites *)

\* subscriber_site_creation_decision: roles of a manager do not count.
Allowed(u) ==
    \/ u \in exempt
    \/ Owned(u) = {}
    \/ Trials(u) = {} /\ \E s \in Owned(u) : status[s] = "ACTIVE"

\* onboarding decides a first time before it shows or reads the form ...
OnboardingPost(u) ==
    /\ account[u] = "VERIFIED" /\ Allowed(u) /\ posts[u] < MaxPosts[u]
    /\ posts' = [posts EXCEPT ![u] = @ + 1]
    /\ UNCHANGED <<account, link, exempt, status, trial, billing, role, decided, beside>>

\* Mutant: the owner's row is read without the lock.
OwnerUnlocked(u) == TRUE
OwnerFree(u) == decided[u] = 0

\* ... and create_subscriber_site again under the lock on the owner ...
CreateDecide(u) ==
    /\ posts[u] > 0 /\ OwnerFree(u)
    /\ posts' = [posts EXCEPT ![u] = @ - 1]
    /\ decided' = IF Allowed(u) THEN [decided EXCEPT ![u] = @ + 1] ELSE decided
    /\ UNCHANGED <<account, link, exempt, status, trial, billing, role, beside>>

\* ... whose commit brings the site, its subscription, domain, theme and pages, and the
\* owner's role.
CreateCommit(u, s) ==
    /\ decided[u] > 0
    /\ status[s] = "NONE" /\ \A t \in Sites : t < s => status[t] # "NONE"
    /\ status' = [status EXCEPT ![s] = IF u \in exempt THEN "ACTIVE" ELSE "TRIALING"]
    /\ trial' = trial \union {s}
    /\ role' = [role EXCEPT ![s][u] = "ADMIN"]
    /\ decided' = [decided EXCEPT ![u] = @ - 1]
    /\ UNCHANGED <<account, link, exempt, billing, posts, beside>>

\* What else is in trial is not looked at.
BesideTrial(s) ==
    \E u \in Users : role[s][u] = "ADMIN" /\ (Trials(u) \ {s} # {} \/ decided[u] > 0)

SetStatus(s, to) ==
    /\ status' = [status EXCEPT ![s] = to]
    /\ beside' = IF status[s] # "TRIALING" /\ to = "TRIALING" /\ BesideTrial(s)
                 THEN beside \union {s} ELSE beside

\* The owner's checkout is completed.  create_checkout_session has passed on what was left
\* of the trial when the session was made.
Subscribe(s) ==
    /\ status[s] # "NONE" /\ billing[s] = "none"
    /\ \/ billing' = [billing EXCEPT ![s] = "trialing"]
       \/ s \notin trial /\ billing' = [billing EXCEPT ![s] = "paying"]
    /\ UNCHANGED <<account, link, exempt, status, trial, role, posts, decided, beside>>

\* The status an event sets: an invoice of nothing is paid as the trial begins.
StatusAt(stage) ==
    CASE stage = "trialing" -> {"TRIALING", "ACTIVE"}
      [] stage = "paying" -> {"ACTIVE", "GRACE", "SUSPENDED"}
      [] OTHER -> {"SUSPENDED"}

\* _apply_stripe_event.  Stripe's trial ends no sooner than ours.
StripeReports(s, stage, to) ==
    /\ billing[s] # "none" /\ to \in StatusAt(stage)
    /\ \/ stage = billing[s] \/ stage = "over"
       \/ stage = "paying" /\ billing[s] = "trialing" /\ s \notin trial
    /\ billing' = [billing EXCEPT ![s] = stage]
    /\ SetStatus(s, to)
    /\ UNCHANGED <<account, link, exempt, trial, role, posts, decided>>

TrialEnds(s) ==
    /\ s \in trial
    /\ trial' = trial \ {s}
    /\ UNCHANGED <<account, link, exempt, status, billing, role, posts, decided, beside>>

ExemptOwner(s) == \E u \in exempt : role[s][u] = "ADMIN"

\* synchronize_access, from the hourly job: the trial, or the grace period, is over.
SynchronizeAccess(s) ==
    /\ (status[s] = "TRIALING" /\ s \notin trial) \/ status[s] = "GRACE"
    /\ ~ExemptOwner(s)
    /\ SetStatus(s, "SUSPENDED")
    /\ UNCHANGED <<account, link, exempt, trial, billing, role, posts, decided>>

\* suspend_site_access
Suspend(s) ==
    /\ status[s] \in Live
    /\ SetStatus(s, "SUSPENDED")
    /\ UNCHANGED <<account, link, exempt, trial, billing, role, posts, decided>>

\* _resume_subscription_status: there is none once an unpaid trial has ended.
ResumedStatus(s) ==
    IF billing[s] # "none" \/ ExemptOwner(s) THEN {"ACTIVE"}
    ELSE IF s \in trial THEN {"TRIALING"} ELSE {}

\* resume_site_access
Resume(s) ==
    /\ status[s] = "SUSPENDED"
    /\ \E to \in ResumedStatus(s) : SetStatus(s, to)
    /\ UNCHANGED <<account, link, exempt, trial, billing, role, posts, decided>>

-----------------------------------------------------------------------------
(* Managers *)

\* add_manager: update_or_create, also for one who was removed; the admin is no manager.
AddManager(s, u) ==
    /\ status[s] \in Live /\ account[u] = "VERIFIED" /\ role[s][u] # "ADMIN"
    /\ role' = [role EXCEPT ![s][u] = "MANAGER"]
    /\ UNCHANGED <<account, link, exempt, status, trial, billing, posts, decided, beside>>

\* remove_manager
RemoveManager(s, u) ==
    /\ status[s] \in Live /\ role[s][u] = "MANAGER"
    /\ role' = [role EXCEPT ![s][u] = "REMOVED"]
    /\ UNCHANGED <<account, link, exempt, status, trial, billing, posts, decided, beside>>

SubscribersNext ==
    \/ \E u \in Users :
        \/ SignUp(u) \/ Resend(u) \/ Verify(u) \/ Exempt(u)
        \/ OnboardingPost(u) \/ CreateDecide(u)
        \/ \E s \in Sites : CreateCommit(u, s) \/ AddManager(s, u) \/ RemoveManager(s, u)
    \/ \E s \in Sites :
        \/ Subscribe(s) \/ TrialEnds(s) \/ SynchronizeAccess(s) \/ Suspend(s) \/ Resume(s)
        \/ \E stage \in Stages, to \in Statuses : StripeReports(s, stage, to)

SubscribersSpec == SubscribersInit /\ [][SubscribersNext]_siteVars

-----------------------------------------------------------------------------
(* Properties *)

SubscribersTypeOK ==
    /\ account \in [Users -> {"NONE", "UNVERIFIED", "VERIFIED"}]
    /\ link \subseteq Users /\ exempt \subseteq Users
    /\ \A u \in Users : posts[u] \in 0..MaxPosts[u]
    /\ decided \in [Users -> {0, 1}]
    /\ status \in [Sites -> Statuses]
    /\ trial \subseteq Sites /\ beside \subseteq Sites
    /\ billing \in [Sites -> Stages \union {"none"}]
    /\ role \in [Sites -> [Users -> Roles]]

\* "One self-service trial at a time": an account has two organizations in trial only when
\* one of them went back into its trial while the other one was in trial or being created:
\* it was resumed (from a suspension or a hold), or Stripe reported a trial that goes on.
\* Two creations never do it, however they overlap.
TrialsExplained ==
    \A u \in Users : \A s, t \in Trials(u) : s = t \/ s \in beside \/ t \in beside

=============================================================================
