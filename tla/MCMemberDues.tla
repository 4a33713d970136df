---------------------------- MODULE MCMemberDues ----------------------------
(* The bounds of a behaviour: one theme each. *)
EXTENDS MemberDues, TLC

Nothing ==
    [contact |-> 0, account |-> 0, fetched |-> 0, plan |-> 0, join |-> 1, billing |-> 0,
     reconcile |-> 0]

OneTheme ==
    {[Nothing EXCEPT !.contact = 2, !.join = 2],
     [Nothing EXCEPT !.account = 2, !.fetched = 1],
     [Nothing EXCEPT !.plan = 1, !.join = 2, !.billing = 1],
     [Nothing EXCEPT !.join = 2, !.billing = 2],
     [Nothing EXCEPT !.billing = 3, !.reconcile = 1]}

\* Transient failures of Stripe's account API only where the account is the theme.
MCInit == Init /\ (left.account = 0 => failures = 0)

MCSpec == MCInit /\ [][Next]_vars /\ Fairness

=============================================================================
