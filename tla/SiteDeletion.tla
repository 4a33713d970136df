---------------------------- MODULE SiteDeletion ----------------------------
(***************************************************************************)
(* How a site may be deleted, with no word of subscriptions, forms or      *)
(* views: an administrator asks and another one agrees, or the owner asks  *)
(* and needs nobody; a period passes; until it is over the request can be  *)
(* withdrawn and the owner can make it theirs, which starts the period     *)
(* anew; then the site goes, once.  SiteAccess implements this.            *)
(***************************************************************************)
CONSTANTS Admins, Owner, Nobody, Requests

VARIABLES
    phase,      \* none, asked, waiting, ripe, withdrawn, done
    asker,      \* who asked
    backer,     \* who agreed
    gone        \* the site is deleted

vars == <<phase, asker, backer, gone>>

Init ==
    /\ phase = [d \in Requests |-> "none"]
    /\ asker = [d \in Requests |-> Nobody]
    /\ backer = [d \in Requests |-> Nobody]
    /\ gone = FALSE

Ask(d, a) ==
    /\ phase[d] = "none" /\ ~gone
    /\ phase' = [phase EXCEPT ![d] = "asked"]
    /\ asker' = [asker EXCEPT ![d] = a]
    /\ UNCHANGED <<backer, gone>>

Agree(d, a) ==
    /\ phase[d] = "asked" /\ asker[d] # a
    /\ phase' = [phase EXCEPT ![d] = "waiting"]
    /\ backer' = [backer EXCEPT ![d] = a]
    /\ UNCHANGED <<asker, gone>>

\* The owner's request, made at once or taken over; even one that is withdrawn meanwhile.
Own(d) ==
    /\ phase[d] # "done" /\ ~gone
    /\ phase' = [phase EXCEPT ![d] = "waiting"]
    /\ asker' = [asker EXCEPT ![d] = Owner]
    /\ backer' = [backer EXCEPT ![d] = Owner]
    /\ UNCHANGED gone

Ripen(d) ==
    /\ phase[d] = "waiting"
    /\ phase' = [phase EXCEPT ![d] = "ripe"]
    /\ UNCHANGED <<asker, backer, gone>>

Withdraw(d) ==
    /\ phase[d] \in {"asked", "waiting", "ripe"}
    /\ phase' = [phase EXCEPT ![d] = "withdrawn"]
    /\ UNCHANGED <<asker, backer, gone>>

Delete(d) ==
    /\ phase[d] = "ripe" /\ ~gone
    /\ phase' = [phase EXCEPT ![d] = "done"]
    /\ gone' = TRUE
    /\ UNCHANGED <<asker, backer>>

Next ==
    \E d \in Requests :
        \/ \E a \in Admins : Ask(d, a) \/ Agree(d, a)
        \/ Own(d) \/ Ripen(d) \/ Withdraw(d) \/ Delete(d)

Spec == Init /\ [][Next]_vars

=============================================================================
