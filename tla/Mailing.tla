------------------------------ MODULE Mailing -------------------------------
(***************************************************************************)
(* What a campaign promises each contact of its audience, with no word of  *)
(* drafts, launches, reservations, queues or workers: a delivery is begun  *)
(* only for a contact that agrees at that moment, so many times at most,   *)
(* one at a time, and never again after a copy that is known to have left. *)
(* CampaignDelivery implements this.                                       *)
(***************************************************************************)
EXTENDS Naturals

CONSTANTS
    Contacts,
    MaxTries    \* deliveries begun for one contact

VARIABLES
    willing,    \* contacts that agree to be written to
    trying,     \* contacts with a delivery under way
    tries,      \* deliveries begun, per contact
    copies,     \* copies that have left, per contact
    unheard     \* those of them that nobody heard of

vars == <<willing, trying, tries, copies, unheard>>

Init ==
    /\ willing \in SUBSET Contacts
    /\ trying = {}
    /\ tries = [c \in Contacts |-> 0]
    /\ copies = [c \in Contacts |-> 0] /\ unheard = [c \in Contacts |-> 0]

Agree(c) ==
    /\ willing' = willing \union {c}
    /\ UNCHANGED <<trying, tries, copies, unheard>>

Withdraw(c) ==
    /\ willing' = willing \ {c}
    /\ UNCHANGED <<trying, tries, copies, unheard>>

Try(c) ==
    /\ c \in willing \ trying /\ copies[c] = unheard[c] /\ tries[c] < MaxTries
    /\ trying' = trying \union {c}
    /\ tries' = [tries EXCEPT ![c] = @ + 1]
    /\ UNCHANGED <<willing, copies, unheard>>

\* A delivery that has begun is not called back when the contact withdraws.
Leave(c) ==
    /\ c \in trying /\ copies[c] = unheard[c]
    /\ copies' = [copies EXCEPT ![c] = @ + 1]
    /\ UNCHANGED <<willing, trying, tries, unheard>>

Confirm(c) ==
    /\ c \in trying /\ copies[c] > unheard[c]
    /\ trying' = trying \ {c}
    /\ UNCHANGED <<willing, tries, copies, unheard>>

\* If a copy has left nevertheless, it is one that nobody heard of.
Fail(c) ==
    /\ c \in trying /\ trying' = trying \ {c}
    /\ unheard' = [unheard EXCEPT ![c] = copies[c]]
    /\ UNCHANGED <<willing, tries, copies>>

Next == \E c \in Contacts :
    Agree(c) \/ Withdraw(c) \/ Try(c) \/ Leave(c) \/ Confirm(c) \/ Fail(c)

Spec == Init /\ [][Next]_vars

=============================================================================
