--------------------------- MODULE OrderLifecycle ---------------------------
(***************************************************************************)
(* What a ticket order promises its buyer, with no word of holds, locks,   *)
(* webhooks or jobs: an order is open until it is settled or given up;     *)
(* opening one gives up the buyer's earlier open order; only captured      *)
(* money settles an order, it does so even after the order was given up,   *)
(* and a settled order stays settled.  TicketCommerce implements this.     *)
(***************************************************************************)
CONSTANTS Registrations, Orders, None

VARIABLES
    owner,      \* the registration an order is for
    phase,      \* none, open, void, settled
    captured    \* the orders whose money Stripe has taken

vars == <<owner, phase, captured>>

Init ==
    /\ owner = [o \in Orders |-> None]
    /\ phase = [o \in Orders |-> "none"]
    /\ captured = {}

Open(o, r) ==
    /\ phase[o] = "none"
    /\ owner' = [owner EXCEPT ![o] = r]
    /\ phase' = [p \in Orders |->
          IF p = o THEN "open"
          ELSE IF owner[p] = r /\ phase[p] = "open" THEN "void" ELSE phase[p]]
    /\ UNCHANGED captured

Capture(o) ==
    /\ phase[o] \in {"open", "void"}
    /\ captured' = captured \union {o}
    /\ UNCHANGED <<owner, phase>>

GiveUp(o) ==
    /\ phase[o] = "open"
    /\ phase' = [phase EXCEPT ![o] = "void"]
    /\ UNCHANGED <<owner, captured>>

Settle(o) ==
    /\ phase[o] \in {"open", "void"} /\ o \in captured
    /\ phase' = [phase EXCEPT ![o] = "settled"]
    /\ UNCHANGED <<owner, captured>>

Next ==
    \E o \in Orders :
        \/ \E r \in Registrations : Open(o, r)
        \/ Capture(o) \/ GiveUp(o) \/ Settle(o)

Spec == Init /\ [][Next]_vars

=============================================================================
