-------------------------- MODULE MCTicketCommerce --------------------------
(* Small instances of TicketCommerce for TLC. *)
EXTENDS TicketCommerce, TLC

CONSTANTS alice, bob, standard

\* One place left: the case in which two buyers compete.
LastTicket == [t \in TicketTypes |-> 1]

Symmetry == Permutations(Registrations)

=============================================================================
