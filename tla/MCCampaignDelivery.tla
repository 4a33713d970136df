------------------------- MODULE MCCampaignDelivery -------------------------
(* Model values for the contacts and the test message; the bounds are in the *)
(* configurations.                                                           *)
EXTENDS CampaignDelivery, TLC

\* In a behaviour either staff edit or test, or the world changes around the
\* campaign, or a worker dies or an answer is lost.
OneOfEach ==
    {[requests |-> 1, changes |-> 0, losses |-> 0],
     [requests |-> 0, changes |-> 1, losses |-> 0],
     [requests |-> 0, changes |-> 0, losses |-> 1]}

\* Staff requests and losses meet a campaign with one eligible contact; requests
\* meet an allowance of which one segment has been sent before, too.
MCInit ==
    /\ Init
    /\ left.changes = 0 => Cardinality({c \in Contacts : Eligible(c)}) = 1
    /\ allowance.sent # 0 => allowance.sent = 1 /\ left.requests > 0 /\ campaign.channel = "SMS"

MCSpec == MCInit /\ [][Next]_vars /\ Fairness

\* For the search for a violation: only the changes of the world.
SmsSpec == MCInit /\ left.changes > 0 /\ [][Next]_vars /\ Fairness

=============================================================================
