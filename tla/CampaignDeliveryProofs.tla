----------------------- MODULE CampaignDeliveryProofs -----------------------
(***************************************************************************)
(* Proofs about the segments and the copies of CampaignDelivery, for any   *)
(* audience, tests, attempts, allowance and budget of requests, changes    *)
(* and losses.                                                             *)
(*                                                                         *)
(* A campaign has two books: the allowance's reserved counter and its own. *)
(* Nothing enters a book that was not affordable; what leaves is the same  *)
(* in both and no more than either holds.  Only a launch over reserved     *)
(* tests and a stale form or test change one book without the other.       *)
(***************************************************************************)
EXTENDS CampaignDelivery, FiniteSetTheorems, TLAPS

USE ConstantsAssumption

Campaign == [status : CampaignStatus, channel : {"EMAIL", "SMS"}, reserved : Nat,
             charged : BOOLEAN, due : BOOLEAN]
Request == [kind : {"none", "edit", "test"}, reserved : Nat, charged : BOOLEAN]

Books ==
    /\ campaign \in Campaign
    /\ allowance \in [reserved : Nat, sent : Nat]
    /\ request \in Request
    /\ clobbered \in BOOLEAN

IInv == Books /\ WithinAllowance /\ ReservationsAgree

LEMMA CostNat == Books => Cost \in Nat
  BY DEF Books, Campaign, Cost

LEMMA Product == \A a, b \in Nat : a * b \in Nat
  OBVIOUS

\* What an audience costs is a number of segments.
LEMMA AudienceNat ==
  ASSUME Books, NEW S \in SUBSET Contacts
  PROVE  Cost * Cardinality(S) \in Nat
<1>1. Cardinality(S) \in Nat
    BY FS_Subset, FS_CardinalityType
<1> QED BY <1>1, CostNat, Product

LEMMA ReleasableBounds ==
  ASSUME Books, NEW n \in Nat
  PROVE  /\ Releasable(n) \in Nat
         /\ Releasable(n) <= allowance.reserved /\ Releasable(n) <= campaign.reserved
  BY DEF Books, Campaign, Releasable, AtMost

LEMMA ConsumableBounds ==
  ASSUME Books, NEW n \in Nat
  PROVE  /\ Consumable(n) \in Nat
         /\ Consumable(n) <= allowance.reserved /\ Consumable(n) <= campaign.reserved
  BY DEF Books, Campaign, Consumable, AtMost

\* Less, and a status that may change with it.
LEMMA LessReserved ==
  ASSUME Books, NEW n \in Nat, n <= campaign.reserved
  PROVE  /\ Less(campaign, n) \in Campaign /\ Less(campaign, n).reserved = campaign.reserved - n
         /\ \A s \in CampaignStatus :
               /\ [Less(campaign, n) EXCEPT !.status = s] \in Campaign
               /\ [Less(campaign, n) EXCEPT !.status = s].reserved = campaign.reserved - n
         /\ \A r : /\ Refreshed(Less(campaign, n), r) \in Campaign
                   /\ Refreshed(Less(campaign, n), r).reserved = campaign.reserved - n
<1>1. campaign.reserved - n \in Nat
    BY DEF Books, Campaign
<1>2. Less(campaign, n) \in Campaign /\ Less(campaign, n).reserved = campaign.reserved - n
    BY <1>1 DEF Books, Campaign, Less
<1>3. ASSUME NEW s \in CampaignStatus
      PROVE  /\ [Less(campaign, n) EXCEPT !.status = s] \in Campaign
             /\ [Less(campaign, n) EXCEPT !.status = s].reserved = campaign.reserved - n
    BY <1>2 DEF Campaign
<1>4. "SENT" \in CampaignStatus
    BY DEF CampaignStatus
<1>5. ASSUME NEW r
      PROVE  /\ Refreshed(Less(campaign, n), r) \in Campaign
             /\ Refreshed(Less(campaign, n), r).reserved = campaign.reserved - n
    BY <1>2, <1>3, <1>4 DEF Refreshed
<1> QED BY <1>2, <1>3, <1>5

\* n segments leave both books, and may be booked as sent.
LEMMA Shrink ==
  ASSUME IInv, NEW n \in Nat, n <= allowance.reserved, n <= campaign.reserved,
         campaign' \in Campaign, campaign'.reserved = campaign.reserved - n,
         \/ allowance' = [allowance EXCEPT !.reserved = @ - n]
         \/ allowance' = [reserved |-> allowance.reserved - n, sent |-> allowance.sent + n],
         UNCHANGED <<request, clobbered>>
  PROVE  IInv'
<1>1. /\ allowance' \in [reserved : Nat, sent : Nat]
      /\ allowance'.reserved = allowance.reserved - n
      /\ allowance'.sent <= allowance.sent + n
  <2>1. CASE allowance' = [allowance EXCEPT !.reserved = @ - n]
      BY <2>1 DEF IInv, Books
  <2>2. CASE allowance' = [reserved |-> allowance.reserved - n, sent |-> allowance.sent + n]
      BY <2>2 DEF IInv, Books
  <2> QED BY <2>1, <2>2
<1>2. Books'
    BY <1>1 DEF IInv, Books
<1>3. WithinAllowance'
  <2>1. allowance.reserved \in Nat /\ allowance.sent \in Nat /\ allowance'.sent \in Nat
        /\ allowance.reserved + allowance.sent <= Included
      BY <1>1 DEF IInv, Books, WithinAllowance
  <2> QED BY <1>1, <2>1 DEF WithinAllowance
<1>4. ReservationsAgree'
    BY <1>1 DEF IInv, ReservationsAgree
<1> QED BY <1>2, <1>3, <1>4 DEF IInv

\* n segments that can be afforded enter the books.
LEMMA Grow ==
  ASSUME IInv, NEW n \in Nat, n = 0 \/ Affordable(n),
         campaign' \in Campaign, request' \in Request,
         allowance' = [allowance EXCEPT !.reserved = @ + n],
         clobbered' \in BOOLEAN, ReservationsAgree'
  PROVE  IInv'
<1>1. allowance' \in [reserved : Nat, sent : Nat]
      /\ allowance'.reserved = allowance.reserved + n /\ allowance'.sent = allowance.sent
    BY DEF IInv, Books
<1>2. Books'
    BY <1>1 DEF Books
<1>3. WithinAllowance'
  <2>1. allowance.reserved \in Nat /\ allowance.sent \in Nat
        /\ allowance.reserved + allowance.sent <= Included
      BY DEF IInv, Books, WithinAllowance
  <2> QED BY <1>1, <2>1 DEF WithinAllowance, Affordable, Remaining
<1> QED BY <1>2, <1>3 DEF IInv

LEMMA InitIInv == Init => IInv
<1> SUFFICES ASSUME Init PROVE IInv
    OBVIOUS
<1>1. campaign \in Campaign /\ campaign.reserved = 0
  <2>1. campaign \in [status : {"DRAFT"}, channel : {"EMAIL", "SMS"}, reserved : {0},
                     charged : {FALSE}, due : BOOLEAN]
      BY DEF Init
  <2>2. "DRAFT" \in CampaignStatus
      BY DEF CampaignStatus
  <2>3. PICK s \in {"DRAFT"}, ch \in {"EMAIL", "SMS"}, n \in {0}, b \in {FALSE}, d \in BOOLEAN :
            campaign = [status |-> s, channel |-> ch, reserved |-> n, charged |-> b, due |-> d]
      BY <2>1
  <2> QED BY <2>2, <2>3 DEF Campaign
<1>2. allowance \in [reserved : Nat, sent : Nat] /\ allowance.reserved = 0
      /\ allowance.sent <= Included
    BY DEF Init
<1>3. request \in Request
    BY DEF Init, NoRequest, Request
<1>4. clobbered \in BOOLEAN
    BY DEF Init
<1> QED BY <1>1, <1>2, <1>3, <1>4 DEF IInv, Books, WithinAllowance, ReservationsAgree

\* A launch replaces the campaign's counter: the books agree when it was zero.
LEMMA LaunchIInv == IInv /\ Launch => IInv'
<1> SUFFICES ASSUME IInv, Launch PROVE IInv'
    OBVIOUS
<1> DEFINE n == Cost * Cardinality({c \in Contacts : Eligible(c)})
           sms == campaign.channel = "SMS"
<1>1. n \in Nat /\ (~sms => n = 0)
  <2>1. {c \in Contacts : Eligible(c)} \in SUBSET Contacts
      OBVIOUS
  <2>2. Cardinality({c \in Contacts : Eligible(c)}) \in Nat
      BY <2>1, FS_Subset, FS_CardinalityType
  <2>3. ~sms => Cost = 0
      BY DEF Cost
  <2> QED BY <2>1, <2>2, <2>3, AudienceNat DEF IInv
<1>2. /\ sms => Affordable(n)
      /\ campaign' = [campaign EXCEPT !.status = "SCHEDULED",
                        !.reserved = IF sms THEN n ELSE @, !.charged = @ \/ sms]
      /\ allowance' = [allowance EXCEPT !.reserved = @ + n]
      /\ clobbered' = (clobbered \/ (sms /\ campaign.reserved # 0))
      /\ request' = request
    BY DEF Launch
<1> HIDE DEF n
<1>3. /\ campaign' \in Campaign
      /\ campaign'.reserved = IF sms THEN n ELSE campaign.reserved
    BY <1>1, <1>2 DEF IInv, Books, Campaign, CampaignStatus
<1>4. allowance'.reserved = allowance.reserved + n
    BY <1>2 DEF IInv, Books
<1>5. clobbered' \in BOOLEAN
    BY <1>2 DEF IInv, Books
<1>6. ReservationsAgree'
  <2> SUFFICES ASSUME ~clobbered' PROVE allowance'.reserved = campaign'.reserved
      BY DEF ReservationsAgree
  <2>1. allowance.reserved = campaign.reserved /\ (sms => campaign.reserved = 0)
      BY <1>2 DEF IInv, ReservationsAgree
  <2>2. campaign.reserved \in Nat
      BY DEF IInv, Books, Campaign
  <2> QED BY <1>1, <1>3, <1>4, <2>1, <2>2
<1> QED BY <1>1, <1>2, <1>3, <1>5, <1>6, Grow DEF IInv, Books

\* So does a test, which adds to the counter its request has read.
LEMMA TestIInv ==
  ASSUME IInv, NEW t \in Tests, TestQueue(t)
  PROVE  IInv'
<1> DEFINE sms == campaign.channel = "SMS"
<1>1. /\ sms => Affordable(Cost)
      /\ allowance' = [allowance EXCEPT !.reserved = @ + Cost]
      /\ campaign' = IF sms
                     THEN [campaign EXCEPT !.reserved = request.reserved + Cost, !.charged = TRUE]
                     ELSE campaign
      /\ clobbered' = (clobbered \/ (sms /\ campaign.reserved # request.reserved))
      /\ request' = NoRequest
    BY DEF TestQueue
<1>2. Cost \in Nat /\ (~sms => Cost = 0)
    BY CostNat DEF IInv, Cost
<1>3. request.reserved \in Nat /\ request' \in Request
    BY <1>1 DEF IInv, Books, Request, NoRequest
<1>4. /\ campaign' \in Campaign
      /\ campaign'.reserved = IF sms THEN request.reserved + Cost ELSE campaign.reserved
  <2>1. request.reserved + Cost \in Nat /\ campaign \in Campaign
      BY <1>2, <1>3 DEF IInv, Books
  <2>2. CASE sms
    <3>1. campaign' = [campaign EXCEPT !.reserved = request.reserved + Cost, !.charged = TRUE]
        BY <1>1, <2>2
    <3> QED BY <2>1, <2>2, <3>1 DEF Campaign
  <2>3. CASE ~sms
      BY <1>1, <2>1, <2>3
  <2> QED BY <2>2, <2>3
<1>5. allowance'.reserved = allowance.reserved + Cost
    BY <1>1 DEF IInv, Books
<1>6. clobbered' \in BOOLEAN
    BY <1>1 DEF IInv, Books
<1>7. ReservationsAgree'
  <2> SUFFICES ASSUME ~clobbered' PROVE allowance'.reserved = campaign'.reserved
      BY DEF ReservationsAgree
  <2>1. allowance.reserved = campaign.reserved /\ (sms => campaign.reserved = request.reserved)
      BY <1>1 DEF IInv, ReservationsAgree
  <2>2. campaign.reserved \in Nat
      BY DEF IInv, Books, Campaign
  <2> QED BY <1>2, <1>4, <1>5, <2>1, <2>2
<1> QED BY <1>1, <1>2, <1>3, <1>4, <1>6, <1>7, Grow

\* A cancellation returns what is left, an expansion what the audience does not need.
LEMMA CancelIInv == IInv /\ Cancel => IInv'
<1> SUFFICES ASSUME IInv, Cancel PROVE IInv'
    OBVIOUS
<1>1. campaign.reserved \in Nat
    BY DEF IInv, Books, Campaign
<1>2. PICK n \in Nat :
          /\ n <= allowance.reserved /\ n <= campaign.reserved
          /\ campaign' = [Less(campaign, n) EXCEPT !.status = "CANCELED"]
          /\ allowance' = [allowance EXCEPT !.reserved = @ - n]
    BY <1>1, ReleasableBounds DEF IInv, Cancel
<1>3. "CANCELED" \in CampaignStatus
    BY DEF CampaignStatus
<1>4. campaign' \in Campaign /\ campaign'.reserved = campaign.reserved - n
    BY <1>2, <1>3, LessReserved DEF IInv
<1> QED BY <1>2, <1>4, Shrink DEF Cancel, history

LEMMA ExpandIInv == IInv /\ Expand => IInv'
<1> SUFFICES ASSUME IInv, Expand PROVE IInv'
    OBVIOUS
<1>1. UNCHANGED <<request, clobbered>>
    BY DEF Expand, history
<1>2. CASE SenderMissing
  <2>1. campaign' = [campaign EXCEPT !.status = "FAILED"] /\ allowance' = allowance
      BY <1>2 DEF Expand
  <2>2. campaign' \in Campaign /\ campaign'.reserved = campaign.reserved
      BY <2>1 DEF IInv, Books, Campaign, CampaignStatus
  <2> QED BY <1>1, <2>1, <2>2 DEF IInv, Books, WithinAllowance, ReservationsAgree
<1>3. CASE ~SenderMissing
  <2> DEFINE has == Contacted
             fresh == {c \in Contacts \ has : Eligible(c)}
             actual == Cost * Cardinality(has \union fresh)
             released == IF actual < campaign.reserved
                         THEN Releasable(campaign.reserved - actual) ELSE 0
  <2>1. actual \in Nat
    <3>1. has \union fresh \in SUBSET Contacts
        BY DEF Contacted
    <3> QED BY <3>1, AudienceNat DEF IInv
  <2>2. /\ allowance' = [allowance EXCEPT !.reserved = @ - released]
        /\ \E s \in {"SENDING", "SENT"} :
              campaign' = [Less(campaign, released) EXCEPT !.status = s]
      BY <1>3 DEF Expand
  <2> HIDE DEF actual
  <2>3. campaign.reserved \in Nat /\ allowance.reserved \in Nat
      BY DEF IInv, Books, Campaign
  <2>4. ASSUME actual < campaign.reserved
        PROVE  released \in Nat /\ released <= allowance.reserved /\ released <= campaign.reserved
    <3>1. campaign.reserved - actual \in Nat
        BY <2>1, <2>3, <2>4
    <3>2. /\ Releasable(campaign.reserved - actual) \in Nat
          /\ Releasable(campaign.reserved - actual) <= allowance.reserved
          /\ Releasable(campaign.reserved - actual) <= campaign.reserved
        BY <3>1, ReleasableBounds DEF IInv
    <3>3. released = Releasable(campaign.reserved - actual)
        BY <2>4
    <3> QED BY <3>2, <3>3
  <2>5. released \in Nat /\ released <= allowance.reserved /\ released <= campaign.reserved
      BY <2>3, <2>4
  <2> HIDE DEF released
  <2>6. "SENDING" \in CampaignStatus /\ "SENT" \in CampaignStatus
      BY DEF CampaignStatus
  <2>7. campaign' \in Campaign /\ campaign'.reserved = campaign.reserved - released
      BY <2>2, <2>5, <2>6, LessReserved DEF IInv
  <2> QED BY <1>1, <2>2, <2>5, <2>7, Shrink
<1> QED BY <1>2, <1>3

\* A delivery, or an opt-out, that returns the segments of its message.
LEMMA ReleaseIInv ==
  ASSUME IInv,
         \/ \E m \in Contacts : Suppress(m)
         \/ \E m \in Messages : Release(m)
         \/ \E c \in Contacts : OptOutCommit(c)
  PROVE  IInv'
<1>1. UNCHANGED <<request, clobbered>>
    BY DEF Suppress, Release, OptOutCommit, history
<1>2. CASE UNCHANGED <<campaign, allowance>>
    BY <1>1, <1>2 DEF IInv, Books, WithinAllowance, ReservationsAgree
<1>3. CASE ~UNCHANGED <<campaign, allowance>>
  <2>1. PICK n \in {Releasable(Cost)} :
            /\ allowance' = [allowance EXCEPT !.reserved = @ - n]
            /\ \/ campaign' = Less(campaign, n)
               \/ \E r : campaign' = Refreshed(Less(campaign, n), r)
      BY <1>3 DEF Suppress, Release, OptOutCommit
  <2>2. n \in Nat /\ n <= allowance.reserved /\ n <= campaign.reserved
      BY <2>1, CostNat, ReleasableBounds DEF IInv
  <2>3. campaign' \in Campaign /\ campaign'.reserved = campaign.reserved - n
      BY <2>1, <2>2, LessReserved DEF IInv
  <2> QED BY <1>1, <2>1, <2>2, <2>3, Shrink
<1> QED BY <1>2, <1>3

LEMMA ConsumeIInv ==
  ASSUME IInv, NEW m \in Messages, Consume(m)
  PROVE  IInv'
<1>1. PICK n \in {Consumable(Cost)} :
          /\ allowance' = [reserved |-> allowance.reserved - n, sent |-> allowance.sent + n]
          /\ campaign' = Less(campaign, n)
    BY DEF Consume
<1>2. n \in Nat /\ n <= allowance.reserved /\ n <= campaign.reserved
    BY <1>1, CostNat, ConsumableBounds DEF IInv
<1>3. campaign' \in Campaign /\ campaign'.reserved = campaign.reserved - n
    BY <1>1, <1>2, LessReserved DEF IInv
<1> QED BY <1>1, <1>2, <1>3, Shrink DEF Consume, history

\* Requests read both counters and write the campaign's, and say so when it had changed.
LEMMA RequestIInv ==
  ASSUME IInv, EditRead \/ TestRead \/ EditSave \/ RequestEnds
  PROVE  IInv'
<1>1. campaign.reserved \in Nat /\ campaign.charged \in BOOLEAN
      /\ request.reserved \in Nat /\ request.charged \in BOOLEAN
    BY DEF IInv, Books, Campaign, Request
<1>2. CASE EditRead \/ TestRead \/ RequestEnds
  <2>1. UNCHANGED <<campaign, allowance, clobbered>>
      BY <1>2 DEF EditRead, TestRead, RequestEnds, history
  <2>2. request' \in Request
    <3>1. CASE EditRead
        BY <1>1, <3>1 DEF EditRead, Request
    <3>2. CASE TestRead
        BY <1>1, <3>2 DEF TestRead, Request
    <3>3. CASE RequestEnds
        BY <3>3 DEF RequestEnds, NoRequest, Request
    <3> QED BY <1>2, <3>1, <3>2, <3>3
  <2> QED BY <2>1, <2>2 DEF IInv, Books, WithinAllowance, ReservationsAgree
<1>3. CASE EditSave
  <2>1. PICK d \in BOOLEAN :
            campaign' = [campaign EXCEPT !.status = "DRAFT", !.due = d,
                           !.reserved = request.reserved, !.charged = request.charged]
      BY <1>3 DEF EditSave
  <2>2. campaign' \in Campaign /\ campaign'.reserved = request.reserved
      BY <1>1, <2>1 DEF IInv, Books, Campaign, CampaignStatus
  <2>3. /\ allowance' = allowance /\ request' = NoRequest
        /\ ~clobbered' => ~clobbered /\ campaign.reserved = request.reserved
        /\ clobbered' \in BOOLEAN
      BY <1>3 DEF EditSave, IInv, Books
  <2>4. request' \in Request
      BY <2>3 DEF NoRequest, Request
  <2>5. ReservationsAgree'
      BY <2>2, <2>3 DEF IInv, ReservationsAgree
  <2> QED BY <2>2, <2>3, <2>4, <2>5 DEF IInv, Books, WithinAllowance
<1> QED BY <1>2, <1>3

\* Steps that change a campaign's status only, or no book at all.
LEMMA OtherIInv ==
  ASSUME IInv,
         \/ BecomesDue
         \/ \E m \in Messages :
               \/ Claim(m) \/ RecordSent(m) \/ RecordFailed(m) \/ RefreshRead(m) \/ RefreshSave(m)
               \/ Reclaim(m) \/ Accept(m) \/ SaveSent(m) \/ Refuse(m) \/ AnswerLost(m)
               \/ WorkerDies(m)
         \/ \E c \in Contacts : OptOutRead(c)
         \/ \E c \in Contacts, s \in Consents : SetConsent(c, s)
         \/ SetAddress
         \/ UNCHANGED vars
  PROVE  IInv'
<1>1. UNCHANGED <<allowance, request, clobbered>>
    BY DEF BecomesDue, Claim, RecordSent, RecordFailed, RefreshRead, RefreshSave, Reclaim, Accept,
           SaveSent, Refuse, AnswerLost, WorkerDies, OptOutRead, SetConsent, SetAddress, vars, history
<1>2. \/ campaign' = campaign
      \/ campaign' = [campaign EXCEPT !.due = TRUE]
      \/ campaign' = [campaign EXCEPT !.status = "SENT"]
    BY DEF BecomesDue, Claim, RecordSent, RecordFailed, RefreshRead, RefreshSave, Reclaim, Accept,
           SaveSent, Refuse, AnswerLost, WorkerDies, OptOutRead, SetConsent, SetAddress, vars
<1>3. campaign' \in Campaign /\ campaign'.reserved = campaign.reserved
    BY <1>2 DEF IInv, Books, Campaign, CampaignStatus
<1> QED BY <1>1, <1>3 DEF IInv, Books, WithinAllowance, ReservationsAgree

LEMMA NextIInv == IInv /\ [Next]_vars => IInv'
<1> SUFFICES ASSUME IInv, [Next]_vars PROVE IInv'
    OBVIOUS
<1>1. CASE Launch \/ Cancel \/ Expand
    BY <1>1, LaunchIInv, CancelIInv, ExpandIInv
<1>2. CASE EditRead \/ EditSave \/ TestRead \/ RequestEnds
    BY <1>2, RequestIInv
<1>3. CASE \E t \in Tests : TestQueue(t)
    BY <1>3, TestIInv
<1>4. CASE \E m \in Messages : Deliver(m) \/ Accept(m) \/ Refuse(m) \/ AnswerLost(m) \/ WorkerDies(m)
    BY <1>4, ReleaseIInv, ConsumeIInv, OtherIInv DEF Deliver
<1>5. CASE \E c \in Contacts : OptOutRead(c) \/ OptOutCommit(c)
    BY <1>5, ReleaseIInv, OtherIInv
<1>6. CASE BecomesDue \/ SetAddress \/ UNCHANGED vars
           \/ \E c \in Contacts, s \in Consents : SetConsent(c, s)
    BY <1>6, OtherIInv
<1> QED BY <1>1, <1>2, <1>3, <1>4, <1>5, <1>6 DEF Next

LEMMA Invariant == Spec => []IInv
  BY InitIInv, NextIInv, PTL DEF Spec

\* The month's allowance is never overdrawn on the books, whatever launches, tests,
\* deliveries, opt-outs and cancellations overlap.
THEOREM CampaignWithinAllowance == Spec => []WithinAllowance
<1>1. IInv => WithinAllowance
    BY DEF IInv
<1> QED BY Invariant, <1>1, PTL

\* The two counters of a reservation differ only after a launch over reserved tests, or
\* a form or a test that had read a counter which changed.
THEOREM CampaignReservationsAgree == Spec => []ReservationsAgree
<1>1. IInv => ReservationsAgree
    BY DEF IInv
<1> QED BY Invariant, <1>1, PTL

-----------------------------------------------------------------------------
(* Copies *)

Deliveries ==
    /\ message \in [Messages -> [status : MessageStatus, attempts : Nat]]
    /\ job \in [Messages -> Steps]
    /\ copies \in [Contacts -> Nat] /\ unheard \in [Contacts -> Nat]

\* Of a contact's copies at most one was, or may still be, heard of.  Such a copy is in the
\* hands of a worker that waits for its answer, or out of the reach of the queue, of another
\* expansion and of the worker that sent it.
Settled(c) == message[c].status \in {"SENT", "UNSUBSCRIBED"} /\ job[c] # "sending"
Placed(c) ==
    \/ copies[c] = unheard[c] /\ job[c] # "accepted"
    \/ copies[c] = unheard[c] + 1 /\ (job[c] = "accepted" \/ Settled(c))
Left == \A c \in Contacts : Placed(c)

CopyInv == Deliveries /\ Left

LEMMA InitCopyInv == Init => CopyInv
<1> SUFFICES ASSUME Init PROVE CopyInv
    OBVIOUS
<1>1. /\ message = [m \in Messages |-> [status |-> "NONE", attempts |-> 0]]
      /\ job = [m \in Messages |-> "idle"]
      /\ copies = [c \in Contacts |-> 0] /\ unheard = [c \in Contacts |-> 0]
    BY DEF Init
<1>2. Deliveries
    BY <1>1 DEF Deliveries, MessageStatus, Steps
<1>3. Left
    BY <1>1 DEF Left, Placed, Messages
<1> QED BY <1>2, <1>3 DEF CopyInv

\* Steps that touch neither a message nor a delivery, or free one that waits for no answer.
LEMMA IdleCopyInv ==
  ASSUME CopyInv, UNCHANGED <<message, copies, unheard>>,
         \/ job' = job
         \/ \E m \in Messages, s \in Steps \ {"sending", "accepted"} :
               job[m] # "accepted" /\ job' = [job EXCEPT ![m] = s]
  PROVE  CopyInv'
  BY DEF CopyInv, Deliveries, Left, Placed, Settled, Messages

\* Steps that rewrite messages, and of those that were sent only an unsubscribed one.
LEMMA WrittenCopyInv ==
  ASSUME CopyInv, UNCHANGED <<job, copies, unheard>>,
         message' \in [Messages -> [status : MessageStatus, attempts : Nat]],
         \A m \in Messages : message[m].status \in {"SENT", "UNSUBSCRIBED"} =>
            message'[m].status \in {"SENT", "UNSUBSCRIBED"}
  PROVE  CopyInv'
  BY DEF CopyInv, Deliveries, Left, Placed, Settled, Messages

\* Steps of one delivery.
LEMMA OneCopyInv ==
  ASSUME CopyInv, NEW m \in Messages, Deliveries', m \in Contacts => Placed(m)',
         \A c \in Contacts \ {m} : /\ message'[c] = message[c] /\ job'[c] = job[c]
                                   /\ copies'[c] = copies[c] /\ unheard'[c] = unheard[c]
  PROVE  CopyInv'
  BY DEF CopyInv, Left, Placed, Settled

LEMMA CountedNat ==
  ASSUME Deliveries, NEW m \in Messages
  PROVE  /\ Counted(copies, m) \in [Contacts -> Nat] /\ Counted(unheard, m) \in [Contacts -> Nat]
         /\ \A c \in Contacts \ {m} : /\ Counted(copies, m)[c] = copies[c]
                                      /\ Counted(unheard, m)[c] = unheard[c]
         /\ m \in Contacts => /\ Counted(copies, m)[m] = copies[m] + 1
                              /\ Counted(unheard, m)[m] = unheard[m] + 1
  BY DEF Deliveries, Counted

\* The audience: a draft that is expanded again finds every contact that has a message.
LEMMA AudienceCopyInv ==
  ASSUME CopyInv, Cancel \/ Expand \/ \E t \in Tests : TestQueue(t)
  PROVE  CopyInv'
<1>1. UNCHANGED <<job, copies, unheard>>
    BY DEF Cancel, Expand, TestQueue, history
<1>2. message' = message \/
      /\ message' \in [Messages -> [status : MessageStatus, attempts : Nat]]
      /\ \A m \in Messages : message[m].status \in {"SENT", "UNSUBSCRIBED"} =>
            message'[m].status \in {"SENT", "UNSUBSCRIBED"}
  <2>1. CASE Cancel
    <3>1. message' = [m \in Messages |-> IF message[m].status \in {"QUEUED", "FAILED"}
                        THEN [message[m] EXCEPT !.status = "SUPPRESSED"] ELSE message[m]]
        BY <2>1 DEF Cancel
    <3> QED BY <3>1 DEF CopyInv, Deliveries, MessageStatus
  <2>2. CASE Expand
    <3>1. CASE SenderMissing
        BY <2>2, <3>1 DEF Expand
    <3>2. CASE ~SenderMissing
      <4>1. message' = [m \in Messages |->
                IF m \in {c \in Contacts \ Contacted : Eligible(c)}
                THEN [status |-> "QUEUED", attempts |-> 0] ELSE message[m]]
          BY <2>2, <3>2 DEF Expand
      <4>2. \A m \in Messages : m \in {c \in Contacts \ Contacted : Eligible(c)} =>
                message[m].status = "NONE"
          BY DEF Contacted
      <4> QED BY <4>1, <4>2 DEF CopyInv, Deliveries, MessageStatus
    <3> QED BY <3>1, <3>2
  <2>3. CASE \E t \in Tests : TestQueue(t)
    <3>1. PICK t \in Messages : /\ message[t].status = "NONE"
                                /\ message' = [message EXCEPT ![t].status = "QUEUED"]
        BY <2>3 DEF TestQueue, Messages
    <3> QED BY <3>1 DEF CopyInv, Deliveries, MessageStatus
  <2> QED BY <2>1, <2>2, <2>3
<1> QED BY <1>1, <1>2, WrittenCopyInv, IdleCopyInv

\* A delivery claims what waits, and a call is made for what is not known to have left.
LEMMA DeliveryCopyInv ==
  ASSUME CopyInv, NEW m \in Messages,
         \/ Claim(m) \/ Accept(m) \/ SaveSent(m) \/ Refuse(m) \/ AnswerLost(m)
         \/ job[m] = "accepted" /\ WorkerDies(m)
  PROVE  CopyInv'
<1>1. /\ \E s \in {"sending", "accepted", "sent", "refused", "idle"} : job' = [job EXCEPT ![m] = s]
      /\ \/ message' = message
         \/ \E s \in {"SENT", "FAILED"} : message' = [message EXCEPT ![m].status = s]
         \/ message' = [message EXCEPT ![m] =
                          [status |-> "PROCESSING", attempts |-> message[m].attempts + 1]]
      /\ copies' \in {copies, Counted(copies, m)} /\ unheard' \in {unheard, Counted(unheard, m)}
    BY DEF Claim, Accept, SaveSent, Refuse, AnswerLost, WorkerDies, history
<1>2. Deliveries'
  <2>1. job' \in [Messages -> Steps]
      BY <1>1 DEF CopyInv, Deliveries, Steps
  <2>2. message' \in [Messages -> [status : MessageStatus, attempts : Nat]]
      BY <1>1 DEF CopyInv, Deliveries, MessageStatus
  <2> QED BY <1>1, <2>1, <2>2, CountedNat DEF CopyInv, Deliveries
<1>3. \A c \in Contacts \ {m} : /\ message'[c] = message[c] /\ job'[c] = job[c]
                                /\ copies'[c] = copies[c] /\ unheard'[c] = unheard[c]
  <2> SUFFICES ASSUME NEW c \in Contacts \ {m}
               PROVE  /\ message'[c] = message[c] /\ job'[c] = job[c]
                      /\ copies'[c] = copies[c] /\ unheard'[c] = unheard[c]
      OBVIOUS
  <2>1. message'[c] = message[c] /\ job'[c] = job[c]
      BY <1>1 DEF CopyInv, Deliveries, Messages
  <2> QED BY <1>1, <2>1, CountedNat DEF CopyInv
<1>4. ASSUME m \in Contacts PROVE Placed(m)'
  <2> USE <1>4 DEF CopyInv, Deliveries
  <2>1. Placed(m) /\ copies[m] \in Nat /\ unheard[m] \in Nat
      BY DEF Left
  <2>2. CASE Claim(m)
    <3>1. /\ message[m].status \in {"QUEUED", "FAILED"} /\ job[m] = "idle"
          /\ job'[m] = "sending" /\ UNCHANGED <<copies, unheard>>
        BY <2>2 DEF Claim, Claimable, history
    <3> QED BY <2>1, <3>1 DEF Placed, Settled
  <2>3. CASE Accept(m)
    <3>1. job[m] = "sending" /\ job'[m] = "accepted" /\ unheard' = unheard
          /\ copies'[m] = copies[m] + 1
        BY <2>3, CountedNat DEF Accept
    <3> QED BY <2>1, <3>1 DEF Placed, Settled
  <2>4. CASE SaveSent(m)
    <3>1. job[m] = "accepted" /\ job'[m] = "sent" /\ message'[m].status = "SENT"
          /\ UNCHANGED <<copies, unheard>>
        BY <2>4 DEF SaveSent, history
    <3> QED BY <2>1, <3>1 DEF Placed, Settled
  <2>5. CASE Refuse(m)
    <3>1. job[m] = "sending" /\ job'[m] = "refused" /\ UNCHANGED <<copies, unheard>>
        BY <2>5 DEF Refuse, history
    <3> QED BY <2>1, <3>1 DEF Placed, Settled
  <2>6. CASE AnswerLost(m) \/ (job[m] = "accepted" /\ WorkerDies(m))
    <3>1. /\ job[m] = "accepted" /\ \E s \in {"refused", "idle"} : job' = [job EXCEPT ![m] = s]
          /\ copies' = copies /\ unheard' = Counted(unheard, m)
        BY <2>6 DEF AnswerLost, WorkerDies
    <3>2. job'[m] # "accepted" /\ unheard'[m] = unheard[m] + 1
        BY <3>1, CountedNat
    <3> QED BY <2>1, <3>1, <3>2 DEF Placed
  <2> QED BY <2>2, <2>3, <2>4, <2>5, <2>6
<1> QED BY <1>2, <1>3, <1>4, OneCopyInv

\* A suppression, an opt-out or a claim taken back changes a status.
LEMMA StatusCopyInv ==
  ASSUME CopyInv,
         \/ \E m \in Contacts : Suppress(m)
         \/ \E m \in Messages : Reclaim(m)
         \/ \E c \in Contacts : OptOutCommit(c)
  PROVE  CopyInv'
<1>1. UNCHANGED <<job, copies, unheard>>
    BY DEF Suppress, Reclaim, OptOutCommit, history
<1>2. \/ message' = message
      \/ \E m \in Messages : /\ message[m].status \notin {"SENT", "UNSUBSCRIBED"}
                             /\ \E s \in MessageStatus : message' = [message EXCEPT ![m].status = s]
      \/ \E m \in Messages : message' = [message EXCEPT ![m].status = "UNSUBSCRIBED"]
  <2>1. ASSUME NEW m \in Contacts, Suppress(m)
        PROVE  \E s \in MessageStatus : /\ message[m].status \notin {"SENT", "UNSUBSCRIBED"}
                                        /\ message' = [message EXCEPT ![m].status = s]
      BY <2>1 DEF Suppress, Claimable, MessageStatus
  <2>2. ASSUME NEW m \in Messages, Reclaim(m)
        PROVE  \E s \in MessageStatus : /\ message[m].status \notin {"SENT", "UNSUBSCRIBED"}
                                        /\ message' = [message EXCEPT ![m].status = s]
      BY <2>2 DEF Reclaim, MessageStatus
  <2>3. ASSUME NEW c \in Contacts, OptOutCommit(c)
        PROVE  message' = message \/ message' = [message EXCEPT ![c].status = "UNSUBSCRIBED"]
      BY <2>3 DEF OptOutCommit
  <2>4. Contacts \subseteq Messages
      BY DEF Messages
  <2> QED BY <2>1, <2>2, <2>3, <2>4
<1>3. message' = message \/
      /\ message' \in [Messages -> [status : MessageStatus, attempts : Nat]]
      /\ \A m \in Messages : message[m].status \in {"SENT", "UNSUBSCRIBED"} =>
            message'[m].status \in {"SENT", "UNSUBSCRIBED"}
    BY <1>2 DEF CopyInv, Deliveries, MessageStatus
<1> QED BY <1>1, <1>3, WrittenCopyInv, IdleCopyInv

LEMMA NextCopyInv == CopyInv /\ [Next]_vars => CopyInv'
<1> SUFFICES ASSUME CopyInv, [Next]_vars PROVE CopyInv'
    OBVIOUS
<1>1. CASE Cancel \/ Expand \/ \E t \in Tests : TestQueue(t)
    BY <1>1, AudienceCopyInv
<1>2. CASE \E m \in Messages :
               \/ Claim(m) \/ Accept(m) \/ SaveSent(m) \/ Refuse(m) \/ AnswerLost(m)
               \/ job[m] = "accepted" /\ WorkerDies(m)
    BY <1>2, DeliveryCopyInv
<1>3. CASE \/ \E m \in Contacts : Suppress(m)
           \/ \E m \in Messages : Reclaim(m)
           \/ \E c \in Contacts : OptOutCommit(c)
    BY <1>3, StatusCopyInv
<1>4. ASSUME NEW m \in Messages,
             \/ RecordSent(m) \/ Consume(m) \/ RecordFailed(m) \/ Release(m)
             \/ RefreshRead(m) \/ RefreshSave(m) \/ (job[m] # "accepted" /\ WorkerDies(m))
      PROVE  CopyInv'
  <2>1. /\ UNCHANGED <<message, copies, unheard>> /\ job[m] # "accepted"
        /\ \E s \in Steps \ {"sending", "accepted"} : job' = [job EXCEPT ![m] = s]
      BY <1>4 DEF RecordSent, Consume, RecordFailed, Release, RefreshRead, RefreshSave,
                  WorkerDies, history, Steps
  <2> QED BY <2>1, IdleCopyInv
<1>5. CASE UNCHANGED <<message, job, copies, unheard>>
    BY <1>5, IdleCopyInv
<1>6. \/ Launch \/ BecomesDue \/ EditRead \/ EditSave \/ TestRead \/ RequestEnds \/ SetAddress
      \/ (\E c \in Contacts : OptOutRead(c)) \/ UNCHANGED vars
      \/ (\E c \in Contacts, s \in Consents : SetConsent(c, s))
      => UNCHANGED <<message, job, copies, unheard>>
    BY DEF Launch, BecomesDue, EditRead, EditSave, TestRead, RequestEnds, SetAddress, OptOutRead,
           SetConsent, vars, history
<1>7. CASE \E m \in Messages : Deliver(m) \/ Accept(m) \/ Refuse(m) \/ AnswerLost(m) \/ WorkerDies(m)
  <2>1. PICK m \in Messages : Deliver(m) \/ Accept(m) \/ Refuse(m) \/ AnswerLost(m) \/ WorkerDies(m)
      BY <1>7
  <2>2. CASE Deliver(m)
      BY <1>2, <1>3, <1>4, <2>2 DEF Deliver
  <2>3. CASE ~Deliver(m)
      BY <1>2, <1>4, <2>1, <2>3
  <2> QED BY <2>2, <2>3
<1> QED BY <1>1, <1>3, <1>5, <1>6, <1>7 DEF Next

\* Each copy of a contact beyond the first is owed to one whose acceptance never reached the
\* row: a stale form may take the campaign back to a draft that is launched and expanded
\* again, a claim may be taken back from a dead worker and an opt-out may overwrite what a
\* worker wrote, but a message that is known to have left is never queued again.
THEOREM CampaignCopiesExplained == Spec => []CopiesExplained
<1>1. CopyInv => CopiesExplained
    BY DEF CopyInv, Deliveries, Left, Placed, CopiesExplained
<1> QED BY InitCopyInv, NextCopyInv, <1>1, PTL DEF Spec

-----------------------------------------------------------------------------
(* CampaignDelivery implements Mailing *)

\* A message that has not been written yet has no attempts behind it, so that the expansion,
\* which writes the missing ones only, forgets none.
Untouched == \A m \in Messages : message[m].status = "NONE" => message[m].attempts = 0

MailInv == CopyInv /\ Untouched /\ consent \in [Contacts -> Consents]

\* No step takes a message back to where it had not been written.
LEMMA WrittenStaysWritten ==
  ASSUME CopyInv, [Next]_vars, NEW m \in Messages
  PROVE  message'[m] = message[m] \/ message'[m].status # "NONE"
<1> USE DEF CopyInv, Deliveries
<1>1. CASE Cancel
  <2>1. message'[m] = IF message[m].status \in {"QUEUED", "FAILED"}
                      THEN [message[m] EXCEPT !.status = "SUPPRESSED"] ELSE message[m]
      BY <1>1 DEF Cancel
  <2> QED BY <2>1
<1>2. CASE Expand
  <2>1. message'[m] = message[m] \/ message'[m] = [status |-> "QUEUED", attempts |-> 0]
      BY <1>2 DEF Expand
  <2> QED BY <2>1
<1>3. CASE \E t \in Tests : TestQueue(t)
  <2>1. PICK t \in Tests : message' = [message EXCEPT ![t].status = "QUEUED"]
      BY <1>3 DEF TestQueue
  <2> QED BY <2>1
<1>4. ASSUME NEW n \in Messages, Claim(n) PROVE message'[m] = message[m] \/ message'[m].status # "NONE"
  <2>1. message' = [message EXCEPT ![n] = [status |-> "PROCESSING", attempts |-> message[n].attempts + 1]]
      BY <1>4 DEF Claim
  <2> QED BY <2>1
<1>5. ASSUME NEW n \in Messages, SaveSent(n) \/ Refuse(n) \/ AnswerLost(n) \/ Reclaim(n)
      PROVE  message'[m] = message[m] \/ message'[m].status # "NONE"
  <2>1. \E s \in {"SENT", "FAILED", "QUEUED"} : message' = [message EXCEPT ![n].status = s]
      BY <1>5 DEF SaveSent, Refuse, AnswerLost, Reclaim
  <2> QED BY <2>1
<1>6. ASSUME NEW c \in Contacts, Suppress(c) \/ OptOutCommit(c)
      PROVE  message'[m] = message[m] \/ message'[m].status # "NONE"
  <2>1. message' = message \/ \E s \in {"SUPPRESSED", "UNSUBSCRIBED"} :
                                  message' = [message EXCEPT ![c].status = s]
      BY <1>6 DEF Suppress, OptOutCommit
  <2> QED BY <2>1
<1>7. \/ \E n \in Messages : \/ Accept(n) \/ RecordSent(n) \/ Consume(n) \/ RecordFailed(n) \/ Release(n)
                               \/ RefreshRead(n) \/ RefreshSave(n) \/ WorkerDies(n)
      \/ Launch \/ BecomesDue \/ EditRead \/ EditSave \/ TestRead \/ RequestEnds \/ SetAddress
      \/ (\E c \in Contacts : OptOutRead(c)) \/ UNCHANGED vars
      \/ (\E c \in Contacts, s \in Consents : SetConsent(c, s))
      => message' = message
    BY DEF Launch, BecomesDue, EditRead, EditSave, TestRead, RequestEnds, SetAddress, OptOutRead,
           SetConsent, vars, Accept, RecordSent, Consume, RecordFailed, Release, RefreshRead, RefreshSave,
           WorkerDies
<1> QED BY <1>1, <1>2, <1>3, <1>4, <1>5, <1>6, <1>7 DEF Next, Deliver

LEMMA InitMailInv == Init => MailInv
<1> SUFFICES ASSUME Init PROVE MailInv
    OBVIOUS
<1>1. message = [m \in Messages |-> [status |-> "NONE", attempts |-> 0]]
    BY DEF Init
<1>2. Untouched
    BY <1>1 DEF Untouched
<1>3. consent \in [Contacts -> {"NONE", "GRANTED"}]
    BY DEF Init
<1>4. consent \in [Contacts -> Consents]
    BY <1>3 DEF Consents
<1> QED BY <1>2, <1>4, InitCopyInv DEF MailInv

LEMMA NextMailInv == MailInv /\ [Next]_vars => MailInv'
<1> SUFFICES ASSUME MailInv, [Next]_vars PROVE MailInv'
    OBVIOUS
<1>1. CopyInv'
    BY NextCopyInv DEF MailInv
<1>2. Untouched'
    BY WrittenStaysWritten DEF MailInv, Untouched
<1>3. consent' \in [Contacts -> Consents]
  <2>1. ASSUME NEW c \in Contacts, OptOutCommit(c) PROVE consent' \in [Contacts -> Consents]
      BY <2>1 DEF OptOutCommit, MailInv, Consents
  <2>2. ASSUME NEW c \in Contacts, NEW s \in Consents, SetConsent(c, s)
        PROVE  consent' \in [Contacts -> Consents]
      BY <2>2 DEF SetConsent, MailInv
  <2>3. \/ consent' = consent \/ \E c \in Contacts : OptOutCommit(c)
        \/ \E c \in Contacts, s \in Consents : SetConsent(c, s)
      BY DEF Next, Deliver, vars, Launch, Cancel, BecomesDue, Expand, EditRead, EditSave, TestRead,
             RequestEnds, TestQueue, Claim, Suppress, Accept, SaveSent, Refuse, AnswerLost, RecordSent, Consume,
             RecordFailed, Release, RefreshRead, RefreshSave, WorkerDies, Reclaim, OptOutRead,
             SetAddress
  <2> QED BY <2>1, <2>2, <2>3 DEF MailInv
<1> QED BY <1>1, <1>2, <1>3 DEF MailInv

LEMMA SpecMailInv == Spec => []MailInv
  BY InitMailInv, NextMailInv, PTL DEF Spec

LEMMA InitMailing == Init => Promise!Init
  BY DEF Init, Promise!Init, Messages

\* What a contact does not see.
LEMMA MailStutter ==
  ASSUME copies' = copies, unheard' = unheard,
         \A c \in Contacts :
            /\ Eligible(c)' <=> Eligible(c)
            /\ (job'[c] \in {"sending", "accepted"}) <=> (job[c] \in {"sending", "accepted"})
            /\ message'[c].attempts = message[c].attempts
  PROVE  UNCHANGED Promise!vars
  BY DEF Promise!vars

\* What staff and tasks do to the campaign, and the bookkeeping of a delivery.
LEMMA BookkeepingMailing ==
  ASSUME MailInv,
         \/ Launch \/ Cancel \/ BecomesDue \/ Expand \/ EditRead \/ EditSave \/ TestRead
         \/ RequestEnds \/ SetAddress \/ UNCHANGED vars
         \/ \E t \in Tests : TestQueue(t)
         \/ \E c \in Contacts : Suppress(c) \/ OptOutRead(c)
         \/ \E m \in Messages : Reclaim(m)
  PROVE  UNCHANGED Promise!vars
<1> USE DEF MailInv, CopyInv, Deliveries
<1>1. UNCHANGED <<consent, job, copies, unheard>>
    BY DEF Launch, Cancel, BecomesDue, Expand, EditRead, EditSave, TestRead, RequestEnds, SetAddress,
           vars, history, TestQueue, Suppress, OptOutRead, Reclaim
<1>2. ASSUME NEW c \in Contacts PROVE message'[c].attempts = message[c].attempts
  <2>1. c \in Messages
      BY DEF Messages
  <2>2. CASE Cancel
    <3>1. message'[c] = IF message[c].status \in {"QUEUED", "FAILED"}
                        THEN [message[c] EXCEPT !.status = "SUPPRESSED"] ELSE message[c]
        BY <2>1, <2>2 DEF Cancel
    <3> QED BY <2>1, <3>1
  <2>3. CASE Expand
    <3>1. message'[c] = message[c] \/ (message[c].status = "NONE" /\ message'[c].attempts = 0)
        BY <2>1, <2>3 DEF Expand, Contacted
    <3> QED BY <2>1, <3>1 DEF Untouched
  <2>4. CASE \/ \E t \in Tests : TestQueue(t)
             \/ \E d \in Contacts : Suppress(d)
             \/ \E m \in Messages : Reclaim(m)
    <3>1. \E m \in Messages, s \in MessageStatus : message' = [message EXCEPT ![m].status = s]
        BY <2>4 DEF TestQueue, Suppress, Reclaim, Messages, MessageStatus
    <3> QED BY <2>1, <3>1
  <2>5. CASE message' = message
      BY <2>5
  <2> QED BY <2>2, <2>3, <2>4, <2>5
          DEF Launch, BecomesDue, EditRead, EditSave, TestRead, RequestEnds, SetAddress, vars, OptOutRead
<1> QED BY <1>1, <1>2, MailStutter DEF Eligible

\* A delivery begins, ends or goes on with what it has to record.
LEMMA DeliveryMailing ==
  ASSUME MailInv, NEW m \in Messages,
         \/ Claim(m) \/ Accept(m) \/ SaveSent(m) \/ Refuse(m) \/ AnswerLost(m) \/ WorkerDies(m)
         \/ RecordSent(m) \/ Consume(m) \/ RecordFailed(m) \/ Release(m)
         \/ RefreshRead(m) \/ RefreshSave(m)
  PROVE  Promise!Next \/ UNCHANGED Promise!vars
<1> USE DEF MailInv, CopyInv, Deliveries
<1>1. consent' = consent /\ \A c \in Contacts : Eligible(c)' <=> Eligible(c)
    BY DEF Claim, Accept, SaveSent, Refuse, AnswerLost, WorkerDies, RecordSent, Consume, RecordFailed,
           Release, RefreshRead, RefreshSave, Eligible
<1>2. Contacts \subseteq Messages
    BY DEF Messages
<1>3. CASE Claim(m)
  <2>1. /\ job[m] = "idle" /\ message[m].status \in {"QUEUED", "FAILED"}
        /\ message[m].attempts < MaxAttempts /\ Reachable(m) /\ UNCHANGED <<copies, unheard>>
        /\ message' = [message EXCEPT ![m] = [status |-> "PROCESSING", attempts |-> message[m].attempts + 1]]
        /\ job' = [job EXCEPT ![m] = "sending"]
      BY <1>3 DEF Claim, Claimable, history
  <2>2. CASE m \in Contacts
    <3>1. Eligible(m) /\ copies[m] = unheard[m]
        BY <2>1, <2>2 DEF Reachable, Left, Placed, Settled
    <3>2. [c \in Contacts |-> message'[c].attempts]
          = [[c \in Contacts |-> message[c].attempts] EXCEPT ![m] = @ + 1]
        BY <1>2, <2>1, <2>2
    <3>3. {c \in Contacts : job'[c] \in {"sending", "accepted"}}
          = {c \in Contacts : job[c] \in {"sending", "accepted"}} \union {m}
        BY <1>2, <2>1, <2>2
    <3>4. Promise!Try(m)
        BY <1>1, <2>1, <2>2, <3>1, <3>2, <3>3 DEF Promise!Try
    <3> QED BY <2>2, <3>4 DEF Promise!Next
  <2>3. CASE m \notin Contacts
      BY <1>1, <1>2, <2>1, <2>3, MailStutter
  <2> QED BY <2>2, <2>3
<1>4. CASE Accept(m)
  <2>1. /\ job[m] = "sending" /\ UNCHANGED <<message, unheard>>
        /\ job' = [job EXCEPT ![m] = "accepted"] /\ copies' = Counted(copies, m)
      BY <1>4 DEF Accept
  <2>2. {c \in Contacts : job'[c] \in {"sending", "accepted"}}
        = {c \in Contacts : job[c] \in {"sending", "accepted"}}
      BY <1>2, <2>1
  <2>3. CASE m \in Contacts
    <3>1. copies[m] = unheard[m]
        BY <2>1, <2>3 DEF Left, Placed, Settled
    <3>2. copies' = [copies EXCEPT ![m] = @ + 1]
        BY <2>1, <2>3 DEF Counted
    <3>3. Promise!Leave(m)
        BY <1>1, <2>1, <2>2, <2>3, <3>1, <3>2 DEF Promise!Leave
    <3> QED BY <2>3, <3>3 DEF Promise!Next
  <2>4. CASE m \notin Contacts
    <3>1. copies' = copies
        BY <2>1, <2>4 DEF Counted
    <3> QED BY <1>1, <2>1, <2>2, <3>1 DEF Promise!vars
  <2> QED BY <2>3, <2>4
<1>5. ASSUME \/ SaveSent(m) \/ Refuse(m) \/ AnswerLost(m)
             \/ job[m] \in {"sending", "accepted"} /\ WorkerDies(m)
      PROVE  Promise!Next \/ UNCHANGED Promise!vars
  <2>1. /\ copies' = copies /\ job[m] \in {"sending", "accepted"}
        /\ \E s \in {"sent", "refused", "idle"} : job' = [job EXCEPT ![m] = s]
        /\ \/ message' = message
           \/ \E s \in {"SENT", "FAILED"} : message' = [message EXCEPT ![m].status = s]
        /\ unheard' \in {unheard, Counted(unheard, m)}
      BY <1>5 DEF SaveSent, Refuse, AnswerLost, WorkerDies, history
  <2>2. \A c \in Contacts : message'[c].attempts = message[c].attempts
      BY <1>2, <2>1
  <2>3. CASE m \in Contacts
    <3>1. {c \in Contacts : job'[c] \in {"sending", "accepted"}}
          = {c \in Contacts : job[c] \in {"sending", "accepted"}} \ {m}
        BY <1>2, <2>1, <2>3
    <3>2. CASE SaveSent(m)
      <4>1. copies[m] > unheard[m] /\ unheard' = unheard
          BY <2>3, <3>2 DEF SaveSent, history, Left, Placed
      <4>2. Promise!Confirm(m)
          BY <1>1, <2>1, <2>2, <2>3, <3>1, <4>1 DEF Promise!Confirm
      <4> QED BY <2>3, <4>2 DEF Promise!Next
    <3>3. CASE ~SaveSent(m)
      <4>1. unheard' = IF job[m] = "accepted" THEN Counted(unheard, m) ELSE unheard
          BY <1>5, <3>3 DEF Refuse, AnswerLost, WorkerDies, history
      <4>2. copies[m] = IF job[m] = "accepted" THEN unheard[m] + 1 ELSE unheard[m]
          BY <2>1, <2>3 DEF Left, Placed, Settled
      <4>3. unheard' = [unheard EXCEPT ![m] = copies[m]]
          BY <2>3, <4>1, <4>2 DEF Counted
      <4>4. Promise!Fail(m)
          BY <1>1, <2>1, <2>2, <2>3, <3>1, <4>3 DEF Promise!Fail
      <4> QED BY <2>3, <4>4 DEF Promise!Next
    <3> QED BY <3>2, <3>3
  <2>4. CASE m \notin Contacts
    <3>1. Counted(unheard, m) = unheard
        BY <2>4 DEF Counted
    <3>2. unheard' = unheard
        BY <2>1, <3>1
    <3> QED BY <1>1, <1>2, <2>1, <2>2, <2>4, <3>2, MailStutter
  <2> QED BY <2>3, <2>4
<1>6. ASSUME \/ job[m] \notin {"sending", "accepted"} /\ WorkerDies(m)
             \/ RecordSent(m) \/ Consume(m) \/ RecordFailed(m) \/ Release(m)
             \/ RefreshRead(m) \/ RefreshSave(m)
      PROVE  UNCHANGED Promise!vars
  <2>1. /\ UNCHANGED <<message, copies, unheard>> /\ job[m] \notin {"sending", "accepted"}
        /\ \E s \in Steps \ {"sending", "accepted"} : job' = [job EXCEPT ![m] = s]
      BY <1>6 DEF WorkerDies, RecordSent, Consume, RecordFailed, Release, RefreshRead, RefreshSave,
                  history, Steps
  <2>2. \A c \in Contacts :
            (job'[c] \in {"sending", "accepted"}) <=> (job[c] \in {"sending", "accepted"})
      BY <1>2, <2>1
  <2> QED BY <1>1, <2>1, <2>2, MailStutter
<1> QED BY <1>3, <1>4, <1>5, <1>6

\* A contact agrees or withdraws: in person, by a form or by a callback.
LEMMA ConsentMailing ==
  ASSUME MailInv, NEW c \in Contacts,
         OptOutCommit(c) \/ \E s \in Consents : SetConsent(c, s)
  PROVE  Promise!Next
<1> USE DEF MailInv, CopyInv, Deliveries
<1>1. UNCHANGED <<job, copies, unheard>> /\ \E s \in Consents : consent' = [consent EXCEPT ![c] = s]
    BY DEF OptOutCommit, SetConsent, history, Consents
<1>2. \A d \in Contacts : message'[d].attempts = message[d].attempts
  <2>1. message' = message \/ message' = [message EXCEPT ![c].status = "UNSUBSCRIBED"]
      BY DEF OptOutCommit, SetConsent
  <2> QED BY <2>1 DEF Messages
<1>3. CASE consent'[c] = "GRANTED"
  <2>1. {d \in Contacts : Eligible(d)}' = {d \in Contacts : Eligible(d)} \union {c}
      BY <1>1, <1>3 DEF Eligible
  <2>2. Promise!Agree(c)
      BY <1>1, <1>2, <2>1 DEF Promise!Agree
  <2> QED BY <2>2 DEF Promise!Next
<1>4. CASE consent'[c] # "GRANTED"
  <2>1. {d \in Contacts : Eligible(d)}' = {d \in Contacts : Eligible(d)} \ {c}
      BY <1>1, <1>4 DEF Eligible
  <2>2. Promise!Withdraw(c)
      BY <1>1, <1>2, <2>1 DEF Promise!Withdraw
  <2> QED BY <2>2 DEF Promise!Next
<1> QED BY <1>3, <1>4

LEMMA NextMailing == MailInv /\ [Next]_vars => [Promise!Next]_(Promise!vars)
<1> SUFFICES ASSUME MailInv, [Next]_vars PROVE Promise!Next \/ UNCHANGED Promise!vars
    OBVIOUS
<1> QED BY BookkeepingMailing, DeliveryMailing, ConsentMailing DEF Next, Deliver

\* For any audience and however staff, tasks, workers and opt-outs overlap: a campaign is a
\* mailing that writes to nobody without consent, to nobody again after a copy that is known
\* to have left and to nobody more often than the attempts allow (deliver_message,
\* expand_campaign, unsubscribe).
THEOREM CampaignWritesToTheWilling == Spec => WritesToTheWilling
<1>1. Init => Promise!Init
    BY InitMailing
<1>2. MailInv /\ [Next]_vars => [Promise!Next]_(Promise!vars)
    BY NextMailing
<1> QED BY <1>1, <1>2, SpecMailInv, PTL DEF Spec, WritesToTheWilling, Promise!Spec

=============================================================================
