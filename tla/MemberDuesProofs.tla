-------------------------- MODULE MemberDuesProofs --------------------------
(***************************************************************************)
(* Proofs about MemberDues, for any number of subscriptions of a person    *)
(* and any budgets of steps.                                               *)
(*                                                                         *)
(* Base: the types, and what rows, events and answers have to do with      *)
(* Stripe's side.  On it rest three arguments: a member row is never       *)
(* removed from under a subscription; a subscription that is joined again  *)
(* was given up or has ended at Stripe; and, for events in order, the last *)
(* of those on their way says what Stripe says.  The last is stated with   *)
(* Ends, None and Starts, about any sequence, and laws of what delivering  *)
(* the first element and appending new ones does to them.                  *)
(***************************************************************************)
EXTENDS MemberDues, SumTheorems, SequenceTheorems

-----------------------------------------------------------------------------
(* Numbers and sequences *)

\* A sequence without its k-th element.
LEMMA WithoutSeq ==
  ASSUME NEW S, NEW q \in Seq(S), NEW k \in 1..Len(q)
  PROVE  /\ Without(q, k) \in Seq(S)
         /\ Len(Without(q, k)) = Len(q) - 1
         /\ \A j \in 1..(Len(q) - 1) : Without(q, k)[j] = IF j < k THEN q[j] ELSE q[j + 1]
<1> DEFINE a == SubSeq(q, 1, k - 1)
           b == SubSeq(q, k + 1, Len(q))
<1>1. Len(q) \in Nat /\ k \in Int /\ 1 <= k /\ k <= Len(q)
    OBVIOUS
<1>2. a \in Seq(S) /\ Len(a) = k - 1 /\ \A j \in 1..(k - 1) : a[j] = q[j]
    OBVIOUS
<1>3. b \in Seq(S) /\ Len(b) = Len(q) - k /\ \A j \in 1..(Len(q) - k) : b[j] = q[j + k]
    OBVIOUS
<1>4. Without(q, k) = a \o b
    BY DEF Without
<1> HIDE DEF a, b
<1>5. /\ a \o b \in Seq(S)
      /\ Len(a \o b) = Len(a) + Len(b)
      /\ \A j \in 1..(Len(a) + Len(b)) : (a \o b)[j] = IF j <= Len(a) THEN a[j] ELSE b[j - Len(a)]
    BY <1>2, <1>3, ConcatProperties
<1>6. ASSUME NEW j \in 1..(Len(q) - 1)
      PROVE  (a \o b)[j] = IF j < k THEN q[j] ELSE q[j + 1]
    BY <1>1, <1>2, <1>3, <1>5
<1>7. Len(a \o b) = Len(q) - 1
    BY <1>1, <1>2, <1>3, <1>5
<1> QED BY <1>4, <1>5, <1>6, <1>7

\* A finite set of numbers has a greatest one.
LEMMA Maximum ==
  ASSUME NEW T, IsFiniteSet(T), T \subseteq Nat, T # {}
  PROVE  \E m \in T : \A t \in T : t <= m
<1> DEFINE G == {U \in SUBSET T : U = {} \/ \E m \in U : \A t \in U : t <= m}
<1>1. ASSUME NEW U \in SUBSET T, \A x \in U : U \ {x} \in G
      PROVE  U \in G
  <2>1. CASE U = {}
      BY <2>1
  <2>2. ASSUME NEW x \in U PROVE \E m \in U : \A t \in U : t <= m
    <3>1. CASE U \ {x} = {}
      <4>1. \A t \in U : t = x
          BY <3>1
      <4>2. x <= x
          BY <2>2
      <4> QED BY <4>1, <4>2
    <3>2. CASE U \ {x} # {}
      <4>1. PICK m \in U \ {x} : \A t \in U \ {x} : t <= m
          BY <1>1, <3>2
      <4>2. m \in Nat /\ x \in Nat
          BY <2>2
      <4>3. CASE m <= x
          BY <4>1, <4>2, <4>3
      <4>4. CASE x <= m
          BY <4>1, <4>2, <4>4
      <4> QED BY <4>2, <4>3, <4>4
    <3> QED BY <3>1, <3>2
  <2> QED BY <2>1, <2>2
<1> HIDE DEF G
<1>2. \A U \in SUBSET T : U \in G
    BY <1>1, SubsetInduction
<1> QED BY <1>2 DEF G

\* The last event of q among hits; the first one.
LastOf(q, hits, k) == q[k] \in hits /\ \A j \in 1..Len(q) : k < j => q[j] \notin hits
FirstOf(q, hits, k) == q[k] \in hits /\ \A j \in 1..Len(q) : j < k => q[j] \notin hits

\* No event of q is among hits; the last one that is, is good; the first one is.
None(q, hits) == \A k \in 1..Len(q) : q[k] \notin hits
Ends(q, hits, good) == \A k \in 1..Len(q) : LastOf(q, hits, k) => q[k] \in good
Starts(q, hits, good) == \E k \in 1..Len(q) : FirstOf(q, hits, k) /\ q[k] \in good

\* What remains of q without its first event.
LEMMA EndsRest ==
  ASSUME NEW S, NEW q \in Seq(S), NEW p \in Seq(S), Len(p) = Len(q) - 1, Len(q) > 0,
         \A j \in 1..Len(p) : p[j] = q[j + 1],
         NEW hits, NEW good, Ends(q, hits, good)
  PROVE  Ends(p, hits, good) /\ (None(p, hits) => None(q, hits) \/ q[1] \in hits \intersect good)
<1>0. Len(q) \in Nat /\ Len(p) \in Nat
    OBVIOUS
<1>1. ASSUME NEW k \in 1..Len(p), LastOf(p, hits, k) PROVE p[k] \in good
  <2>1. k + 1 \in 1..Len(q) /\ p[k] = q[k + 1]
      BY <1>0
  <2>2. ASSUME NEW j \in 1..Len(q), k + 1 < j PROVE q[j] \notin hits
    <3>1. j - 1 \in 1..Len(p) /\ k < j - 1 /\ (j - 1) + 1 = j
        BY <1>0, <2>2
    <3> QED BY <1>1, <3>1 DEF LastOf
  <2>3. LastOf(q, hits, k + 1)
      BY <1>1, <2>1, <2>2 DEF LastOf
  <2> QED BY <2>1, <2>3 DEF Ends
<1>2. ASSUME None(p, hits) PROVE None(q, hits) \/ q[1] \in hits \intersect good
  <2>0. 1 \in 1..Len(q)
      BY <1>0
  <2>1. ASSUME NEW j \in 1..Len(q), 1 < j PROVE q[j] \notin hits
    <3>1. j - 1 \in 1..Len(p) /\ (j - 1) + 1 = j
        BY <1>0, <2>1
    <3> QED BY <1>2, <3>1 DEF None
  <2>2. CASE q[1] \in hits
    <3>1. LastOf(q, hits, 1)
        BY <2>1, <2>2 DEF LastOf
    <3> QED BY <2>0, <2>2, <3>1 DEF Ends
  <2>3. CASE q[1] \notin hits
    <3>1. \A k \in 1..Len(q) : q[k] \notin hits
      <4> TAKE k \in 1..Len(q)
      <4>1. CASE k = 1
          BY <2>3, <4>1
      <4>2. CASE 1 < k
          BY <2>1, <4>2
      <4> QED BY <1>0, <4>1, <4>2
    <3> QED BY <3>1 DEF None
  <2> QED BY <2>2, <2>3
<1> QED BY <1>1, <1>2 DEF Ends

\* Either the first event of q is the first hit, or that is still to come.
LEMMA StartsRest ==
  ASSUME NEW S, NEW q \in Seq(S), NEW p \in Seq(S), Len(p) = Len(q) - 1, Len(q) > 0,
         \A j \in 1..Len(p) : p[j] = q[j + 1],
         NEW hits, NEW good,
         Starts(q, hits, good)
  PROVE  q[1] \in hits \intersect good \/ (q[1] \notin hits /\ Starts(p, hits, good))
<1>0. Len(q) \in Nat /\ Len(p) \in Nat
    OBVIOUS
<1>1. PICK k \in 1..Len(q) : FirstOf(q, hits, k) /\ q[k] \in good
    BY DEF Starts
<1>2. CASE k = 1
    BY <1>1, <1>2 DEF FirstOf
<1>3. CASE 1 < k
  <2>1. k - 1 \in 1..Len(p) /\ p[k - 1] = q[k]
    <3>1. k - 1 \in 1..Len(p) /\ (k - 1) + 1 = k
        BY <1>0, <1>3
    <3> QED BY <3>1
  <2>2. ASSUME NEW j \in 1..Len(p), j < k - 1 PROVE p[j] \notin hits
    <3>1. j + 1 \in 1..Len(q) /\ j + 1 < k /\ p[j] = q[j + 1]
        BY <1>0, <2>2
    <3> QED BY <1>1, <3>1 DEF FirstOf
  <2>3. FirstOf(p, hits, k - 1)
      BY <1>1, <2>1, <2>2 DEF FirstOf
  <2>4. q[1] \notin hits
    <3>1. 1 \in 1..Len(q)
        BY <1>0
    <3> QED BY <1>1, <1>3, <3>1 DEF FirstOf
  <2> QED BY <1>1, <2>1, <2>3, <2>4 DEF Starts
<1> QED BY <1>0, <1>2, <1>3

\* New events r after q.
LEMMA EndsMore ==
  ASSUME NEW S, NEW q \in Seq(S), NEW r \in Seq(S),
         NEW hits, NEW good,
         \/ \E n \in 1..Len(r) : LastOf(r, hits, n) /\ r[n] \in good
         \/ None(r, hits) /\ Ends(q, hits, good)
  PROVE  Ends(q \o r, hits, good) /\ (None(q \o r, hits) => None(q, hits) /\ None(r, hits))
<1> DEFINE p == q \o r
<1>0. /\ Len(q) \in Nat /\ Len(r) \in Nat /\ Len(p) = Len(q) + Len(r)
      /\ \A i \in 1..(Len(q) + Len(r)) : p[i] = IF i <= Len(q) THEN q[i] ELSE r[i - Len(q)]
    BY ConcatProperties
<1> HIDE DEF p
<1>1. ASSUME \E n \in 1..Len(r) : LastOf(r, hits, n) /\ r[n] \in good PROVE Ends(p, hits, good)
  <2>1. PICK n \in 1..Len(r) : LastOf(r, hits, n) /\ r[n] \in good
      BY <1>1
  <2>2. Len(q) + n \in 1..Len(p) /\ p[Len(q) + n] = r[n]
    <3>1. Len(q) + n \in 1..(Len(q) + Len(r)) /\ ~(Len(q) + n <= Len(q)) /\ (Len(q) + n) - Len(q) = n
        BY <1>0
    <3> QED BY <1>0, <3>1
  <2>3. p[Len(q) + n] \in hits
      BY <2>1, <2>2 DEF LastOf
  <2>4. ASSUME NEW k \in 1..Len(p), LastOf(p, hits, k) PROVE p[k] \in good
    <3>1. ~(k < Len(q) + n)
        BY <2>2, <2>3, <2>4 DEF LastOf
    <3>2. CASE k = Len(q) + n
        BY <2>1, <2>2, <3>2
    <3>3. CASE Len(q) + n < k
      <4>1. k - Len(q) \in 1..Len(r) /\ n < k - Len(q) /\ ~(k <= Len(q)) /\ k \in 1..(Len(q) + Len(r))
          BY <1>0, <3>3
      <4>2. p[k] = r[k - Len(q)]
          BY <1>0, <4>1
      <4>3. r[k - Len(q)] \notin hits
          BY <2>1, <4>1 DEF LastOf
      <4> QED BY <2>4, <4>2, <4>3 DEF LastOf
    <3> QED BY <1>0, <3>1, <3>2, <3>3
  <2> QED BY <2>4 DEF Ends
<1>2. ASSUME None(r, hits), Ends(q, hits, good) PROVE Ends(p, hits, good)
  <2>1. ASSUME NEW k \in 1..Len(p), p[k] \in hits
        PROVE  k \in 1..Len(q) /\ p[k] = q[k]
    <3>1. CASE k <= Len(q)
        BY <1>0, <3>1
    <3>2. CASE Len(q) < k
      <4>1. k - Len(q) \in 1..Len(r) /\ ~(k <= Len(q)) /\ k \in 1..(Len(q) + Len(r))
          BY <1>0, <3>2
      <4>2. p[k] = r[k - Len(q)]
          BY <1>0, <4>1
      <4> QED BY <1>2, <2>1, <4>1, <4>2 DEF None
    <3> QED BY <1>0, <3>1, <3>2
  <2>2. \A j \in 1..Len(q) : j \in 1..Len(p) /\ p[j] = q[j]
      BY <1>0
  <2>3. ASSUME NEW k \in 1..Len(p), LastOf(p, hits, k) PROVE p[k] \in good
    <3>1. k \in 1..Len(q) /\ p[k] = q[k]
        BY <2>1, <2>3 DEF LastOf
    <3>2. LastOf(q, hits, k)
        BY <2>2, <2>3, <3>1 DEF LastOf
    <3> QED BY <1>2, <3>1, <3>2 DEF Ends
  <2> QED BY <2>3 DEF Ends
<1>3. ASSUME None(p, hits) PROVE None(q, hits) /\ None(r, hits)
  <2>1. \A j \in 1..Len(q) : j \in 1..Len(p) /\ p[j] = q[j]
      BY <1>0
  <2>2. \A n \in 1..Len(r) : Len(q) + n \in 1..Len(p) /\ p[Len(q) + n] = r[n]
    <3> TAKE n \in 1..Len(r)
    <3>1. Len(q) + n \in 1..(Len(q) + Len(r)) /\ ~(Len(q) + n <= Len(q)) /\ (Len(q) + n) - Len(q) = n
        BY <1>0
    <3> QED BY <1>0, <3>1
  <2> QED BY <1>3, <2>1, <2>2 DEF None
<1>4. Ends(p, hits, good)
    BY <1>1, <1>2
<1> QED BY <1>3, <1>4 DEF p

\* New events do not come before the first hit.
LEMMA StartsMore ==
  ASSUME NEW S, NEW q \in Seq(S), NEW r \in Seq(S), NEW hits, NEW good,
         \/ Starts(q, hits, good)
         \/ None(q, hits) /\ Starts(r, hits, good)
  PROVE  Starts(q \o r, hits, good)
<1> DEFINE p == q \o r
<1>0. /\ Len(q) \in Nat /\ Len(r) \in Nat /\ Len(p) = Len(q) + Len(r)
      /\ \A i \in 1..(Len(q) + Len(r)) : p[i] = IF i <= Len(q) THEN q[i] ELSE r[i - Len(q)]
    BY ConcatProperties
<1> HIDE DEF p
<1>3. \A j \in 1..Len(q) : j \in 1..Len(p) /\ p[j] = q[j]
    BY <1>0
<1>1. CASE Starts(q, hits, good)
  <2>1. PICK k \in 1..Len(q) : FirstOf(q, hits, k) /\ q[k] \in good
      BY <1>1 DEF Starts
  <2>2. ASSUME NEW j \in 1..Len(p), j < k PROVE p[j] \notin hits
    <3>1. j \in 1..Len(q)
        BY <1>0, <2>2
    <3> QED BY <1>3, <2>1, <2>2, <3>1 DEF FirstOf
  <2>3. FirstOf(p, hits, k) /\ p[k] \in good /\ k \in 1..Len(p)
      BY <1>3, <2>1, <2>2 DEF FirstOf
  <2> QED BY <2>3 DEF Starts, p
<1>2. CASE None(q, hits) /\ Starts(r, hits, good)
  <2>1. PICK n \in 1..Len(r) : FirstOf(r, hits, n) /\ r[n] \in good
      BY <1>2 DEF Starts
  <2>2. Len(q) + n \in 1..Len(p) /\ p[Len(q) + n] = r[n]
    <3>1. Len(q) + n \in 1..(Len(q) + Len(r)) /\ ~(Len(q) + n <= Len(q)) /\ (Len(q) + n) - Len(q) = n
        BY <1>0
    <3> QED BY <1>0, <3>1
  <2>3. ASSUME NEW j \in 1..Len(p), j < Len(q) + n PROVE p[j] \notin hits
    <3>1. CASE j <= Len(q)
        BY <1>0, <1>2, <1>3, <3>1 DEF None
    <3>2. CASE Len(q) < j
      <4>1. j - Len(q) \in 1..Len(r) /\ j - Len(q) < n /\ ~(j <= Len(q)) /\ j \in 1..(Len(q) + Len(r))
          BY <1>0, <2>3, <3>2
      <4>2. p[j] = r[j - Len(q)]
          BY <1>0, <4>1
      <4> QED BY <2>1, <4>1, <4>2 DEF FirstOf
    <3> QED BY <1>0, <3>1, <3>2
  <2>4. FirstOf(p, hits, Len(q) + n) /\ p[Len(q) + n] \in good
      BY <2>1, <2>2, <2>3 DEF FirstOf
  <2> QED BY <2>2, <2>4 DEF Starts, p
<1> QED BY <1>1, <1>2

-----------------------------------------------------------------------------
(* The state *)

USE DuesAssumption

Sub == [status : SubStatus, linked : BOOLEAN, plan : [amount : 0..2, price : 0..2]]
Remote == [session : {"NONE", "open", "complete", "expired"}, status : Words,
           invoices : [Invoices -> {"NONE", "PAID", "FAILED"}]]
Event == [kind : {"session", "subscription", "invoice"}, sub : Subs,
          status : Words \union {"PAID", "FAILED"}, invoice : 0..2]
Lookup == [sub : 0..Joins, status : Words]

\* What the proofs about subscriptions need of the types.
Rows ==
    /\ sub \in [Subs -> Sub]
    /\ payment \in [Subs -> [Invoices -> {"NONE", "PAID", "FAILED"}]]
    /\ receipt \in [Subs -> BOOLEAN]
    /\ remote \in [Subs -> Remote]
    /\ events \in Seq(Event)
    /\ lookup \in Lookup
    /\ disordered \in BOOLEAN /\ superseded \subseteq Subs /\ byInvoice \subseteq Subs

\* The plan and its price; the bounds.
Plans ==
    /\ plan \in [amount : 0..2, price : 0..2] /\ price \in 0..2
    /\ planEdit \in [amount : 0..2, price : 0..2]

\* TypeOK by its parts.
LEMMA TypeOKParts == TypeOK <=> /\ ContactTypeOK /\ AccountTypeOK /\ Rows /\ Plans
                                /\ left \in [contact : Nat, account : Nat, fetched : Nat, plan : Nat,
                                             join : Nat, billing : Nat, reconcile : Nat]
  BY DEF TypeOK, Rows, Plans, Sub, Remote, Event, Lookup

\* A sign-up and an opt-out wish for something.
Wishing == visit.kind = "consent" => visit.wish # "NONE"

\* A step of the contact keeps its types.
LEMMA ContactTypes ==
  ASSUME ContactTypeOK, Wishing, [ContactStep(Subscribed)]_contactVars
  PROVE  ContactTypeOK' /\ Wishing'
<1> USE DEF ContactTypeOK, Consents, Trackings, Wishing
<1>1. CASE UNCHANGED contactVars
    BY <1>1 DEF contactVars
<1>2. ASSUME NEW granted \in BOOLEAN, NEW tracking \in Trackings, ContactCreate(granted, tracking)
      PROVE  ContactTypeOK' /\ Wishing'
    BY <1>2 DEF ContactCreate
<1>3. ASSUME NEW granted \in BOOLEAN, NEW tracking \in Trackings,
             SaveContact(granted, tracking, Subscribed)
      PROVE  ContactTypeOK' /\ Wishing'
  <2>1. Recorded(visit.consent, Wish(granted)) \in Consents
      BY DEF Recorded, Wish
  <2>2. MemberSaved(tracking, Subscribed) \in Trackings
      BY DEF MemberSaved
  <2> QED BY <1>3, <2>1, <2>2 DEF SaveContact, NoVisit
<1>4. CASE EditContact(Subscribed)
  <2>1. Subscribed \in BOOLEAN
      BY DEF Subscribed
  <2> QED BY <1>4, <2>1 DEF EditContact
<1>5. CASE VisitEnds
    BY <1>5 DEF VisitEnds, NoVisit
<1>6. CASE ArchiveContact
    BY <1>6 DEF ArchiveContact
<1>7. CASE NewsletterCreates
    BY <1>7 DEF NewsletterCreates
<1>8. ASSUME NEW wish \in {"GRANTED", "WITHDRAWN"}, ConsentRead(wish)
      PROVE  ContactTypeOK' /\ Wishing'
    BY <1>8 DEF ConsentRead
<1>9. CASE ConsentSave
    BY <1>9 DEF ConsentSave, NoVisit
<1>10. CASE Unsubscribe
    BY <1>10 DEF Unsubscribe, Recorded
<1>11. CASE Suppressed
    BY <1>11 DEF Suppressed
<1> QED BY <1>1, <1>2, <1>3, <1>4, <1>5, <1>6, <1>7, <1>8, <1>9, <1>10, <1>11 DEF ContactStep

\* A step of the account keeps its types.
LEMMA AccountTypes ==
  ASSUME AccountTypeOK, [AccountStep]_accountVars
  PROVE  AccountTypeOK'
<1> USE DEF AccountTypeOK, AccountStatus, Snapshots
<1>1. CASE UNCHANGED accountVars
    BY <1>1 DEF accountVars
<1>2. CASE StartAccount
    BY <1>2 DEF StartAccount, Synchronized
<1>3. CASE StripeRevokes
    BY <1>3 DEF StripeRevokes
<1>4. CASE FetchByTask \/ FetchByAdmin
  <2>1. FetchAccount
      BY <1>4 DEF FetchByTask, FetchByAdmin
  <2>2. failures > 0 => failures - 1 \in Nat
      OBVIOUS
  <2>3. CASE fetch' = stripe /\ UNCHANGED failures
      BY <2>1, <2>3 DEF FetchAccount
  <2>4. CASE failures > 0 /\ failures' = failures - 1 /\ fetch' = "FAILURE"
      BY <2>1, <2>2, <2>4 DEF FetchAccount
  <2> QED BY <2>1, <2>3, <2>4 DEF FetchAccount
<1>5. CASE ApplyFetch
  <2>1. ASSUME NEW permanent \in BOOLEAN PROVE Struck(permanent) \in [status : AccountStatus, strikes : 0..3]
    <3>1. CASE permanent /\ account.strikes < 2
      <4>1. account.strikes + 1 \in 0..3
          BY <3>1
      <4> QED BY <3>1, <4>1 DEF Struck
    <3>2. CASE ~(permanent /\ account.strikes < 2)
        BY <3>2 DEF Struck
    <3> QED BY <3>1, <3>2
  <2>2. CASE fetch \in Snapshots
      BY <1>5, <2>2 DEF ApplyFetch, Synchronized
  <2>3. CASE fetch \notin Snapshots
      BY <1>5, <2>1, <2>3 DEF ApplyFetch
  <2> QED BY <2>2, <2>3
<1>6. ASSUME NEW snapshot \in Snapshots, StripeChanges(snapshot) PROVE AccountTypeOK'
    BY <1>6 DEF StripeChanges
<1>7. ASSUME NEW notice \in notices, HandleNotice(notice) PROVE AccountTypeOK'
    BY <1>7 DEF HandleNotice, Synchronized
<1> QED BY <1>1, <1>2, <1>3, <1>4, <1>5, <1>6, <1>7 DEF AccountStep

-----------------------------------------------------------------------------
(* What the rows and Stripe's side have to do with each other *)

Live == {"incomplete"} \union Running \union Over

\* A subscription that Stripe has was begun at its Checkout, which was opened for a row;
\* a row that knows Stripe's id has one there.
Chained(s) ==
    /\ remote[s].session # "NONE" => sub[s].status # "NONE"
    /\ remote[s].status # "none" => remote[s].session # "NONE"
    /\ remote[s].session = "open" => remote[s].status \in {"none", "incomplete"}
    /\ sub[s].linked => remote[s].status # "none"
    /\ remote[s].status = "none" =>
          /\ sub[s].status # "ACTIVE"
          /\ payment[s] = [i \in Invoices |-> "NONE"]
          /\ remote[s].invoices = [i \in Invoices |-> "NONE"]

\* Stripe has said so of a subscription it has; the end is the end.
Told(s, status) ==
    /\ remote[s].status # "none"
    /\ status \in Live /\ (status \in Over => remote[s].status = status)

Honest(e) ==
    /\ remote[e.sub].status # "none"
    /\ e.kind = "subscription" => Told(e.sub, e.status)
    /\ e.kind = "invoice" => e.status \in {"PAID", "FAILED"} /\ e.invoice \in Invoices

Pending(e) == \E k \in 1..Len(events) : events[k] = e

Grounded ==
    /\ \A s \in Subs : Chained(s)
    /\ \A e \in Event : Pending(e) => Honest(e)
    /\ lookup # NoLookup => \E s \in Subs, status \in Live :
          lookup = [sub |-> s, status |-> status] /\ Told(s, status)

\* What an event writes into a row that is linked.
Written(e) ==
    IF e.kind = "subscription" THEN Mapped[e.status]
    ELSE IF e.status = "PAID" THEN "ACTIVE" ELSE "PAST_DUE"

\* Events of a subscription; those that write its status; those that book an invoice.
Own(s) == {e \in Event : e.sub = s}
Writes(s) == {e \in Own(s) : e.kind # "session"}
Bills(s, i) == {e \in Own(s) : e.kind = "invoice" /\ e.invoice = i}

Saying(status) == {e \in Event : Written(e) = status}
Billing(status) == {e \in Event : e.status = status}
Linking == {e \in Event : e.kind # "invoice"}

\* The effect of an event, or of an answer, on the rows.
Applied(e) ==
    /\ sub' \in [Subs -> Sub]
    /\ payment' \in [Subs -> [Invoices -> {"NONE", "PAID", "FAILED"}]]
    /\ receipt' \in [Subs -> BOOLEAN]
    /\ \A t \in Subs \ {e.sub} :
          sub'[t] = sub[t] /\ payment'[t] = payment[t] /\ receipt'[t] = receipt[t]
    /\ byInvoice' = byInvoice \union
          {t \in {e.sub} : /\ e.kind = "invoice" /\ e.status = "PAID"
                          /\ sub[t].linked /\ sub[t].status # "ACTIVE"}
    /\ sub'[e.sub].linked = (sub[e.sub].linked \/ e.kind # "invoice")
    /\ sub'[e.sub].status =
          IF e.kind = "session" \/ (e.kind = "invoice" /\ ~sub[e.sub].linked)
          THEN sub[e.sub].status ELSE Written(e)
    /\ payment'[e.sub] =
          IF e.kind = "invoice" /\ sub[e.sub].linked
          THEN [payment[e.sub] EXCEPT ![e.invoice] = e.status] ELSE payment[e.sub]
    /\ receipt'[e.sub] =
          (receipt[e.sub] \/ (e.kind = "subscription" /\ e.status = "active"
                                /\ sub[e.sub].status # "ACTIVE"))

\* A step of Stripe: the subscription is `now`, and news of it are on their way.
News(s, now, news) ==
    /\ now \in Remote /\ news \in Seq(Event)
    /\ now.session # "NONE" /\ now.status \in Live
    /\ now.session = "open" => now.status = "incomplete"
    /\ remote[s].session # "NONE"
    /\ remote[s].status \notin Over
    /\ \A n \in 1..Len(news) :
          /\ news[n].sub = s
          /\ news[n].kind = "subscription" => /\ news[n].status \in Live
                                              /\ news[n].status \in Over => now.status = news[n].status
          /\ news[n].kind = "invoice" => news[n].status \in {"PAID", "FAILED"}
                                         /\ news[n].invoice \in Invoices
    /\ now.status # "incomplete" =>
          \E n \in 1..Len(news) : LastOf(news, Writes(s), n) /\ news[n] \in Saying(Mapped[now.status])
    /\ \A i \in Invoices :
          \/ \E n \in 1..Len(news) :
                LastOf(news, Bills(s, i), n) /\ news[n] \in Billing(now.invoices[i])
          \/ /\ \A n \in 1..Len(news) : news[n] \notin Bills(s, i)
             /\ now.invoices[i] = remote[s].invoices[i]
    /\ remote[s].status = "none" => Starts(news, Own(s), Linking)

Happens(s, now, news) ==
    /\ News(s, now, news)
    /\ remote' = [remote EXCEPT ![s] = now] /\ events' = events \o news
    /\ UNCHANGED <<sub, payment, receipt, lookup, disordered, superseded, byInvoice>>

\* The steps of Stripe are of the kind Happens: what they say is so, in any of the orders
\* they may say it in.
\* A change of status alone.
LEMMA ChangeHappens ==
  ASSUME Rows, NEW s \in Subs, NEW session \in {"open", "complete", "expired"}, NEW status \in Live,
         remote[s].session # "NONE", remote[s].status \notin Over,
         session = "open" => status = "incomplete",
         remote' = [remote EXCEPT ![s].session = session, ![s].status = status],
         events' = events \o <<Snapshot(s, status)>>,
         UNCHANGED <<sub, payment, receipt, lookup, disordered, superseded, byInvoice>>
  PROVE  \E now, news : Happens(s, now, news)
<1> DEFINE now == [remote[s] EXCEPT !.session = session, !.status = status]
           news == <<Snapshot(s, status)>>
<1>1. remote[s] \in Remote /\ remote \in [Subs -> Remote]
    BY DEF Rows
<1>2. now \in Remote
    BY <1>1 DEF Remote, Words, Live
<1>3. Snapshot(s, status) \in Event
    BY DEF Snapshot, Event, Words, Live
<1>4. news \in Seq(Event) /\ Len(news) = 1 /\ news[1] = Snapshot(s, status)
    BY <1>3
<1>5. remote' = [remote EXCEPT ![s] = now] /\ events' = events \o news
    BY <1>1 DEF Remote
<1>6. now.session = session /\ now.status = status /\ now.invoices = remote[s].invoices
    BY <1>1 DEF Remote
<1> HIDE DEF now, news
<1>7. /\ Snapshot(s, status) \in Writes(s) \intersect Saying(Mapped[now.status])
      /\ Snapshot(s, status) \in Own(s) \intersect Linking
      /\ \A i \in Invoices : Snapshot(s, status) \notin Bills(s, i)
    BY <1>3, <1>6 DEF Snapshot, Own, Writes, Bills, Linking, Saying, Written, Mapped
<1>8. LastOf(news, Writes(s), 1) /\ FirstOf(news, Own(s), 1) /\ 1 \in 1..Len(news)
    BY <1>4, <1>7 DEF LastOf, FirstOf
<1>9. \A n \in 1..Len(news) :
          /\ news[n].sub = s /\ news[n].kind = "subscription"
          /\ news[n].status \in Live /\ (news[n].status \in Over => now.status = news[n].status)
    BY <1>4, <1>6 DEF Snapshot
<1>10. \A i \in Invoices : /\ \A n \in 1..Len(news) : news[n] \notin Bills(s, i)
                          /\ now.invoices[i] = remote[s].invoices[i]
    BY <1>4, <1>6, <1>7
<1>11. /\ \E n \in 1..Len(news) : LastOf(news, Writes(s), n) /\ news[n] \in Saying(Mapped[now.status])
       /\ Starts(news, Own(s), Linking)
    BY <1>4, <1>7, <1>8 DEF Starts
<1>12. News(s, now, news)
    BY <1>2, <1>4, <1>6, <1>9, <1>10, <1>11 DEF News
<1> QED BY <1>5, <1>12 DEF Happens

LEMMA BeginPaymentHappens ==
  ASSUME Rows, NEW s \in Subs, BeginPayment(s)
  PROVE  \E now, news : Happens(s, now, news)
<1>1. /\ remote[s].session = "open" /\ remote[s].status = "none" /\ "incomplete" \in Live
      /\ remote[s].status \notin Over
    BY DEF BeginPayment, Live, Over
<1>2. remote' = [remote EXCEPT ![s].session = "open", ![s].status = "incomplete"]
    BY <1>1 DEF BeginPayment, Rows, Remote
<1> QED BY <1>1, <1>2, ChangeHappens DEF BeginPayment, StripeUnchanged

LEMMA ExpiryHappens ==
  ASSUME Rows, NEW s \in Subs, SessionExpires(s), remote[s].status = "incomplete"
  PROVE  \E now, news : Happens(s, now, news)
<1>1. /\ remote[s].session = "open" /\ "incomplete_expired" \in Live /\ remote[s].status \notin Over
    BY DEF SessionExpires, Live, Over
<1> QED BY <1>1, ChangeHappens DEF SessionExpires, StripeUnchanged

LEMMA ChangesHappens ==
  ASSUME Rows, NEW s \in Subs, Chained(s), NEW status \in Running \union {"canceled"},
         SubscriptionChanges(s, status)
  PROVE  \E now, news : Happens(s, now, news)
<1>1. /\ remote[s].status \in Running /\ status \in Live /\ remote[s].status \notin Over
      /\ remote[s].session \in {"complete", "expired"}
    BY DEF SubscriptionChanges, Running, Live, Over, Chained, Rows, Remote
<1>2. remote' = [remote EXCEPT ![s].session = remote[s].session, ![s].status = status]
    BY DEF SubscriptionChanges, Rows, Remote
<1> QED BY <1>1, <1>2, ChangeHappens DEF SubscriptionChanges, StripeUnchanged

LEMMA FirstPaymentFailsHappens ==
  ASSUME Rows, NEW s \in Subs, FirstPaymentFails(s)
  PROVE  \E now, news : Happens(s, now, news)
<1> DEFINE now == [remote[s] EXCEPT !.invoices = [@ EXCEPT ![1] = "FAILED"]]
           news == <<Invoice(s, 1, "FAILED")>>
<1>1. remote[s] \in Remote /\ remote[s].status = "incomplete" /\ remote[s].session = "open"
    BY DEF Rows, FirstPaymentFails
<1>2. now \in Remote
    BY <1>1 DEF Remote, Invoices
<1>3. Invoice(s, 1, "FAILED") \in Event
    BY DEF Invoice, Event, Words
<1>4. news \in Seq(Event) /\ Len(news) = 1 /\ news[1] = Invoice(s, 1, "FAILED")
    BY <1>3
<1>5. remote' = [remote EXCEPT ![s] = now] /\ events' = events \o news
      /\ UNCHANGED <<sub, payment, receipt, lookup, disordered, superseded, byInvoice>>
    BY <1>1 DEF FirstPaymentFails, Rows, StripeUnchanged, Remote
<1>6. now.session = "open" /\ now.status = "incomplete" /\ now.invoices[1] = "FAILED"
      /\ now.invoices[2] = remote[s].invoices[2]
    BY <1>1 DEF Remote, Invoices
<1> HIDE DEF now, news
<1>7. Invoice(s, 1, "FAILED") \in Bills(s, 1) \intersect Billing(now.invoices[1])
      /\ Invoice(s, 1, "FAILED") \notin Bills(s, 2)
    BY <1>3, <1>6 DEF Invoice, Own, Bills, Billing
<1>8. LastOf(news, Bills(s, 1), 1) /\ 1 \in 1..Len(news) /\ news[1] \in Billing(now.invoices[1])
    BY <1>4, <1>7 DEF LastOf
<1>9. \A n \in 1..Len(news) :
          /\ news[n].sub = s
          /\ news[n].kind = "subscription" => /\ news[n].status \in Live
                                              /\ news[n].status \in Over => now.status = news[n].status
          /\ news[n].kind = "invoice" => news[n].status \in {"PAID", "FAILED"}
                                         /\ news[n].invoice \in Invoices
    BY <1>4 DEF Invoice, Invoices
<1>10. \A i \in Invoices :
          \/ \E n \in 1..Len(news) :
                LastOf(news, Bills(s, i), n) /\ news[n] \in Billing(now.invoices[i])
          \/ /\ \A n \in 1..Len(news) : news[n] \notin Bills(s, i)
             /\ now.invoices[i] = remote[s].invoices[i]
  <2>1. \A n \in 1..Len(news) : news[n] \notin Bills(s, 2)
      BY <1>4, <1>7
  <2> QED BY <1>6, <1>8, <2>1 DEF Invoices
<1>12. News(s, now, news)
    BY <1>1, <1>2, <1>4, <1>6, <1>9, <1>10 DEF News, Live, Over
<1> QED BY <1>5, <1>12 DEF Happens

LEMMA PayCheckoutHappens ==
  ASSUME Rows, NEW s \in Subs, PayCheckout(s)
  PROVE  \E now, news : Happens(s, now, news)
<1> DEFINE now == [session |-> "complete", status |-> "active",
                   invoices |-> [remote[s].invoices EXCEPT ![1] = "PAID"]]
           a == Session(s)  b == Snapshot(s, "active")  c == Invoice(s, 1, "PAID")
<1>1. remote[s] \in Remote /\ remote[s].session = "open" /\ remote[s].status \in {"none", "incomplete"}
    BY DEF Rows, PayCheckout
<1>2. now \in Remote
    BY <1>1 DEF Remote, Words, Running, Invoices
<1>3. a \in Event /\ b \in Event /\ c \in Event
    BY DEF Session, Snapshot, Invoice, Event, Words, Running
<1>4. PICK news \in FirstNews(s) : events' = events \o news
    BY DEF PayCheckout
<1>5. remote' = [remote EXCEPT ![s] = now]
      /\ UNCHANGED <<sub, payment, receipt, lookup, disordered, superseded, byInvoice>>
    BY DEF PayCheckout, Rows, StripeUnchanged
<1>6. now.session = "complete" /\ now.status = "active" /\ now.invoices[1] = "PAID"
      /\ now.invoices[2] = remote[s].invoices[2]
    BY <1>1 DEF Remote, Invoices
<1> HIDE DEF now
<1>7. /\ a \in Own(s) \intersect Linking /\ b \in Own(s) \intersect Linking /\ a \notin Writes(s)
      /\ b \in Writes(s) \intersect Saying(Mapped[now.status])
      /\ c \in Writes(s) \intersect Saying(Mapped[now.status])
      /\ c \in Bills(s, 1) \intersect Billing(now.invoices[1])
      /\ a \notin Bills(s, 1) /\ b \notin Bills(s, 1)
      /\ \A e \in {a, b, c} : e \notin Bills(s, 2)
    BY <1>3, <1>6 DEF Session, Snapshot, Invoice, Own, Writes, Bills, Linking, Saying, Billing, Written, Mapped
<1>8. \A e \in {a, b, c} :
          /\ e.sub = s
          /\ e.kind = "subscription" => e.status = "active"
          /\ e.kind = "invoice" => e.status = "PAID" /\ e.invoice = 1
    BY DEF Session, Snapshot, Invoice
<1>9. news \in {<<a, b, c>>, <<b, a, c>>, <<b, c, a>>}
      \/ (remote[s].status # "none" /\ news \in {<<a, c, b>>, <<c, a, b>>, <<c, b, a>>})
    BY <1>4 DEF FirstNews
<1> HIDE DEF a, b, c
<1>10. /\ Len(news) = 3 /\ news[1] \in {a, b, c} /\ news[2] \in {a, b, c} /\ news[3] \in {a, b, c}
       /\ \E n \in 1..3 : news[n] = c /\ \A m \in 1..3 : n # m => news[m] \in {a, b}
       /\ news[3] \in {b, c} \/ (news[3] = a /\ news[2] \in {b, c})
       /\ remote[s].status = "none" => news[1] \in {a, b}
    BY <1>9
<1>11. news \in Seq(Event)
  <2>1. \A d \in Event, e \in Event, f \in Event : <<d, e, f>> \in Seq(Event)
      OBVIOUS
  <2> QED BY <1>3, <1>9, <2>1
<1>12. Starts(news, Own(s), Linking) \/ remote[s].status # "none"
    BY <1>7, <1>10 DEF Starts, FirstOf
<1>13. \A n \in 1..Len(news) :
          /\ news[n].sub = s
          /\ news[n].kind = "subscription" => /\ news[n].status \in Live
                                              /\ news[n].status \in Over => now.status = news[n].status
          /\ news[n].kind = "invoice" => news[n].status \in {"PAID", "FAILED"}
                                         /\ news[n].invoice \in Invoices
    BY <1>8, <1>10 DEF Live, Running, Over, Invoices
<1>14. \A i \in Invoices :
          \/ \E n \in 1..Len(news) :
                LastOf(news, Bills(s, i), n) /\ news[n] \in Billing(now.invoices[i])
          \/ /\ \A n \in 1..Len(news) : news[n] \notin Bills(s, i)
             /\ now.invoices[i] = remote[s].invoices[i]
  <2>1. \A n \in 1..Len(news) : news[n] \notin Bills(s, 2)
      BY <1>7, <1>10
  <2>2. \E n \in 1..Len(news) : LastOf(news, Bills(s, 1), n) /\ news[n] \in Billing(now.invoices[1])
      BY <1>7, <1>10 DEF LastOf
  <2> QED BY <1>6, <2>1, <2>2 DEF Invoices
<1>15. \E n \in 1..Len(news) : LastOf(news, Writes(s), n) /\ news[n] \in Saying(Mapped[now.status])
  <2>1. CASE news[3] \in {b, c}
      BY <1>7, <1>10, <2>1 DEF LastOf
  <2>2. CASE news[3] = a /\ news[2] \in {b, c}
    <3>1. LastOf(news, Writes(s), 2) /\ 2 \in 1..Len(news) /\ news[2] \in Saying(Mapped[now.status])
        BY <1>7, <1>10, <2>2 DEF LastOf
    <3> QED BY <3>1
  <2> QED BY <1>10, <2>1, <2>2
<1>16. News(s, now, news)
    BY <1>1, <1>2, <1>6, <1>11, <1>12, <1>13, <1>14, <1>15 DEF News, Live, Running, Over
<1> QED BY <1>4, <1>5, <1>16 DEF Happens

\* A renewal, paid or failed, and the status it leads to, in either order.
LEMMA RenewalHappens ==
  ASSUME Rows, NEW s \in Subs, remote[s].session \notin {"NONE", "open"}, remote[s].status \in Running,
         NEW outcome \in {<<"FAILED", "past_due">>, <<"PAID", "active">>},
         remote' = [remote EXCEPT ![s].status = outcome[2], ![s].invoices[2] = outcome[1]],
         \E news \in InEitherOrder(Invoice(s, 2, outcome[1]), Snapshot(s, outcome[2])) :
            events' = events \o news,
         UNCHANGED <<sub, payment, receipt, lookup, disordered, superseded, byInvoice>>
  PROVE  \E now, news : Happens(s, now, news)
<1> DEFINE now == [remote[s] EXCEPT !.status = outcome[2], !.invoices = [@ EXCEPT ![2] = outcome[1]]]
           b == Snapshot(s, outcome[2])  c == Invoice(s, 2, outcome[1])
<1>1. /\ remote \in [Subs -> Remote] /\ remote[s] \in Remote
      /\ outcome[2] \in Running /\ outcome[1] \in {"PAID", "FAILED"}
    BY DEF Rows, Running
<1>2. now \in Remote
    BY <1>1 DEF Remote, Words, Invoices
<1>3. b \in Event /\ c \in Event
    BY <1>1 DEF Snapshot, Invoice, Event, Words
<1>4. PICK news \in {<<c, b>>, <<b, c>>} : events' = events \o news
    BY DEF InEitherOrder
<1>5. remote' = [remote EXCEPT ![s] = now]
    BY <1>1 DEF Remote
<1>6. now.session = remote[s].session /\ now.status = outcome[2] /\ now.invoices[2] = outcome[1]
      /\ now.invoices[1] = remote[s].invoices[1]
    BY <1>1 DEF Remote, Invoices
<1> HIDE DEF now
<1>7. /\ b \in Writes(s) \intersect Saying(Mapped[now.status])
      /\ c \in Writes(s) \intersect Saying(Mapped[now.status])
      /\ c \in Bills(s, 2) \intersect Billing(now.invoices[2])
      /\ b \notin Bills(s, 2) /\ b \notin Bills(s, 1) /\ c \notin Bills(s, 1)
    BY <1>3, <1>6 DEF Snapshot, Invoice, Own, Writes, Bills, Saying, Billing, Written, Mapped
<1>8. \A e \in {b, c} :
          /\ e.sub = s
          /\ e.kind = "subscription" => e.status = outcome[2]
          /\ e.kind = "invoice" => e.status = outcome[1] /\ e.invoice = 2
    BY DEF Snapshot, Invoice
<1> HIDE DEF b, c
<1>9. /\ Len(news) = 2 /\ news[1] \in {b, c} /\ news[2] \in {b, c} /\ news \in Seq(Event)
      /\ (news[1] = c /\ news[2] = b) \/ (news[2] = c /\ news[1] = b)
  <2>1. \A d \in Event, e \in Event : <<d, e>> \in Seq(Event)
      OBVIOUS
  <2>2. CASE news = <<c, b>>
      BY <1>3, <2>1, <2>2
  <2>3. CASE news = <<b, c>>
      BY <1>3, <2>1, <2>3
  <2> QED BY <1>4, <2>2, <2>3
<1>10. \A n \in 1..Len(news) :
          /\ news[n].sub = s
          /\ news[n].kind = "subscription" => /\ news[n].status \in Live
                                              /\ news[n].status \in Over => now.status = news[n].status
          /\ news[n].kind = "invoice" => news[n].status \in {"PAID", "FAILED"}
                                         /\ news[n].invoice \in Invoices
    BY <1>1, <1>8, <1>9 DEF Live, Running, Over, Invoices
<1>11. \A i \in Invoices :
          \/ \E n \in 1..Len(news) :
                LastOf(news, Bills(s, i), n) /\ news[n] \in Billing(now.invoices[i])
          \/ /\ \A n \in 1..Len(news) : news[n] \notin Bills(s, i)
             /\ now.invoices[i] = remote[s].invoices[i]
  <2>1. \A n \in 1..Len(news) : news[n] \notin Bills(s, 1)
      BY <1>7, <1>9
  <2>2. \E n \in 1..Len(news) : LastOf(news, Bills(s, 2), n) /\ news[n] \in Billing(now.invoices[2])
      BY <1>7, <1>9 DEF LastOf
  <2> QED BY <1>6, <2>1, <2>2 DEF Invoices
<1>12. \E n \in 1..Len(news) : LastOf(news, Writes(s), n) /\ news[n] \in Saying(Mapped[now.status])
    BY <1>7, <1>9 DEF LastOf
<1>13. News(s, now, news)
    BY <1>1, <1>2, <1>6, <1>9, <1>10, <1>11, <1>12 DEF News, Live, Running, Over
<1> QED BY <1>4, <1>5, <1>13 DEF Happens

LEMMA RenewalsHappen ==
  ASSUME Rows, NEW s \in Subs, Chained(s), RenewalFails(s) \/ RenewalPaid(s)
  PROVE  \E now, news : Happens(s, now, news)
<1>1. remote[s].status \in Running /\ remote[s].session \notin {"NONE", "open"}
    BY DEF RenewalFails, RenewalPaid, Running, Chained
<1>2. CASE RenewalFails(s)
  <2> DEFINE outcome == <<"FAILED", "past_due">>
  <2>1. outcome[1] = "FAILED" /\ outcome[2] = "past_due"
        /\ outcome \in {<<"FAILED", "past_due">>, <<"PAID", "active">>}
      OBVIOUS
  <2> HIDE DEF outcome
  <2> QED BY <1>1, <1>2, <2>1, RenewalHappens DEF RenewalFails, StripeUnchanged
<1>3. CASE RenewalPaid(s)
  <2> DEFINE outcome == <<"PAID", "active">>
  <2>1. outcome[1] = "PAID" /\ outcome[2] = "active"
        /\ outcome \in {<<"FAILED", "past_due">>, <<"PAID", "active">>}
      OBVIOUS
  <2> HIDE DEF outcome
  <2> QED BY <1>1, <1>3, <2>1, RenewalHappens DEF RenewalPaid, StripeUnchanged
<1> QED BY <1>2, <1>3

\* What Follow and Book do to the rows is Applied.
LEMMA FollowApplied ==
  ASSUME Rows, NEW s \in Subs, NEW status \in Live, Follow(s, status), UNCHANGED <<payment, byInvoice>>
  PROVE  Applied(Snapshot(s, status)) /\ Snapshot(s, status) \in Event
<1> DEFINE e == Snapshot(s, status)
<1>1. e.sub = s /\ e.kind = "subscription" /\ e.status = status /\ Written(e) = Mapped[status]
    BY DEF Snapshot, Written
<1>2. e \in Event
    BY DEF Snapshot, Event, Words, Live
<1>3. Mapped[status] \in SubStatus
    BY DEF Mapped, Live, Running, Over, SubStatus
<1>4. /\ sub' \in [Subs -> Sub] /\ sub'[s].linked = TRUE /\ sub'[s].status = Mapped[status]
      /\ \A t \in Subs \ {s} : sub'[t] = sub[t]
    BY <1>3 DEF Follow, Rows, Sub
<1>5. /\ receipt' \in [Subs -> BOOLEAN]
      /\ receipt'[s] = (receipt[s] \/ (status = "active" /\ sub[s].status # "ACTIVE"))
      /\ \A t \in Subs \ {s} : receipt'[t] = receipt[t]
    BY DEF Follow, Rows
<1> HIDE DEF e
<1> QED BY <1>1, <1>2, <1>4, <1>5 DEF Applied, Rows, e

\* An invoice is booked, or dropped when the row is not linked.
LEMMA BookApplied ==
  ASSUME Rows, NEW e \in Event, e.kind = "invoice", Honest(e),
         Book(e.sub, e.invoice, e.status), UNCHANGED receipt
  PROVE  Applied(e)
<1>1. e.sub \in Subs /\ e.invoice \in Invoices /\ e.status \in {"PAID", "FAILED"}
    BY DEF Event, Honest
<1>2. Written(e) = IF e.status = "PAID" THEN "ACTIVE" ELSE "PAST_DUE"
    BY DEF Written
<1>3. CASE ~sub[e.sub].linked
    BY <1>1, <1>3 DEF Book, Applied, Rows, Sub
<1>4. CASE sub[e.sub].linked
  <2>1. /\ sub' \in [Subs -> Sub] /\ sub'[e.sub].linked = TRUE /\ sub'[e.sub].status = Written(e)
        /\ \A t \in Subs \ {e.sub} : sub'[t] = sub[t]
    <3>1. sub' = [sub EXCEPT ![e.sub].status = Written(e)]
        BY <1>2, <1>4 DEF Book
    <3>2. Written(e) \in SubStatus
        BY <1>2 DEF SubStatus
    <3>3. sub \in [Subs -> Sub] /\ sub[e.sub].linked = TRUE
        BY <1>1, <1>4 DEF Rows, Sub
    <3>4. sub' \in [Subs -> Sub]
        BY <1>1, <3>1, <3>2, <3>3 DEF Sub
    <3>5. sub'[e.sub].linked = TRUE /\ sub'[e.sub].status = Written(e)
        BY <1>1, <3>1, <3>3 DEF Sub
    <3> QED BY <1>1, <3>1, <3>3, <3>4, <3>5
  <2>2. /\ payment' \in [Subs -> [Invoices -> {"NONE", "PAID", "FAILED"}]]
        /\ payment'[e.sub] = [payment[e.sub] EXCEPT ![e.invoice] = e.status]
        /\ \A t \in Subs \ {e.sub} : payment'[t] = payment[t]
    <3>1. payment' = [payment EXCEPT ![e.sub][e.invoice] = e.status]
        BY <1>4 DEF Book
    <3>2. payment \in [Subs -> [Invoices -> {"NONE", "PAID", "FAILED"}]]
        BY DEF Rows
    <3> DEFINE row == [payment[e.sub] EXCEPT ![e.invoice] = e.status]
    <3>3. row \in [Invoices -> {"NONE", "PAID", "FAILED"}]
        BY <1>1, <3>2
    <3>4. payment' = [payment EXCEPT ![e.sub] = row]
        BY <1>1, <3>1, <3>2
    <3> HIDE DEF row
    <3>5. /\ payment' \in [Subs -> [Invoices -> {"NONE", "PAID", "FAILED"}]] /\ payment'[e.sub] = row
          /\ \A t \in Subs \ {e.sub} : payment'[t] = payment[t]
        BY <1>1, <3>2, <3>3, <3>4
    <3> QED BY <3>5 DEF row
  <2>3. /\ receipt' \in [Subs -> BOOLEAN] /\ \A t \in Subs \ {e.sub} : receipt'[t] = receipt[t]
        /\ receipt'[e.sub] = (receipt[e.sub] \/ (e.kind = "subscription" /\ e.status = "active"
                                /\ sub[e.sub].status # "ACTIVE"))
      BY <1>1 DEF Rows
  <2>4. sub'[e.sub].linked = (sub[e.sub].linked \/ e.kind # "invoice")
      BY <1>4, <2>1
  <2>5. e.kind # "session"
      OBVIOUS
  <2>6. byInvoice' = byInvoice \union
            {t \in {e.sub} : /\ e.kind = "invoice" /\ e.status = "PAID"
                            /\ sub[t].linked /\ sub[t].status # "ACTIVE"}
      BY <1>4 DEF Book
  <2> QED BY <1>4, <2>1, <2>2, <2>3, <2>4, <2>5, <2>6 DEF Applied
<1> QED BY <1>3, <1>4 DEF Rows, Sub

\* A delivered event is one that Stripe made, applied.
LEMMA DeliverApplied ==
  ASSUME Rows, Grounded, NEW k \in 1..Len(events), Deliver(k)
  PROVE  events[k] \in Event /\ Honest(events[k]) /\ Applied(events[k])
<1> DEFINE e == events[k]
<1>1. e \in Event /\ Honest(e)
  <2>1. e \in Event /\ Pending(e)
      BY DEF Rows, Pending
  <2> QED BY <2>1 DEF Grounded
<1>2. CASE e.kind = "session"
  <2>1. e.sub \in Subs
      BY <1>1 DEF Event
  <2>2. sub' = [sub EXCEPT ![e.sub].linked = TRUE] /\ UNCHANGED <<payment, receipt, byInvoice>>
      BY <1>2 DEF Deliver
  <2> QED BY <1>1, <1>2, <2>1, <2>2 DEF Applied, Rows, Sub
<1>3. CASE e.kind = "subscription"
  <2>1. Follow(e.sub, e.status) /\ UNCHANGED <<payment, byInvoice>>
      BY <1>3 DEF Deliver
  <2>2. e.sub \in Subs /\ e.status \in Live
      BY <1>1, <1>3 DEF Event, Honest, Told
  <2>3. Applied(Snapshot(e.sub, e.status))
      BY <2>1, <2>2, FollowApplied
  <2>4. LET f == Snapshot(e.sub, e.status)
        IN  f.sub = e.sub /\ f.kind = e.kind /\ f.status = e.status /\ Written(f) = Written(e)
      BY <1>3 DEF Snapshot, Written
  <2> QED BY <1>1, <1>3, <2>3, <2>4 DEF Applied
<1>4. CASE e.kind = "invoice"
  <2>1. Book(e.sub, e.invoice, e.status) /\ UNCHANGED receipt
      BY <1>4 DEF Deliver
  <2> QED BY <1>1, <1>4, <2>1, BookApplied
<1>5. e.kind \in {"session", "subscription", "invoice"}
    BY <1>1 DEF Event
<1> QED BY <1>1, <1>2, <1>3, <1>4, <1>5

-----------------------------------------------------------------------------
(* The kinds of steps *)

Quiet == UNCHANGED <<sub, payment, receipt, remote, events, lookup, disordered, superseded, byInvoice>>

Asked(s) ==
    /\ \/ remote[s].session = "open" /\ remote[s].status = "none"
       \/ remote[s].session = "NONE" /\ sub[s].status # "NONE"
    /\ \E w \in {"open", "expired"} : remote' = [remote EXCEPT ![s].session = w]
    /\ UNCHANGED <<sub, payment, receipt, events, lookup, disordered, superseded, byInvoice>>

\* Every step is of one of these kinds.
LEMMA StepKinds ==
  ASSUME Rows, Grounded, Next
  PROVE  \/ Quiet
         \/ \E s \in Subs : Asked(s)
         \/ \E s \in Subs : Join(s)
         \/ \E s \in Subs : \E now, news : Happens(s, now, news)
         \/ \E k \in 1..Len(events) : Deliver(k)
         \/ \E s \in Subs : Reconcile(s)
         \/ ApplyLookup
<1>1. CASE ContactMoves \/ AccountMoves
    BY <1>1 DEF ContactMoves, AccountMoves, duesVars, Quiet
<1>2. CASE CreatePlan \/ EditPlan \/ SavePlan
    BY <1>2 DEF CreatePlan, EditPlan, SavePlan, Quiet
<1>3. ASSUME NEW s \in Subs, AttachCheckout(s) PROVE Asked(s)
    BY <1>3 DEF AttachCheckout, Asked
<1>4. ASSUME NEW s \in Subs, SessionExpires(s)
      PROVE  Asked(s) \/ \E now, news : Happens(s, now, news)
  <2>1. CASE remote[s].status = "none"
      BY <1>4, <2>1 DEF SessionExpires, StripeUnchanged, Asked
  <2>2. CASE remote[s].status = "incomplete"
      BY <1>4, <2>2, ExpiryHappens
  <2>3. remote[s].status \in {"none", "incomplete"}
      BY <1>4 DEF SessionExpires, Grounded, Chained
  <2> QED BY <2>1, <2>2, <2>3
<1>5. ASSUME NEW s \in Subs,
             \/ BeginPayment(s) \/ FirstPaymentFails(s) \/ PayCheckout(s)
             \/ RenewalFails(s) \/ RenewalPaid(s)
             \/ \E status \in Running \union {"canceled"} : SubscriptionChanges(s, status)
      PROVE  \E now, news : Happens(s, now, news)
  <2>1. Chained(s)
      BY DEF Grounded
  <2> QED BY <1>5, <2>1, BeginPaymentHappens, FirstPaymentFailsHappens, PayCheckoutHappens,
             RenewalsHappen, ChangesHappens
<1> QED BY <1>1, <1>2, <1>3, <1>4, <1>5 DEF Next

\* Existing is the newest row that has not ended.
LEMMA ExistingNewest ==
  ASSUME Rows
  PROVE  \/ Existing = 0 /\ \A t \in Subs : sub[t].status \in Ended \union {"NONE"}
         \/ /\ Existing \in Subs /\ sub[Existing].status \notin Ended \union {"NONE"}
            /\ \A t \in Subs : sub[t].status \notin Ended \union {"NONE"} => t <= Existing
<1> DEFINE open == {s \in Subs : sub[s].status \notin Ended \union {"NONE"}}
<1>1. CASE open = {}
    BY <1>1 DEF Existing
<1>2. CASE open # {}
  <2>1. IsFiniteSet(open) /\ open \subseteq Nat
    <3>1. IsFiniteSet(1..Joins)
        BY FS_Interval
    <3> QED BY <3>1, FS_Subset DEF Subs
  <2>2. \E m \in open : \A t \in open : t <= m
      BY <1>2, <2>1, Maximum
  <2>3. Existing = CHOOSE s \in open : \A t \in open : t <= s
      BY <1>2 DEF Existing
  <2> QED BY <2>2, <2>3
<1> QED BY <1>1, <1>2

\* The row that a join gives up, and the one it makes.
LEMMA JoinEffect ==
  ASSUME Rows, Plans, NEW s \in Subs, Join(s)
  PROVE  /\ sub' \in [Subs -> Sub]
         /\ sub[s].status = "NONE" /\ s # Existing
         /\ sub'[s].status = "INCOMPLETE" /\ ~sub'[s].linked
         /\ \A t \in Subs \ {s} : /\ sub'[t].linked = sub[t].linked
                                  /\ t # Existing => sub'[t].status = sub[t].status
         /\ Existing # 0 => /\ Existing \in Subs
                            /\ sub[Existing].status = "INCOMPLETE"
                            /\ sub'[Existing].status = "CANCELED"
         /\ superseded' = superseded \union ({Existing} \ {0})
<1>1. sub[s].status = "NONE" /\ s # Existing
  <2>1. s # 0
      BY DEF Subs
  <2> QED BY <2>1, ExistingNewest DEF Join
<1>2. Existing # 0 => Existing \in Subs /\ sub[Existing].status = "INCOMPLETE"
    BY ExistingNewest DEF Join, Joinable
<1>3. ASSUME NEW t \in Subs
      PROVE  sub'[t] = IF t = s THEN [status |-> "INCOMPLETE", linked |-> FALSE, plan |-> plan]
                       ELSE IF t = Existing THEN [sub[t] EXCEPT !.status = "CANCELED"] ELSE sub[t]
    BY DEF Join
<1>4. ASSUME NEW t \in Subs PROVE sub[t] \in Sub
    BY DEF Rows
<1>5. [status |-> "INCOMPLETE", linked |-> FALSE, plan |-> plan] \in Sub
    BY DEF Plans, Sub, SubStatus
<1>6. ASSUME NEW t \in Subs PROVE [sub[t] EXCEPT !.status = "CANCELED"] \in Sub
    BY <1>4 DEF Sub, SubStatus
<1>7. sub' \in [Subs -> Sub]
  <2>1. \A t \in Subs : sub'[t] \in Sub
      BY <1>3, <1>4, <1>5, <1>6
  <2>2. sub' = [t \in Subs |-> sub'[t]]
      BY DEF Join
  <2> QED BY <2>1, <2>2
<1>8. \A t \in Subs \ {s} : /\ sub'[t].linked = sub[t].linked
                            /\ t # Existing => sub'[t].status = sub[t].status
    BY <1>3, <1>4 DEF Sub
<1>9. Existing # 0 => sub'[Existing].status = "CANCELED"
    BY <1>1, <1>2, <1>3, <1>4 DEF Sub
<1>10. superseded' = superseded \union ({Existing} \ {0})
  <2>1. superseded' = superseded \union {t \in Subs : t = Existing /\ sub[t].status = "INCOMPLETE"}
      BY DEF Join
  <2>2. {t \in Subs : t = Existing /\ sub[t].status = "INCOMPLETE"} = {Existing} \ {0}
    <3>1. 0 \notin Subs
        BY DEF Subs
    <3> QED BY <1>2, <3>1
  <2> QED BY <2>1, <2>2
<1>11. sub'[s].status = "INCOMPLETE" /\ ~sub'[s].linked
  <2>1. sub'[s] = [status |-> "INCOMPLETE", linked |-> FALSE, plan |-> plan]
      BY <1>3
  <2> QED BY <2>1
<1> QED BY <1>1, <1>2, <1>7, <1>8, <1>9, <1>10, <1>11

\* An answer of Stripe is applied like an event.
LEMMA ApplyLookupApplied ==
  ASSUME Rows, Grounded, ApplyLookup
  PROVE  LET e == Snapshot(lookup.sub, lookup.status)
         IN  e \in Event /\ Honest(e) /\ Applied(e)
<1>1. lookup.sub \in Subs /\ Told(lookup.sub, lookup.status)
  <2>1. PICK s \in Subs, status \in Live :
               lookup = [sub |-> s, status |-> status] /\ Told(s, status)
      BY DEF ApplyLookup, Grounded
  <2> QED BY <2>1
<1>2. Follow(lookup.sub, lookup.status) /\ UNCHANGED <<payment, byInvoice>>
    BY DEF ApplyLookup
<1>3. LET e == Snapshot(lookup.sub, lookup.status)
      IN  e \in Event /\ Applied(e)
    BY <1>1, <1>2, FollowApplied DEF Told
<1>4. Honest(Snapshot(lookup.sub, lookup.status))
    BY <1>1 DEF Honest, Snapshot, Told
<1> QED BY <1>3, <1>4

-----------------------------------------------------------------------------
(* Types *)

\* Every kind of step keeps the types of the rows.
LEMMA RowsKept ==
  ASSUME Rows, Plans, Grounded, Next
  PROVE  Rows'
<1>1. CASE Quiet
    BY <1>1 DEF Quiet, Rows
<1>2. ASSUME NEW s \in Subs, Asked(s) PROVE Rows'
  <2>1. PICK w \in {"open", "expired"} : remote' = [remote EXCEPT ![s].session = w]
      BY <1>2 DEF Asked
  <2>2. remote' \in [Subs -> Remote]
      BY <2>1 DEF Rows, Remote
  <2> QED BY <1>2, <2>2 DEF Asked, Rows
<1>3. ASSUME NEW s \in Subs, Join(s) PROVE Rows'
  <2>1. sub' \in [Subs -> Sub] /\ superseded' \subseteq Subs
      BY <1>3, JoinEffect DEF Rows
  <2> QED BY <1>3, <2>1 DEF Join, Rows
<1>4. ASSUME NEW s \in Subs, NEW now, NEW news, Happens(s, now, news) PROVE Rows'
  <2>1. remote' \in [Subs -> Remote]
      BY <1>4 DEF Happens, News, Rows
  <2>2. events' \in Seq(Event)
      BY <1>4, ConcatProperties DEF Happens, News, Rows
  <2> QED BY <1>4, <2>1, <2>2 DEF Happens, Rows
<1>5. ASSUME NEW k \in 1..Len(events), Deliver(k) PROVE Rows'
  <2>1. Applied(events[k])
      BY <1>5, DeliverApplied
  <2>2. events' \in Seq(Event)
      BY <1>5, WithoutSeq DEF Deliver, Rows
  <2>3. disordered' \in BOOLEAN /\ events[k].sub \in Subs
      BY <1>5, DeliverApplied DEF Deliver, Event
  <2>4. byInvoice' \subseteq Subs
      BY <2>1, <2>3 DEF Applied, Rows
  <2> QED BY <1>5, <2>1, <2>2, <2>3, <2>4 DEF Applied, Deliver, Rows
<1>6. ASSUME NEW s \in Subs, Reconcile(s) PROVE Rows'
  <2>1. lookup' \in Lookup
      BY <1>6 DEF Reconcile, Rows, Remote, Lookup, Subs
  <2> QED BY <1>6, <2>1 DEF Reconcile, Rows
<1>7. CASE ApplyLookup
  <2>1. Applied(Snapshot(lookup.sub, lookup.status))
      BY <1>7, ApplyLookupApplied
  <2>2. lookup' \in Lookup /\ disordered' \in BOOLEAN
      BY <1>7 DEF ApplyLookup, NoLookup, Lookup, Words
  <2> QED BY <1>7, <2>1, <2>2 DEF Applied, ApplyLookup, Rows
<1> QED BY <1>1, <1>2, <1>3, <1>4, <1>5, <1>6, <1>7, StepKinds

\* The plan and its price.
LEMMA PlansKept ==
  ASSUME Rows, Plans, [Next]_vars
  PROVE  Plans'
<1> USE DEF Plans
<1>1. CASE UNCHANGED <<plan, price, planEdit>>
    BY <1>1
<1>2. CASE CreatePlan
    BY <1>2 DEF CreatePlan
<1>3. CASE EditPlan
    BY <1>3 DEF EditPlan
<1>4. CASE SavePlan
    BY <1>4 DEF SavePlan, NoPlan
<1>5. ASSUME NEW s \in Subs, AttachCheckout(s) PROVE Plans'
  <2>1. sub[s].plan \in [amount : 0..2, price : 0..2]
      BY DEF Rows, Sub
  <2>2. EnsurePrice(s) /\ UNCHANGED planEdit
      BY <1>5 DEF AttachCheckout
  <2> QED BY <2>1, <2>2 DEF EnsurePrice
<1>6. Next => \/ UNCHANGED <<plan, price, planEdit>>
              \/ CreatePlan \/ EditPlan \/ SavePlan
              \/ \E s \in Subs : AttachCheckout(s)
    BY DEF Next, ContactMoves, AccountMoves, duesVars, Join, StripeUnchanged, PayCheckout,
           SessionExpires, RenewalFails, RenewalPaid, SubscriptionChanges, BeginPayment, FirstPaymentFails, Reconcile, Deliver, ApplyLookup
<1>7. CASE UNCHANGED vars
    BY <1>1, <1>7 DEF vars, duesVars
<1> QED BY <1>1, <1>2, <1>3, <1>4, <1>5, <1>6, <1>7

\* Steps of the contact and of the account are those of their modules.
LEMMA PartsKept ==
  ASSUME ContactTypeOK, Wishing, AccountTypeOK, [Next]_vars
  PROVE  ContactTypeOK' /\ Wishing' /\ AccountTypeOK'
<1>1. ContactTypeOK' /\ Wishing'
  <2>1. CASE ContactMoves
      BY <2>1, ContactTypes DEF ContactMoves
  <2>2. ASSUME NEW s \in Subs, Join(s) PROVE ContactTypeOK' /\ Wishing'
      BY <2>2 DEF Join, ContactTypeOK, Trackings, Wishing
  <2>3. ASSUME [Next]_vars, ~ContactMoves, ~\E s \in Subs : Join(s)
        PROVE  UNCHANGED contactVars
      BY <2>3 DEF Next, AccountMoves, vars, CreatePlan, EditPlan, SavePlan, AttachCheckout,
             StripeUnchanged, PayCheckout, SessionExpires, RenewalFails, RenewalPaid,
             SubscriptionChanges, BeginPayment, FirstPaymentFails, Reconcile, Deliver, ApplyLookup
  <2> QED BY <2>1, <2>2, <2>3, ContactTypes
<1>2. [AccountStep]_accountVars
    BY DEF Next, ContactMoves, AccountMoves, vars, CreatePlan, EditPlan, SavePlan, Join, AttachCheckout,
           StripeUnchanged, PayCheckout, SessionExpires, RenewalFails, RenewalPaid,
           SubscriptionChanges, BeginPayment, FirstPaymentFails, Reconcile, Deliver, ApplyLookup
<1> QED BY <1>1, <1>2, AccountTypes

Bounds == [contact : Nat, account : Nat, fetched : Nat, plan : Nat, join : Nat, billing : Nat,
           reconcile : Nat]

\* The bounds.
LEMMA BoundsKept ==
  ASSUME left \in Bounds, [Next]_vars
  PROVE  left' \in Bounds
<1>1. ASSUME NEW kind \in {"contact", "account", "plan", "join", "billing", "reconcile"}, Spend(kind)
      PROVE  left' \in Bounds
  <2>1. left[kind] \in Nat /\ left[kind] > 0
      BY <1>1 DEF Spend, Bounds
  <2>2. left[kind] - 1 \in Nat
      BY <2>1
  <2> QED BY <1>1, <2>2 DEF Spend, Bounds
<1>2. \/ UNCHANGED left
      \/ \E kind \in {"contact", "account", "plan", "join", "billing", "reconcile"} : Spend(kind)
    BY DEF Next, ContactMoves, AccountMoves, vars, CreatePlan, EditPlan, SavePlan, Join, AttachCheckout,
           StripeUnchanged, PayCheckout, SessionExpires, RenewalFails, RenewalPaid,
           SubscriptionChanges, BeginPayment, FirstPaymentFails, Reconcile, Deliver, ApplyLookup
<1> QED BY <1>1, <1>2

-----------------------------------------------------------------------------
(* What Stripe says is grounded *)

\* An event changes no row but its own, and that one stays chained.
LEMMA AppliedChained ==
  ASSUME Rows, NEW e \in Event, Honest(e), \A t \in Subs : Chained(t), Applied(e), UNCHANGED remote
  PROVE  \A t \in Subs : Chained(t)'
<1> TAKE t \in Subs
<1>1. Chained(t) /\ e.sub \in Subs
    BY DEF Event
<1>2. CASE t # e.sub
    BY <1>1, <1>2 DEF Chained, Applied
<1>3. CASE t = e.sub
  <2>1. remote[t].status # "none" /\ sub[t].status # "NONE"
      BY <1>1, <1>3 DEF Honest, Chained
  <2>2. sub'[t].status # "NONE"
    <3>1. sub'[t].status \in {sub[t].status, Written(e)}
        BY <1>3 DEF Applied
    <3>2. e.kind \notin {"session"} => Written(e) # "NONE"
        BY DEF Written, Mapped, Honest, Told, Live, Running, Over
    <3> QED BY <1>3, <2>1, <3>1, <3>2 DEF Applied
  <2> QED BY <1>1, <1>3, <2>1, <2>2 DEF Chained
<1> QED BY <1>2, <1>3

\* Subscriptions stay at Stripe, and the end stays the end: what was said stands.
Standing == \A s \in Subs : /\ remote[s].status # "none" => remote'[s].status # "none"
                            /\ remote[s].status \in Over => remote'[s].status = remote[s].status

\* What was said before a step is still so after it.
LEMMA StillTold ==
  ASSUME Standing
  PROVE  /\ \A s \in Subs, status \in Live : Told(s, status) => Told(s, status)'
         /\ \A e \in Event : Honest(e) => Honest(e)'
<1>1. ASSUME NEW s \in Subs, NEW status, Told(s, status) PROVE Told(s, status)'
    BY <1>1 DEF Standing, Told
<1>2. ASSUME NEW e \in Event, Honest(e) PROVE Honest(e)'
  <2>1. e.sub \in Subs
      BY DEF Event
  <2>2. remote'[e.sub].status # "none"
      BY <1>2, <2>1 DEF Standing, Honest
  <2>3. e.kind = "subscription" => Told(e.sub, e.status)'
      BY <1>1, <1>2, <2>1 DEF Honest
  <2> QED BY <1>2, <2>2, <2>3 DEF Honest
<1> QED BY <1>1, <1>2

\* Every kind of step keeps the rows and the events grounded.
LEMMA GroundedKept ==
  ASSUME Rows, Plans, Grounded, [Next]_vars
  PROVE  Grounded'
<1> DEFINE Heard == \A e \in Event : Pending(e)' => Pending(e)
           Asks == lookup' \in {lookup, NoLookup}
<1>0. ASSUME Standing, Heard, Asks, \A t \in Subs : Chained(t)'
      PROVE  Grounded'
  <2>1. \A e \in Event : Pending(e)' => Honest(e)'
      BY <1>0, StillTold DEF Grounded
  <2>2. ASSUME lookup' # NoLookup
        PROVE  \E s \in Subs, status \in Live :
                  lookup' = [sub |-> s, status |-> status] /\ Told(s, status)'
      BY <1>0, <2>2, StillTold DEF Grounded
  <2> QED BY <1>0, <2>1, <2>2 DEF Grounded
<1> HIDE DEF Heard, Asks
<1>1. CASE Quiet
  <2>1. \A s \in Subs : Chained(s)'
      BY <1>1 DEF Quiet, Grounded, Chained
  <2>2. Standing /\ Heard /\ Asks
      BY <1>1 DEF Quiet, Standing, Heard, Asks, Pending
  <2> QED BY <1>0, <2>1, <2>2
<1>2. ASSUME NEW s \in Subs, Asked(s) PROVE Grounded'
  <2>1. PICK w \in {"open", "expired"} : remote' = [remote EXCEPT ![s].session = w]
      BY <1>2 DEF Asked
  <2>2. \A t \in Subs : remote'[t].status = remote[t].status /\ remote'[t].invoices = remote[t].invoices
      BY <2>1 DEF Rows, Remote
  <2>3. \A t \in Subs \ {s} : remote'[t] = remote[t]
      BY <2>1 DEF Rows
  <2>4. ASSUME NEW t \in Subs PROVE Chained(t)'
    <3>1. Chained(t)
        BY DEF Grounded
    <3>2. CASE t = s
      <4>1. sub[s].status # "NONE" /\ remote[s].status = "none"
          BY <1>2, <3>1, <3>2 DEF Asked, Chained
      <4> QED BY <1>2, <2>2, <3>1, <3>2, <4>1 DEF Chained, Asked
    <3>3. CASE t # s
        BY <1>2, <2>3, <3>1, <3>3 DEF Chained, Asked
    <3> QED BY <3>2, <3>3
  <2>5. Standing /\ Heard /\ Asks
      BY <1>2, <2>2 DEF Asked, Standing, Heard, Asks, Pending
  <2> QED BY <1>0, <2>4, <2>5
<1>3. ASSUME NEW s \in Subs, Join(s) PROVE Grounded'
  <2>1. UNCHANGED <<remote, events, lookup, payment>>
      BY <1>3 DEF Join
  <2>2. ASSUME NEW t \in Subs PROVE Chained(t)'
    <3>1. Chained(t)
        BY DEF Grounded
    <3>2. CASE t = s
      <4>1. sub[s].status = "NONE" /\ sub'[s].status = "INCOMPLETE" /\ ~sub'[s].linked
          BY <1>3, JoinEffect
      <4> QED BY <2>1, <3>1, <3>2, <4>1 DEF Chained
    <3>3. CASE t # s
      <4>1. sub'[t].linked = sub[t].linked
          BY <1>3, <3>3, JoinEffect
      <4>2. \/ sub'[t].status = sub[t].status
            \/ sub[t].status = "INCOMPLETE" /\ sub'[t].status = "CANCELED"
        <5>1. CASE t = Existing
          <6>1. Existing # 0
              BY <5>1 DEF Subs
          <6> QED BY <1>3, <5>1, <6>1, JoinEffect
        <5>2. CASE t # Existing
            BY <1>3, <3>3, <5>2, JoinEffect
        <5> QED BY <5>1, <5>2
      <4> QED BY <2>1, <3>1, <4>1, <4>2 DEF Chained
    <3> QED BY <3>2, <3>3
  <2>3. Standing /\ Heard /\ Asks
      BY <2>1 DEF Standing, Heard, Asks, Pending
  <2> QED BY <1>0, <2>2, <2>3
<1>4. ASSUME NEW s \in Subs, NEW now, NEW news, Happens(s, now, news) PROVE Grounded'
  <2>1. /\ remote'[s] = now /\ \A t \in Subs \ {s} : remote'[t] = remote[t]
        /\ now.status \in Live /\ now.session # "NONE" /\ remote[s].status \notin Over
        /\ now.session = "open" => now.status = "incomplete"
        /\ remote[s].session # "NONE" /\ news \in Seq(Event)
      BY <1>4 DEF Happens, News, Rows
  <2>2. ASSUME NEW t \in Subs PROVE Chained(t)'
    <3>1. Chained(t)
        BY DEF Grounded
    <3>2. CASE t = s
        BY <1>4, <2>1, <3>1, <3>2 DEF Chained, Happens, Live, Running, Over
    <3>3. CASE t # s
        BY <1>4, <2>1, <3>1, <3>3 DEF Chained, Happens
    <3> QED BY <3>2, <3>3
  <2>3. Standing
      BY <2>1 DEF Standing, Live, Running, Over
  <2>4. ASSUME NEW e \in Event, NEW n \in 1..Len(news), news[n] = e PROVE Honest(e)'
    <3>1. /\ e.sub = s
          /\ e.kind = "subscription" => /\ e.status \in Live
                                        /\ e.status \in Over => now.status = e.status
          /\ e.kind = "invoice" => e.status \in {"PAID", "FAILED"} /\ e.invoice \in Invoices
        BY <1>4, <2>4 DEF Happens, News
    <3>2. remote'[s].status # "none"
        BY <2>1 DEF Live, Running, Over
    <3>3. e.kind = "subscription" => Told(s, e.status)'
        BY <2>1, <3>1, <3>2 DEF Told
    <3> QED BY <3>1, <3>2, <3>3 DEF Honest
  <2>5. /\ Len(events') = Len(events) + Len(news) /\ Len(events) \in Nat /\ Len(news) \in Nat
        /\ \A k \in 1..(Len(events) + Len(news)) :
              events'[k] = IF k <= Len(events) THEN events[k] ELSE news[k - Len(events)]
      BY <1>4, <2>1, ConcatProperties DEF Happens, Rows
  <2>6. ASSUME NEW e \in Event, Pending(e)' PROVE Honest(e)'
    <3>1. PICK k \in 1..(Len(events) + Len(news)) : events'[k] = e
        BY <2>5, <2>6 DEF Pending
    <3>2. CASE k <= Len(events)
      <4>1. k \in 1..Len(events) /\ events[k] = e
          BY <2>5, <3>1, <3>2
      <4>2. Honest(e)
          BY <4>1 DEF Pending, Grounded
      <4> QED BY <2>3, <4>2, StillTold
    <3>3. CASE ~(k <= Len(events))
      <4>1. k - Len(events) \in 1..Len(news) /\ news[k - Len(events)] = e
          BY <2>5, <3>1, <3>3
      <4> QED BY <2>4, <4>1
    <3> QED BY <3>2, <3>3
  <2>7. ASSUME lookup' # NoLookup
        PROVE  \E t \in Subs, status \in Live :
                  lookup' = [sub |-> t, status |-> status] /\ Told(t, status)'
    <3>1. lookup' = lookup
        BY <1>4 DEF Happens
    <3> QED BY <2>3, <2>7, <3>1, StillTold DEF Grounded
  <2> QED BY <2>2, <2>6, <2>7 DEF Grounded
<1>5. ASSUME NEW k \in 1..Len(events), Deliver(k) PROVE Grounded'
  <2>1. events[k] \in Event /\ Honest(events[k]) /\ Applied(events[k])
      BY <1>5, DeliverApplied
  <2>2. UNCHANGED <<remote, lookup>> /\ events' = Without(events, k)
      BY <1>5 DEF Deliver
  <2>3. \A t \in Subs : Chained(t)'
      BY <2>1, <2>2, AppliedChained DEF Grounded
  <2>4. ASSUME NEW j \in 1..Len(events') PROVE \E i \in 1..Len(events) : events'[j] = events[i]
    <3>1. events \in Seq(Event) /\ Len(events) \in Nat
        BY DEF Rows
    <3>2. Len(events') = Len(events) - 1
        BY <2>2, <3>1, WithoutSeq
    <3>3. events'[j] = IF j < k THEN events[j] ELSE events[j + 1]
        BY <2>2, <3>1, <3>2, WithoutSeq
    <3>4. j \in 1..Len(events) /\ j + 1 \in 1..Len(events)
        BY <3>1, <3>2
    <3> QED BY <3>3, <3>4
  <2>5. Heard
      BY <2>4 DEF Heard, Pending
  <2>6. Standing /\ Asks
      BY <2>2 DEF Standing, Asks
  <2> QED BY <1>0, <2>3, <2>5, <2>6
<1>6. ASSUME NEW s \in Subs, Reconcile(s) PROVE Grounded'
  <2>1. UNCHANGED <<sub, payment, remote, events>> /\ lookup' = [sub |-> s, status |-> remote[s].status]
        /\ sub[s].linked
      BY <1>6 DEF Reconcile
  <2>2. \A t \in Subs : Chained(t)'
      BY <2>1 DEF Grounded, Chained
  <2>3. \A e \in Event : Pending(e)' => Honest(e)'
      BY <2>1 DEF Grounded, Pending, Honest, Told
  <2>4. remote[s].status # "none" /\ remote[s].status \in Words
    <3>1. Chained(s) /\ remote[s] \in Remote
        BY DEF Grounded, Rows
    <3> QED BY <2>1, <3>1 DEF Chained, Remote
  <2>5. PICK status \in Live : status = remote[s].status
      BY <2>4 DEF Words, Live
  <2>6. lookup' = [sub |-> s, status |-> status] /\ Told(s, status)'
      BY <2>1, <2>4, <2>5 DEF Told
  <2> QED BY <2>2, <2>3, <2>6 DEF Grounded
<1>7. CASE ApplyLookup
  <2>1. UNCHANGED <<remote, events>> /\ lookup' = NoLookup
      BY <1>7 DEF ApplyLookup
  <2>2. \A t \in Subs : Chained(t)'
    <3>1. PICK e \in Event : Honest(e) /\ Applied(e)
        BY <1>7, ApplyLookupApplied
    <3> QED BY <2>1, <3>1, AppliedChained DEF Grounded
  <2>3. Standing /\ Heard /\ Asks
      BY <2>1 DEF Standing, Heard, Asks, Pending
  <2> QED BY <1>0, <2>2, <2>3
<1>8. CASE UNCHANGED vars
    BY <1>1, <1>8 DEF vars, duesVars, Quiet
<1> QED BY <1>1, <1>2, <1>3, <1>4, <1>5, <1>6, <1>7, <1>8, StepKinds

-----------------------------------------------------------------------------
(* Types, the member row and suppressions *)

Base == TypeOK /\ Wishing /\ Grounded

\* Nothing has happened in the beginning.
LEMMA BaseInit == Init => Base
<1> SUFFICES ASSUME Init PROVE Base
    OBVIOUS
<1>1. ContactTypeOK /\ Wishing
    BY DEF Init, ContactInit, NoContact, NoVisit, ContactTypeOK, Consents, Trackings, Wishing
<1>2. AccountTypeOK
    BY DEF Init, AccountInit, AccountTypeOK, AccountStatus
<1>3. /\ sub \in [Subs -> Sub] /\ remote \in [Subs -> Remote]
      /\ payment \in [Subs -> [Invoices -> {"NONE", "PAID", "FAILED"}]] /\ receipt \in [Subs -> BOOLEAN]
    BY DEF Init, NoPlan, Sub, SubStatus, Remote, Words
<1>4. /\ events \in Seq(Event) /\ lookup \in Lookup /\ disordered \in BOOLEAN
      /\ superseded \subseteq Subs /\ byInvoice \subseteq Subs
  <2>1. NoLookup \in Lookup
    <3>1. 0 \in 0..Joins
        OBVIOUS
    <3> QED BY <3>1 DEF NoLookup, Lookup, Words
  <2>2. events \in Seq(Event)
      BY EmptySeq DEF Init
  <2> QED BY <2>1, <2>2 DEF Init
<1>5. Plans /\ left \in Bounds
    BY DEF Init, Plans, NoPlan, Bounds
<1>6. TypeOK
    BY <1>1, <1>2, <1>3, <1>4, <1>5, TypeOKParts DEF Rows, Bounds
<1>7. \A s \in Subs : Chained(s)
    BY DEF Init, Chained
<1>8. \A e \in Event : ~Pending(e)
    BY DEF Init, Pending
<1>9. lookup = NoLookup
    BY DEF Init
<1> QED BY <1>1, <1>6, <1>7, <1>8, <1>9 DEF Base, Grounded

\* Base is inductive.
LEMMA BaseStep == Base /\ [Next]_vars => Base'
<1> SUFFICES ASSUME Base, [Next]_vars PROVE Base'
    OBVIOUS
<1>1. ContactTypeOK /\ AccountTypeOK /\ Rows /\ Plans /\ left \in Bounds /\ Wishing /\ Grounded
    BY TypeOKParts DEF Base, Bounds
<1>2. ContactTypeOK' /\ Wishing' /\ AccountTypeOK'
    BY <1>1, PartsKept
<1>3. Rows'
  <2>1. CASE UNCHANGED vars
      BY <1>1, <2>1 DEF vars, duesVars, Rows
  <2> QED BY <1>1, <2>1, RowsKept
<1>4. Plans' /\ left' \in Bounds /\ Grounded'
    BY <1>1, PlansKept, BoundsKept, GroundedKept
<1>5. TypeOK'
    BY <1>2, <1>3, <1>4 DEF TypeOK, Rows, Plans, Sub, Remote, Event, Lookup, Bounds
<1> QED BY <1>2, <1>4, <1>5 DEF Base

\* The types of every variable, those of the contact and of the account included.
THEOREM MemberDuesTypes == Spec => []TypeOK
<1>1. Base => TypeOK
    BY DEF Base
<1> QED BY <1>1, BaseInit, BaseStep, PTL DEF Spec

\* A row that was not joined is left alone by everything but a join.
LEMMA SubscribedByJoin ==
  ASSUME Rows, Plans, Grounded, [Next]_vars, Subscribed', ~\E s \in Subs : Join(s)
  PROVE  Subscribed
<1>1. PICK t \in Subs : sub'[t].status # "NONE"
    BY DEF Subscribed
<1>2. CASE UNCHANGED sub
    BY <1>1, <1>2 DEF Subscribed
<1>3. ASSUME NEW e \in Event, Honest(e), Applied(e) PROVE Subscribed
  <2>1. e.sub \in Subs /\ Chained(e.sub)
      BY DEF Event, Grounded
  <2>2. sub[e.sub].status # "NONE"
      BY <1>3, <2>1 DEF Honest, Chained
  <2> QED BY <2>1, <2>2 DEF Subscribed
<1>4. CASE UNCHANGED vars
    BY <1>2, <1>4 DEF vars, duesVars
<1> QED BY <1>2, <1>3, <1>4, StepKinds, DeliverApplied, ApplyLookupApplied
        DEF Quiet, Asked, Happens, Reconcile

\* A person with subscriptions keeps the contact and the member row they hang on: no
\* form of a manager that was validated before the first of them removes it
\* (save_contact_from_form, start_member_subscription).
THEOREM MemberDuesHistoryKept == Spec => []HistoryKept
<1>1. Init => HistoryKept
    BY DEF Init, HistoryKept, Subscribed
<1>2. Base /\ HistoryKept /\ [Next]_vars => HistoryKept'
  <2> SUFFICES ASSUME Base, HistoryKept, [Next]_vars, Subscribed' PROVE contact'.exists /\ member' # "NONE"
      BY DEF HistoryKept
  <2>1. ContactTypeOK /\ Rows /\ Plans /\ Grounded
      BY TypeOKParts DEF Base
  <2>2. ASSUME NEW s \in Subs, Join(s) PROVE contact'.exists /\ member' # "NONE"
      BY <2>1, <2>2 DEF Join, ContactTypeOK
  <2>3. CASE ~\E s \in Subs : Join(s)
    <3>1. Subscribed /\ contact.exists /\ member # "NONE"
        BY <2>1, <2>3, SubscribedByJoin DEF HistoryKept
    <3>2. CASE ContactMoves
      <4>1. ContactStep(Subscribed)
          BY <3>2 DEF ContactMoves
      <4>2. ASSUME NEW granted \in BOOLEAN, NEW tracking \in Trackings,
                   SaveContact(granted, tracking, Subscribed)
            PROVE  contact'.exists /\ member' # "NONE"
          BY <3>1, <4>2 DEF SaveContact, MemberSaved
      <4>3. CASE ArchiveContact \/ ConsentSave \/ Unsubscribe \/ Suppressed
          BY <2>1, <3>1, <4>3 DEF ArchiveContact, ConsentSave, Unsubscribe, Suppressed, ContactTypeOK
      <4>4. CASE UNCHANGED <<contact, member>>
          BY <3>1, <4>4
      <4> QED BY <3>1, <4>1, <4>2, <4>3, <4>4
              DEF ContactStep, ContactCreate, EditContact, VisitEnds, NewsletterCreates, ConsentRead
    <3>3. CASE ~ContactMoves
      <4>1. UNCHANGED contactVars
          BY <2>3, <3>3 DEF Next, AccountMoves, vars, CreatePlan, EditPlan, SavePlan, AttachCheckout,
                 StripeUnchanged, PayCheckout, SessionExpires, RenewalFails, RenewalPaid,
                 SubscriptionChanges, BeginPayment, FirstPaymentFails, Reconcile, Deliver, ApplyLookup
      <4> QED BY <3>1, <4>1 DEF contactVars
    <3> QED BY <3>2, <3>3
  <2> QED BY <2>2, <2>3
<1> QED BY <1>1, <1>2, BaseInit, BaseStep, PTL DEF Spec

\* An address that is not a contact was not suppressed.
Remembered == contact.exists \/ contact.consent # "SUPPRESSED"

\* No sign-up, opt-out, archiving, edit or join ends a suppression, except a request
\* that read the contact before it was suppressed (save_contact_from_form,
\* subscribe_to_newsletter, campaigns.unsubscribe, start_member_subscription).
THEOREM MemberDuesSuppressionKept == Spec => SuppressionKept
<1> DEFINE Kept == contact.consent = "SUPPRESSED" /\ contact'.consent # "SUPPRESSED"
                      => visit.kind # "none" /\ visit.consent # "SUPPRESSED"
<1>1. Init => Remembered
    BY DEF Init, ContactInit, NoContact, Remembered
<1>2. Base /\ Remembered /\ [Next]_vars => Remembered' /\ Kept
  <2> SUFFICES ASSUME Base, Remembered, [Next]_vars PROVE Remembered' /\ Kept
      OBVIOUS
  <2>1. ContactTypeOK
      BY TypeOKParts DEF Base
  <2>2. ASSUME NEW s \in Subs, Join(s) PROVE Remembered' /\ Kept
      BY <2>1, <2>2 DEF Join, ContactTypeOK, Remembered
  <2>3. CASE ContactMoves
    <3>1. ContactStep(Subscribed)
        BY <2>3 DEF ContactMoves
    <3>2. ASSUME NEW granted \in BOOLEAN, NEW tracking \in Trackings,
                 ContactCreate(granted, tracking)
          PROVE  Remembered' /\ Kept
        BY <3>2 DEF ContactCreate, Remembered
    <3>3. ASSUME NEW granted \in BOOLEAN, NEW tracking \in Trackings,
                 SaveContact(granted, tracking, Subscribed)
          PROVE  Remembered' /\ Kept
        BY <3>3 DEF SaveContact, Recorded, Wish, Remembered
    <3>4. CASE ArchiveContact \/ Unsubscribe \/ Suppressed
        BY <2>1, <3>4 DEF ArchiveContact, Unsubscribe, Suppressed, Recorded, ContactTypeOK, Remembered
    <3>5. CASE NewsletterCreates
        BY <3>5 DEF NewsletterCreates, Remembered
    <3>6. CASE ConsentSave
        BY <2>1, <3>6 DEF ConsentSave, Recorded, ContactTypeOK, Remembered
    <3>7. CASE UNCHANGED contact
        BY <3>7 DEF Remembered
    <3> QED BY <3>1, <3>2, <3>3, <3>4, <3>5, <3>6, <3>7
            DEF ContactStep, EditContact, VisitEnds, ConsentRead
  <2>4. ASSUME ~ContactMoves, ~\E s \in Subs : Join(s) PROVE Remembered' /\ Kept
    <3>1. UNCHANGED contactVars
        BY <2>4 DEF Next, AccountMoves, vars, CreatePlan, EditPlan, SavePlan, AttachCheckout,
               StripeUnchanged, PayCheckout, SessionExpires, RenewalFails, RenewalPaid,
               SubscriptionChanges, BeginPayment, FirstPaymentFails, Reconcile, Deliver, ApplyLookup
    <3> QED BY <3>1 DEF contactVars, Remembered
  <2> QED BY <2>2, <2>3, <2>4
<1>3. Base /\ Remembered /\ [Next]_vars => [Kept]_contactVars
    BY <1>2
<1> QED BY <1>1, <1>2, <1>3, BaseInit, BaseStep, PTL DEF Spec, SuppressionKept

-----------------------------------------------------------------------------
(* Nobody pays twice *)

\* A subscription that no later one can be charged beside: a join gave it up or it has
\* ended at Stripe.  What a row says of its end is so, and whoever joins again has
\* nothing else open.
Closed(s) == s \in superseded \/ remote[s].status \in Over

OneOpen ==
    /\ \A s \in Subs : sub[s].status \in Ended => Closed(s)
    /\ \A s, t \in Subs : s < t /\ sub[t].status # "NONE" => Closed(s)

\* A join gives up the newest open row, and no older one is open.
LEMMA OneOpenKept ==
  ASSUME Rows, Plans, Grounded, OneOpen, [Next]_vars
  PROVE  OneOpen'
<1>0. ASSUME \A s \in Subs : Closed(s) => Closed(s)',
             \A s \in Subs : sub'[s].status \in Ended => sub[s].status \in Ended \/ Closed(s)',
             \A t \in Subs : sub'[t].status # "NONE" => sub[t].status # "NONE"
      PROVE  OneOpen'
    BY <1>0 DEF OneOpen
<1>1. ASSUME UNCHANGED sub, superseded \subseteq superseded',
             \A s \in Subs : remote[s].status \in Over => remote'[s].status \in Over
      PROVE  OneOpen'
    BY <1>0, <1>1 DEF Closed
<1>2. ASSUME NEW s \in Subs, Asked(s) PROVE OneOpen'
  <2>1. \A t \in Subs : remote'[t].status = remote[t].status
      BY <1>2 DEF Asked, Rows, Remote
  <2> QED BY <1>1, <1>2, <2>1 DEF Asked
<1>3. ASSUME NEW s \in Subs, Join(s) PROVE OneOpen'
  <2>1. UNCHANGED remote /\ \A t \in Subs : t < s => sub[t].status # "NONE"
      BY <1>3 DEF Join
  <2>2. superseded' = superseded \union ({Existing} \ {0})
      BY <1>3, JoinEffect
  <2>3. \A t \in Subs : Closed(t) => Closed(t)'
      BY <2>1, <2>2 DEF Closed
  <2>4. ASSUME NEW t \in Subs, t = Existing PROVE Closed(t)'
    <3>1. t # 0
        BY DEF Subs
    <3> QED BY <2>2, <2>4, <3>1 DEF Closed
  <2>5. ASSUME NEW t \in Subs, sub'[t].status \in Ended PROVE Closed(t)'
    <3>1. CASE t = s
        BY <1>3, <2>5, <3>1, JoinEffect DEF Ended
    <3>2. CASE t = Existing
        BY <2>4, <3>2
    <3>3. CASE t # s /\ t # Existing
      <4>1. sub'[t].status = sub[t].status
          BY <1>3, <3>3, JoinEffect
      <4> QED BY <2>3, <2>5, <4>1 DEF OneOpen
    <3> QED BY <3>1, <3>2, <3>3
  <2>6. ASSUME NEW t \in Subs, NEW u \in Subs, t < u, sub'[u].status # "NONE" PROVE Closed(t)'
    <3>1. CASE u = s
      <4>1. sub[t].status # "NONE"
          BY <2>1, <2>6, <3>1
      <4>2. CASE sub[t].status \in Ended
          BY <2>3, <4>2 DEF OneOpen
      <4>3. CASE sub[t].status \notin Ended
        <5>1. Existing \in Subs /\ sub[Existing].status \notin Ended \union {"NONE"} /\ t <= Existing
            BY <4>1, <4>3, ExistingNewest
        <5>2. CASE t = Existing
            BY <2>4, <5>2
        <5>3. CASE t # Existing
          <6>1. t < Existing
              BY <5>1, <5>3 DEF Subs
          <6> QED BY <2>3, <5>1, <6>1 DEF OneOpen
        <5> QED BY <5>2, <5>3
      <4> QED BY <4>2, <4>3
    <3>2. CASE u # s
      <4>1. sub[u].status # "NONE"
        <5>1. CASE u = Existing
          <6>1. Existing # 0
              BY <5>1 DEF Subs
          <6> QED BY <1>3, <5>1, <6>1, JoinEffect
        <5>2. CASE u # Existing
            BY <1>3, <2>6, <3>2, <5>2, JoinEffect
        <5> QED BY <5>1, <5>2
      <4> QED BY <2>3, <2>6, <4>1 DEF OneOpen
    <3> QED BY <3>1, <3>2
  <2> QED BY <2>5, <2>6 DEF OneOpen
<1>4. ASSUME NEW s \in Subs, NEW now, NEW news, Happens(s, now, news) PROVE OneOpen'
  <2>1. \A t \in Subs : remote[t].status \in Over => remote'[t].status \in Over
      BY <1>4 DEF Happens, News, Rows
  <2> QED BY <1>1, <1>4, <2>1 DEF Happens
<1>5. ASSUME NEW e \in Event, Honest(e), Applied(e), UNCHANGED <<remote, superseded>> PROVE OneOpen'
  <2>1. e.sub \in Subs /\ Chained(e.sub)
      BY DEF Event, Grounded
  <2>2. sub[e.sub].status # "NONE"
      BY <1>5, <2>1 DEF Honest, Chained
  <2>3. \A t \in Subs : t # e.sub => sub'[t].status = sub[t].status
      BY <1>5 DEF Applied
  <2>4. ASSUME sub'[e.sub].status \in Ended, sub[e.sub].status \notin Ended PROVE Closed(e.sub)'
    <3>1. e.kind # "session" /\ Written(e) \in Ended
        BY <1>5, <2>4 DEF Applied
    <3>2. e.kind = "subscription" /\ e.status \in Over
        BY <1>5, <3>1 DEF Written, Ended, Honest, Told, Live, Running, Over, Mapped
    <3> QED BY <1>5, <3>2 DEF Honest, Told, Closed
  <2>5. \A t \in Subs : Closed(t) => Closed(t)'
      BY <1>5 DEF Closed
  <2> QED BY <1>0, <2>1, <2>2, <2>3, <2>4, <2>5
<1>6. ASSUME NEW k \in 1..Len(events), Deliver(k) PROVE OneOpen'
    BY <1>5, <1>6, DeliverApplied DEF Deliver
<1>7. CASE ApplyLookup
  <2>1. PICK e \in Event : Honest(e) /\ Applied(e)
      BY <1>7, ApplyLookupApplied
  <2> QED BY <1>5, <1>7, <2>1 DEF ApplyLookup
<1>8. CASE Quiet \/ \E s \in Subs : Reconcile(s)
    BY <1>1, <1>8 DEF Quiet, Reconcile
<1>9. CASE UNCHANGED vars
    BY <1>1, <1>9 DEF vars, duesVars
<1> QED BY <1>2, <1>3, <1>4, <1>6, <1>7, <1>8, <1>9, StepKinds

\* Two subscriptions of one person for one plan are charged at once only if the older
\* checkout was given up by a later join and paid all the same
\* (start_member_subscription, apply_member_subscription).
THEOREM MemberDuesDoubleChargeExplained == Spec => []DoubleChargeExplained
<1>1. Init => OneOpen
    BY DEF Init, OneOpen, Ended
<1>2. Base /\ OneOpen /\ [Next]_vars => OneOpen'
    BY OneOpenKept, TypeOKParts DEF Base
<1>3. Base /\ OneOpen => DoubleChargeExplained
  <2> SUFFICES ASSUME Base, OneOpen, NEW s \in Subs, NEW t \in Subs, s < t,
                      remote[s].status \in Running, remote[t].status \in Running
               PROVE  s \in superseded
      BY DEF DoubleChargeExplained
  <2>1. Chained(t)
      BY DEF Base, Grounded
  <2>2. sub[t].status # "NONE"
      BY <2>1 DEF Chained, Running
  <2> QED BY <2>2 DEF OneOpen, Closed, Running, Over
<1> QED BY <1>1, <1>2, <1>3, BaseInit, BaseStep, PTL DEF Spec

-----------------------------------------------------------------------------
(* Events in order *)

\* Where the events on their way lead: the last that writes the row's status writes what
\* Stripe says, once the first payment is settled; the last that books an invoice books
\* what became of it; and with none to come the row says so already.  Until the row knows
\* Stripe's id, the first event will tell it.
Following(s) ==
    /\ remote[s].status # "incomplete" =>
          /\ Ends(events, Writes(s), Saying(Mapped[remote[s].status]))
          /\ None(events, Writes(s)) => sub[s].status = Mapped[remote[s].status]
    /\ \A i \in Invoices :
          /\ Ends(events, Bills(s, i), Billing(remote[s].invoices[i]))
          /\ None(events, Bills(s, i)) => payment[s][i] = remote[s].invoices[i]
    /\ sub[s].linked \/ Starts(events, Own(s), Linking)

InOrder == ~disordered => \A s \in Subs : remote[s].status # "none" => Following(s)

\* Nothing that concerns s.
LEMMA FollowingSame ==
  ASSUME NEW s \in Subs, Following(s), UNCHANGED events,
         remote'[s].status = remote[s].status, remote'[s].invoices = remote[s].invoices,
         sub'[s].status = sub[s].status, sub'[s].linked = sub[s].linked,
         payment'[s] = payment[s]
  PROVE  Following(s)'
  BY DEF Following

\* A join gives up a row that Stripe has not told of, or that has writes to come.
LEMMA FollowingJoin ==
  ASSUME NEW s \in Subs, Following(s), UNCHANGED <<events, remote, payment>>,
         remote[s].status \in Live,
         sub[s].status = "INCOMPLETE", sub'[s].status = "CANCELED", sub'[s].linked = sub[s].linked
  PROVE  Following(s)'
<1>1. remote[s].status # "incomplete" => sub[s].status # Mapped[remote[s].status]
    BY DEF Live, Running, Over, Mapped
<1> QED BY <1>1 DEF Following

\* News of another subscription.
LEMMA FollowingOther ==
  ASSUME Rows, NEW s \in Subs, Following(s), NEW t \in Subs, t # s, NEW now, NEW news,
         Happens(t, now, news)
  PROVE  Following(s)'
<1>1. news \in Seq(Event) /\ events \in Seq(Event) /\ events' = events \o news
      /\ \A n \in 1..Len(news) : news[n] \notin Own(s)
    BY DEF Happens, News, Rows, Own
<1>2. /\ None(news, Writes(s)) /\ \A i \in Invoices : None(news, Bills(s, i))
    BY <1>1 DEF None, Writes, Bills
<1>3. remote'[s] = remote[s] /\ UNCHANGED <<sub, payment>>
    BY DEF Happens, Rows
<1>4. remote[s].status # "incomplete" =>
          /\ Ends(events', Writes(s), Saying(Mapped[remote[s].status]))
          /\ None(events', Writes(s)) => None(events, Writes(s))
    BY <1>1, <1>2, EndsMore DEF Following
<1>5. \A i \in Invoices : /\ Ends(events', Bills(s, i), Billing(remote[s].invoices[i]))
                          /\ None(events', Bills(s, i)) => None(events, Bills(s, i))
    BY <1>1, <1>2, EndsMore DEF Following
<1>6. sub[s].linked \/ Starts(events', Own(s), Linking)
    BY <1>1, StartsMore DEF Following
<1> QED BY <1>3, <1>4, <1>5, <1>6 DEF Following

\* News of s itself.
LEMMA FollowingNews ==
  ASSUME Rows, Grounded, NEW s \in Subs, remote[s].status # "none" => Following(s),
         NEW now, NEW news, Happens(s, now, news)
  PROVE  Following(s)'
<1>1. /\ news \in Seq(Event) /\ events \in Seq(Event) /\ events' = events \o news
      /\ remote'[s] = now /\ UNCHANGED <<sub, payment>>
    BY DEF Happens, News, Rows
<1>2. ASSUME now.status # "incomplete"
      PROVE  \E n \in 1..Len(news) : LastOf(news, Writes(s), n) /\ news[n] \in Saying(Mapped[now.status])
    BY <1>2 DEF Happens, News
<1>3. ASSUME now.status # "incomplete"
      PROVE  /\ Ends(events', Writes(s), Saying(Mapped[now.status]))
             /\ ~None(events', Writes(s))
  <2>1. ~None(news, Writes(s))
      BY <1>2, <1>3 DEF None, LastOf
  <2> QED BY <1>1, <1>2, <1>3, <2>1, EndsMore
<1>4. ASSUME remote[s].status = "none"
      PROVE  /\ ~sub[s].linked /\ None(events, Own(s)) /\ \A i \in Invoices : None(events, Bills(s, i))
             /\ payment[s] = remote[s].invoices
  <2>1. Chained(s)
      BY DEF Grounded
  <2>2. None(events, Own(s))
    <3> SUFFICES ASSUME NEW k \in 1..Len(events), events[k] \in Own(s) PROVE FALSE
        BY DEF None
    <3>1. PICK e \in Event : e = events[k] /\ e.sub = s
        BY DEF Own
    <3>2. Honest(e)
        BY <3>1 DEF Grounded, Pending
    <3> QED BY <1>4, <3>1, <3>2 DEF Honest
  <2>3. \A i \in Invoices : None(events, Bills(s, i))
      BY <2>2 DEF None, Bills
  <2> QED BY <1>4, <2>1, <2>2, <2>3 DEF Chained
<1>5. ASSUME NEW i \in Invoices
      PROVE  /\ Ends(events', Bills(s, i), Billing(now.invoices[i]))
             /\ None(events', Bills(s, i)) => payment[s][i] = now.invoices[i]
  <2>1. CASE \E n \in 1..Len(news) : LastOf(news, Bills(s, i), n) /\ news[n] \in Billing(now.invoices[i])
    <3>1. ~None(news, Bills(s, i))
        BY <2>1 DEF None, LastOf
    <3> QED BY <1>1, <2>1, <3>1, EndsMore
  <2>2. CASE None(news, Bills(s, i)) /\ now.invoices[i] = remote[s].invoices[i]
    <3>1. /\ Ends(events, Bills(s, i), Billing(remote[s].invoices[i]))
          /\ None(events, Bills(s, i)) => payment[s][i] = remote[s].invoices[i]
      <4>1. CASE remote[s].status = "none"
          BY <1>4, <4>1 DEF Ends, None, LastOf
      <4>2. CASE remote[s].status # "none"
          BY <4>2 DEF Following
      <4> QED BY <4>1, <4>2
    <3> QED BY <1>1, <2>2, <3>1, EndsMore
  <2> QED BY <2>1, <2>2 DEF Happens, News, None
<1>6. sub[s].linked \/ Starts(events', Own(s), Linking)
  <2>1. CASE remote[s].status = "none"
      BY <1>1, <1>4, <2>1, StartsMore DEF Happens, News
  <2>2. CASE remote[s].status # "none"
      BY <1>1, <2>2, StartsMore DEF Following
  <2> QED BY <2>1, <2>2
<1> QED BY <1>1, <1>3, <1>5, <1>6 DEF Following

\* The oldest event of all is applied.
LEMMA FollowingDelivered ==
  ASSUME Rows, Grounded, NEW s \in Subs, Following(s), Deliver(1), Len(events) > 0
  PROVE  Following(s)'
<1> DEFINE e == events[1]
<1>0. 1 \in 1..Len(events) /\ events \in Seq(Event)
    BY DEF Rows
<1>1. e \in Event /\ Honest(e) /\ Applied(e) /\ UNCHANGED remote
    BY <1>0, DeliverApplied DEF Deliver
<1>2. /\ events' \in Seq(Event) /\ Len(events') = Len(events) - 1
      /\ \A j \in 1..Len(events') : events'[j] = events[j + 1]
    BY <1>0, WithoutSeq DEF Deliver
<1>3. ASSUME NEW hits, NEW good, Ends(events, hits, good)
      PROVE  /\ Ends(events', hits, good)
             /\ None(events', hits) => None(events, hits) \/ e \in hits \intersect good
    BY <1>0, <1>2, <1>3, EndsRest
<1>4. ASSUME NEW hits, NEW good, Starts(events, hits, good)
      PROVE  e \in hits \intersect good \/ (e \notin hits /\ Starts(events', hits, good))
    BY <1>0, <1>2, <1>4, StartsRest
<1>5. ASSUME NEW hits, None(events, hits)
      PROVE  e \notin hits
    BY <1>0, <1>5 DEF None
<1> HIDE DEF e
<1>6. CASE e.sub # s
  <2>1. e \notin Own(s) /\ e \notin Writes(s) /\ \A i \in Invoices : e \notin Bills(s, i)
      BY <1>6 DEF Own, Writes, Bills
  <2>2. sub'[s] = sub[s] /\ payment'[s] = payment[s]
      BY <1>1, <1>6 DEF Applied
  <2> QED BY <1>1, <1>3, <1>4, <2>1, <2>2 DEF Following
<1>7. CASE e.sub = s
  <2>1. e \in Own(s)
      BY <1>1, <1>7 DEF Own
  \* An invoice comes after something that linked the row.
  <2>2. e.kind = "invoice" => sub[s].linked
      BY <1>4, <2>1 DEF Following, Linking
  <2>3. sub'[s].linked
      BY <1>1, <1>7, <2>2 DEF Applied
  <2>4. remote[s].status # "incomplete" =>
            /\ Ends(events', Writes(s), Saying(Mapped[remote[s].status]))
            /\ None(events', Writes(s)) => sub'[s].status = Mapped[remote[s].status]
    <3>1. e \in Writes(s) <=> e.kind # "session"
        BY <2>1 DEF Writes
    <3>2. e.kind = "session" => sub'[s].status = sub[s].status
        BY <1>1, <1>7 DEF Applied
    <3>3. e.kind # "session" => sub'[s].status = Written(e)
        BY <1>1, <1>7, <2>2 DEF Applied
    <3>4. e \in Saying(Mapped[remote[s].status]) => Written(e) = Mapped[remote[s].status]
        BY DEF Saying
    <3> QED BY <1>3, <1>5, <3>1, <3>2, <3>3, <3>4 DEF Following
  <2>5. ASSUME NEW i \in Invoices
        PROVE  /\ Ends(events', Bills(s, i), Billing(remote[s].invoices[i]))
               /\ None(events', Bills(s, i)) => payment'[s][i] = remote[s].invoices[i]
    <3>1. e \in Bills(s, i) <=> e.kind = "invoice" /\ e.invoice = i
        BY <2>1 DEF Bills
    <3>2. payment[s] \in [Invoices -> {"NONE", "PAID", "FAILED"}]
        BY DEF Rows
    <3>3. e \notin Bills(s, i) => payment'[s][i] = payment[s][i]
        BY <1>1, <1>7, <3>1, <3>2 DEF Applied
    <3>4. e \in Bills(s, i) => payment'[s][i] = e.status
        BY <1>1, <1>7, <2>2, <3>1, <3>2 DEF Applied
    <3>5. e \in Billing(remote[s].invoices[i]) => e.status = remote[s].invoices[i]
        BY DEF Billing
    <3> QED BY <1>3, <1>5, <3>3, <3>4, <3>5 DEF Following
  <2> QED BY <1>1, <2>3, <2>4, <2>5 DEF Following
<1> QED BY <1>6, <1>7

\* An answer that was not overtaken, with nothing of the subscription on its way, says
\* what the row says already.
LEMMA FollowingLookup ==
  ASSUME Rows, Grounded, ApplyLookup, ~disordered',
         NEW s \in Subs, remote[s].status # "none", Following(s)
  PROVE  Following(s)'
<1>1. PICK u \in Subs, status \in Live : lookup = [sub |-> u, status |-> status]
    BY DEF ApplyLookup, Grounded
<1>2. status = remote[u].status /\ \A k \in 1..Len(events) : events[k].sub # u
    BY <1>1 DEF ApplyLookup
<1>3. Applied(Snapshot(u, status)) /\ UNCHANGED <<remote, events>>
    BY <1>1, ApplyLookupApplied DEF ApplyLookup
<1>4. CASE s # u
  <2>1. sub'[s] = sub[s] /\ payment'[s] = payment[s]
      BY <1>3, <1>4 DEF Applied, Snapshot
  <2> QED BY <1>3, <2>1, FollowingSame
<1>5. CASE s = u
  <2>1. \A k \in 1..Len(events) : events[k] \notin Own(s)
      BY <1>2, <1>5 DEF Own
  <2>2. None(events, Writes(s)) /\ ~Starts(events, Own(s), Linking)
        /\ \A j \in Invoices : None(events, Bills(s, j))
      BY <2>1 DEF None, Writes, Bills, Starts, FirstOf
  <2>3. sub[s].linked /\ (status # "incomplete" => sub[s].status = Mapped[status])
      BY <1>2, <1>5, <2>2 DEF Following
  <2>4. sub[s] \in Sub
      BY DEF Rows
  <2>5. /\ sub'[s].status = Mapped[status] /\ sub'[s].linked = TRUE
        /\ payment'[s] = payment[s]
      BY <1>3, <1>5, <2>3, <2>4 DEF Applied, Snapshot, Written
  <2> QED BY <1>2, <1>3, <1>5, <2>3, <2>5 DEF Following
<1> QED BY <1>4, <1>5

\* Every kind of step keeps the events on their way leading where Stripe is.
LEMMA InOrderKept ==
  ASSUME Rows, Plans, Grounded, InOrder, [Next]_vars
  PROVE  InOrder'
<1> SUFFICES ASSUME ~disordered', NEW s \in Subs, remote'[s].status # "none"
             PROVE  Following(s)'
    BY DEF InOrder
<1>1. ASSUME UNCHANGED <<sub, payment, remote, events, disordered>> PROVE Following(s)'
    BY <1>1, FollowingSame DEF InOrder
<1>2. ASSUME NEW t \in Subs, Asked(t) PROVE Following(s)'
  <2>1. remote'[s].status = remote[s].status /\ remote'[s].invoices = remote[s].invoices
      BY <1>2 DEF Asked, Rows, Remote
  <2> QED BY <1>2, <2>1, FollowingSame DEF InOrder, Asked
<1>3. ASSUME NEW t \in Subs, Join(t) PROVE Following(s)'
  <2>1. UNCHANGED <<events, remote, payment, disordered>>
      BY <1>3 DEF Join
  <2>2. Following(s) /\ Chained(s) /\ remote[s].status \in Live
      BY <2>1 DEF InOrder, Grounded, Rows, Remote, Words, Live
  <2>3. s # t
      BY <1>3, <2>1, <2>2, JoinEffect DEF Chained
  <2>4. CASE s = Existing
    <3>1. Existing # 0
        BY <2>4 DEF Subs
    <3> QED BY <1>3, <2>1, <2>2, <2>3, <2>4, <3>1, JoinEffect, FollowingJoin
  <2>5. CASE s # Existing
      BY <1>3, <2>1, <2>2, <2>3, <2>5, JoinEffect, FollowingSame
  <2> QED BY <2>4, <2>5
<1>4. ASSUME NEW t \in Subs, NEW now, NEW news, Happens(t, now, news) PROVE Following(s)'
  <2>1. remote[s].status # "none" => Following(s)
      BY <1>4 DEF Happens, InOrder
  <2>2. CASE s = t
      BY <1>4, <2>1, <2>2, FollowingNews
  <2>3. CASE s # t
    <3>1. remote[s].status # "none"
        BY <1>4, <2>3 DEF Happens, Rows
    <3> QED BY <1>4, <2>1, <2>3, <3>1, FollowingOther
  <2> QED BY <2>2, <2>3
<1>5. ASSUME NEW k \in 1..Len(events), Deliver(k) PROVE Following(s)'
  <2>1. k = 1 /\ ~disordered /\ UNCHANGED remote
      BY <1>5 DEF Deliver
  <2>2. Following(s) /\ Len(events) > 0
      BY <2>1 DEF InOrder
  <2> QED BY <1>5, <2>1, <2>2, FollowingDelivered
<1>6. ASSUME NEW t \in Subs, Reconcile(t) PROVE Following(s)'
    BY <1>1, <1>6 DEF Reconcile
<1>7. CASE ApplyLookup
  <2>1. UNCHANGED remote /\ ~disordered
      BY <1>7 DEF ApplyLookup, Rows
  <2> QED BY <1>7, <2>1, FollowingLookup DEF InOrder
<1>8. CASE Quiet
    BY <1>1, <1>8 DEF Quiet
<1>9. CASE UNCHANGED vars
    BY <1>1, <1>9 DEF vars, duesVars
<1> QED BY <1>2, <1>3, <1>4, <1>5, <1>6, <1>7, <1>8, <1>9, StepKinds

\* Whoever has been ACTIVE, or has a paid invoice booked, was sent a receipt or was made
\* ACTIVE by an invoice.
Receipted ==
    \A s \in Subs : sub[s].status = "ACTIVE" \/ (\E i \in Invoices : payment[s][i] = "PAID")
                    => receipt[s] \/ s \in byInvoice

\* An event or an answer that makes the row ACTIVE does one or the other.
LEMMA AppliedReceipted ==
  ASSUME Rows, Receipted, NEW e \in Event, Honest(e), Applied(e)
  PROVE  Receipted'
<1> SUFFICES ASSUME NEW s \in Subs,
                    sub'[s].status = "ACTIVE" \/ \E i \in Invoices : payment'[s][i] = "PAID"
             PROVE  receipt'[s] \/ s \in byInvoice'
    BY DEF Receipted
<1>1. CASE s # e.sub
    BY <1>1 DEF Applied, Receipted
<1>2. CASE s = e.sub /\ (receipt[s] \/ s \in byInvoice)
    BY <1>2 DEF Applied
<1>3. CASE s = e.sub /\ ~(receipt[s] \/ s \in byInvoice)
  <2>1. sub[s].status # "ACTIVE" /\ \A i \in Invoices : payment[s][i] # "PAID"
      BY <1>3 DEF Receipted
  <2>2. CASE e.kind = "session" \/ (e.kind = "invoice" /\ ~sub[s].linked)
      BY <1>3, <2>1, <2>2 DEF Applied
  <2>3. CASE e.kind = "subscription"
    <3>1. sub'[s].status = Mapped[e.status] /\ payment'[s] = payment[s] /\ e.status \in Live
        BY <1>3, <2>3 DEF Applied, Written, Honest, Told
    <3>2. e.status = "active"
        BY <2>1, <3>1 DEF Mapped, Live, Running, Over
    <3> QED BY <1>3, <2>1, <2>3, <3>2 DEF Applied
  <2>4. CASE e.kind = "invoice" /\ sub[s].linked
    <3>1. e.status = "PAID"
      <4>1. sub'[s].status = Written(e) /\ payment'[s] = [payment[s] EXCEPT ![e.invoice] = e.status]
          BY <1>3, <2>4 DEF Applied
      <4>2. payment[s] \in [Invoices -> {"NONE", "PAID", "FAILED"}]
          BY DEF Rows
      <4> QED BY <2>1, <2>4, <4>1, <4>2 DEF Written
    <3> QED BY <1>3, <2>1, <2>4, <3>1 DEF Applied
  <2> QED BY <2>2, <2>3, <2>4 DEF Event
<1> QED BY <1>1, <1>2, <1>3

LEMMA ReceiptedKept ==
  ASSUME Rows, Plans, Grounded, Receipted, [Next]_vars
  PROVE  Receipted'
<1>1. CASE UNCHANGED <<sub, payment, receipt, byInvoice>>
    BY <1>1 DEF Receipted
<1>2. ASSUME NEW s \in Subs, Join(s) PROVE Receipted'
  <2>1. UNCHANGED <<payment, receipt, byInvoice>>
      BY <1>2 DEF Join
  <2>2. ASSUME NEW t \in Subs, sub'[t].status = "ACTIVE" PROVE sub[t].status = "ACTIVE"
    <3>1. CASE t = s
        BY <1>2, <2>2, <3>1, JoinEffect
    <3>2. CASE t = Existing
      <4>1. Existing # 0
          BY <3>2 DEF Subs
      <4> QED BY <1>2, <2>2, <3>2, <4>1, JoinEffect
    <3>3. CASE t # s /\ t # Existing
        BY <1>2, <2>2, <3>3, JoinEffect
    <3> QED BY <3>1, <3>2, <3>3
  <2> QED BY <2>1, <2>2 DEF Receipted
<1>3. ASSUME NEW k \in 1..Len(events), Deliver(k) PROVE Receipted'
    BY <1>3, DeliverApplied, AppliedReceipted
<1>4. CASE ApplyLookup
    BY <1>4, ApplyLookupApplied, AppliedReceipted
<1>5. CASE UNCHANGED vars
    BY <1>1, <1>5 DEF vars, duesVars
<1> QED BY <1>1, <1>2, <1>3, <1>4, <1>5, StepKinds DEF Quiet, Asked, Happens, Reconcile

\* Once the events have been applied in the order Stripe made them, every subscription
\* past its first payment says what Stripe says, also when the checkout was given up
\* before it was paid; its invoices are booked; and whoever paid has a receipt or was
\* made ACTIVE by an invoice (process_connect_event, apply_member_subscription,
\* apply_member_invoice, reconcile_site_commerce).
THEOREM MemberDuesFollowStripe == Spec => []DuesFollowStripe
<1>1. Init => InOrder /\ Receipted
    BY DEF Init, InOrder, Receipted
<1>2. Base /\ InOrder /\ Receipted /\ [Next]_vars => InOrder' /\ Receipted'
    BY InOrderKept, ReceiptedKept, TypeOKParts DEF Base
<1>3. Base /\ InOrder /\ Receipted => DuesFollowStripe
  <2> SUFFICES ASSUME Base, InOrder, Receipted, events = <<>>, ~disordered, NEW s \in Subs,
                      remote[s].status # "none"
               PROVE  /\ remote[s].status # "incomplete" => sub[s].status = Mapped[remote[s].status]
                      /\ \A i \in Invoices : payment[s][i] = remote[s].invoices[i]
                      /\ remote[s].invoices[1] = "PAID" => receipt[s] \/ s \in byInvoice
      BY DEF DuesFollowStripe
  <2>1. Following(s)
      BY DEF InOrder
  <2>2. \A hits : None(events, hits)
      BY DEF None
  <2>3. \A i \in Invoices : payment[s][i] = remote[s].invoices[i]
      BY <2>1, <2>2 DEF Following
  <2> QED BY <2>1, <2>2, <2>3 DEF Following, Receipted, Invoices
<1> QED BY <1>1, <1>2, <1>3, BaseInit, BaseStep, PTL DEF Spec

=============================================================================
