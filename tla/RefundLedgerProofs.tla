------------------------- MODULE RefundLedgerProofs -------------------------
(***************************************************************************)
(* Proofs about the order's ledger in RefundLedger, for any refunds, total *)
(* and fee, any amounts, and whatever mishaps a behaviour has.             *)
(*                                                                         *)
(* The fee on the order is a function of the refunded total on it, because *)
(* both are written together; the rest is arithmetic about that function.  *)
(***************************************************************************)
EXTENDS RefundLedger, SumTheorems

USE ConstantsAssumption

Rows ==
    /\ DOMAIN refund = Refunds
    /\ \A r \in Refunds : DOMAIN refund[r] = {"status", "amount"} /\ refund[r].amount \in Nat

Ledger ==
    /\ order = [status |-> order.status, refunded |-> order.refunded, fee |-> order.fee]
    /\ order.refunded \in Nat
    /\ order.fee = FeeRefund(order.refunded)

IInv == Rows /\ Ledger /\ RefundedMeansAll

-----------------------------------------------------------------------------
(* Arithmetic *)

LEMMA MinOfTwo == \A a, b \in Int : Min({a, b}) = IF a <= b THEN a ELSE b
<1> SUFFICES ASSUME NEW a \in Int, NEW b \in Int
             PROVE  Min({a, b}) = IF a <= b THEN a ELSE b
    OBVIOUS
<1> DEFINE m == IF a <= b THEN a ELSE b
<1>1. m \in {a, b} /\ \A y \in {a, b} : m <= y
    OBVIOUS
<1>2. \A x \in {a, b} : (\A y \in {a, b} : x <= y) => x = m
    OBVIOUS
<1> QED BY <1>1, <1>2 DEF Min

LEMMA Division ==
  ASSUME NEW a \in Nat, NEW b \in Nat \ {0}
  PROVE  /\ a \div b \in Nat
         /\ b * (a \div b) <= a /\ a < b * (a \div b) + b
  OBVIOUS

LEMMA Product == \A a, b, c \in Nat : a * b \in Nat /\ (b <= c => a * b <= a * c)
  OBVIOUS

\* proportional_fee_refund, for a total that is not reached and one that is.
LEMMA FeeRefundBounds ==
  ASSUME NEW n \in Nat
  PROVE  LET share == 2 * Fee * Min({n, Total})
         IN  /\ FeeRefund(n) <= Fee /\ FeeRefund(n) \in Int
             /\ 2 * Total * FeeRefund(n) \in (share - Total)..(share + Total)
<1>1. Fee \in Nat /\ Total \in Nat \ {0}
    OBVIOUS
<1>2. CASE n >= Total
  <2>1. Min({n, Total}) = Total /\ FeeRefund(n) = Fee
      BY <1>1, <1>2, MinOfTwo DEF FeeRefund
  <2>2. 2 * Fee * Total \in Int /\ 2 * Total * Fee = 2 * Fee * Total
      BY <1>1
  <2> QED BY <1>1, <2>1, <2>2
<1>3. CASE n < Total
  <2> DEFINE p == Fee * n
             h == Total \div 2
             q == (p + h) \div Total
  <2>1. p \in Nat /\ p <= Fee * Total
      BY <1>1, <1>3, Product
  <2>2. h \in Nat /\ 2 * h <= Total /\ Total <= 2 * h + 1
      BY <1>1
  <2>3. q \in Nat /\ Total * q <= p + h /\ p + h < Total * q + Total
      BY <1>1, <2>1, <2>2, Division
  <2>4. q <= Fee
    <3> SUFFICES ASSUME Fee + 1 <= q PROVE FALSE
        BY <1>1, <2>3
    <3>1. Total * (Fee + 1) <= Total * q
        BY <1>1, <2>3, Product
    <3>2. Total * (Fee + 1) = Fee * Total + Total
        BY <1>1
    <3>3. Fee * Total \in Nat /\ Total * q \in Nat
        BY <1>1, <2>3, Product
    <3> HIDE DEF p, h, q
    <3> QED BY <1>1, <2>1, <2>2, <2>3, <3>1, <3>2, <3>3
  <2>5. FeeRefund(n) = q /\ Min({n, Total}) = n
      BY <1>1, <1>3, <2>3, <2>4, MinOfTwo DEF FeeRefund
  <2>6. 2 * Fee * n = 2 * p /\ 2 * Total * q = 2 * (Total * q) /\ Total * q \in Nat
      BY <1>1, <2>3, Product
  <2> HIDE DEF p, h, q
  <2>7. 2 * (Total * q) >= 2 * p - Total /\ 2 * (Total * q) <= 2 * p + Total
      BY <1>1, <2>1, <2>2, <2>3, <2>6
  <2> QED BY <1>1, <2>1, <2>3, <2>4, <2>5, <2>6, <2>7
<1> QED BY <1>1, <1>2, <1>3

-----------------------------------------------------------------------------
(* Steps *)

LEMMA InitIInv == Init => IInv
<1> SUFFICES ASSUME Init PROVE IInv
    OBVIOUS
<1>1. Rows
    BY DEF Init, Rows, NoRow
<1>2. FeeRefund(0) = 0
  <2>1. Total \in Nat \ {0} /\ Fee \in Nat
      BY DEF ConstantsAssumption
  <2>2. (Fee * 0 + Total \div 2) \div Total = 0
    <3> DEFINE h == Total \div 2
               q == h \div Total
    <3>1. h \in Nat /\ h < Total
        BY <2>1
    <3> HIDE DEF h
    <3>2. q \in Nat /\ Total * q <= h
        BY <2>1, <3>1, Division
    <3> HIDE DEF q
    <3>3. 1 <= q => Total * 1 <= Total * q
        BY <2>1, <3>2, Product
    <3>4. q = 0
        BY <2>1, <3>1, <3>2, <3>3
    <3>5. Fee * 0 + Total \div 2 = Total \div 2
        BY <2>1
    <3> QED BY <3>4, <3>5 DEF h, q
  <2>3. Min({Fee, 0}) = 0
      BY <2>1, MinOfTwo
  <2>4. FeeRefund(0) = Min({Fee, (Fee * 0 + Total \div 2) \div Total})
      BY <2>1 DEF FeeRefund
  <2> QED BY <2>2, <2>3, <2>4, Zenon
<1>3. Ledger
    BY <1>2 DEF Init, Ledger
<1>4. RefundedMeansAll
    BY DEF Init, RefundedMeansAll
<1> QED BY <1>1, <1>3, <1>4 DEF IInv

\* A snapshot changes a row's status and books the row's amount at most.
LEMMA ApplyIInv ==
  ASSUME IInv, NEW r \in Refunds, NEW status, Apply(r, status)
  PROVE  IInv'
<1>1. refund' = [refund EXCEPT ![r].status = status]
    BY DEF Apply
<1>2. Rows'
    BY <1>1 DEF IInv, Rows
<1>3. refund[r].amount \in Nat /\ order.refunded \in Nat
    BY DEF IInv, Rows, Ledger
<1>4. CASE ~Counts(r, status)
  <2>1. UNCHANGED <<order, tickets>>
      BY <1>4 DEF Apply
  <2> QED BY <1>2, <2>1 DEF IInv, Ledger, RefundedMeansAll
<1>5. CASE Counts(r, status)
  <2> DEFINE after == RefundedAfter(r)
  <2>1. after \in Nat
      BY <1>3 DEF RefundedAfter
  <2>2. /\ order' = [status |-> IF after >= Total THEN "REFUNDED" ELSE "PARTIALLY_REFUNDED",
                     refunded |-> after, fee |-> FeeRefund(after)]
        /\ tickets' = IF after >= Total THEN "REFUNDED" ELSE tickets
      BY <1>5 DEF Apply
  <2> HIDE DEF after
  <2>3. /\ order'.refunded = after /\ order'.fee = FeeRefund(after)
        /\ order'.status = "REFUNDED" => after >= Total
      BY <2>2
  <2>4. Ledger'
      BY <2>1, <2>2, <2>3 DEF Ledger
  <2>5. after >= Total => FeeRefund(after) = Fee
      BY DEF FeeRefund
  <2>6. RefundedMeansAll'
      BY <2>2, <2>3, <2>5 DEF RefundedMeansAll
  <2> QED BY <1>2, <2>4, <2>6 DEF IInv
<1> QED BY <1>4, <1>5

\* Asking for a refund, and giving up on one, leave the ledger alone.
LEMMA RowIInv ==
  ASSUME IInv, NEW r \in Refunds,
         (\E amount \in Amounts : PrepareRefund(r, amount)) \/ SubmissionFailed(r)
  PROVE  IInv'
<1>1. UNCHANGED <<order, tickets>>
    BY DEF PrepareRefund, SubmissionFailed
<1>2. Rows'
  <2>1. CASE \E amount \in Amounts : PrepareRefund(r, amount)
    <3>1. PICK amount \in Amounts :
              refund' = [refund EXCEPT ![r] = [status |-> "PENDING", amount |-> amount]]
        BY <2>1 DEF PrepareRefund
    <3>2. amount \in Nat
        BY DEF ConstantsAssumption
    <3> QED BY <3>1, <3>2 DEF IInv, Rows
  <2>2. CASE SubmissionFailed(r)
      BY <2>2 DEF SubmissionFailed, IInv, Rows
  <2> QED BY <2>1, <2>2
<1> QED BY <1>1, <1>2 DEF IInv, Ledger, RefundedMeansAll

\* A dispute replaces the order's status, and never by REFUNDED.
LEMMA DisputeIInv ==
  ASSUME IInv, NEW notice, DeliverDispute(notice)
  PROVE  IInv'
<1>1. PICK to \in {"PAID", "DISPUTED"} : order' = [order EXCEPT !.status = to]
    BY DEF DeliverDispute
<1>2. UNCHANGED <<tickets, refund>>
    BY DEF DeliverDispute
<1>3. /\ order' = [status |-> order'.status, refunded |-> order'.refunded, fee |-> order'.fee]
      /\ order'.status = to /\ order'.refunded = order.refunded /\ order'.fee = order.fee
    BY <1>1 DEF IInv, Ledger
<1> QED BY <1>2, <1>3 DEF IInv, Rows, Ledger, RefundedMeansAll

LEMMA NextIInv == IInv /\ [Next]_vars => IInv'
<1> SUFFICES ASSUME IInv, [Next]_vars PROVE IInv'
    OBVIOUS
<1>1. CASE \E r \in Refunds :
              (\E amount \in Amounts : PrepareRefund(r, amount)) \/ SubmissionFailed(r)
    BY <1>1, RowIInv
<1>2. CASE \E r \in Refunds : SubmissionApplied(r) \/ \E v \in 1..MaxVersions : Deliver(r, v)
    BY <1>2, ApplyIInv DEF SubmissionApplied, Deliver
<1>3. CASE \E notice \in {"created", "won", "lost"} : DeliverDispute(notice)
    BY <1>3, DisputeIInv
<1>4. CASE UNCHANGED <<order, tickets, refund>>
    BY <1>4 DEF IInv, Rows, Ledger, RefundedMeansAll
<1>5. \/ \E r \in Refunds : StripeRejects(r) \/ WorkerDies(r)
      \/ \E r \in Refunds, s \in {"PENDING", "SUCCEEDED"} : StripeAccepts(r, s)
      \/ \E r \in Refunds, s \in Statuses : StripeUpdates(r, s)
      \/ StripeDisputes \/ StripeClosesDispute \/ UNCHANGED vars
      => UNCHANGED <<order, tickets, refund>>
    BY DEF StripeRejects, WorkerDies, StripeAccepts, StripeUpdates, StripeDisputes,
           StripeClosesDispute, vars
<1> QED BY <1>1, <1>2, <1>3, <1>4, <1>5 DEF Next

-----------------------------------------------------------------------------
(* The sum of the succeeded refunds *)

Amount == [r \in Refunds |-> refund[r].amount]

LEMMA SumOfSucceeded ==
  ASSUME Rows
  PROVE  /\ SumOf(Succeeded) = SumFunctionOnSet(Amount, Succeeded)
         /\ Measures(Amount, Refunds)
         /\ \A rows \in SUBSET Refunds : Measures(Amount, rows)
<1>1. SumOf(Succeeded) = SumFunctionOnSet(Amount, Succeeded)
    BY DEF SumOf, Amount
<1>2. IsFiniteSet(Refunds) /\ \A rows \in SUBSET Refunds : IsFiniteSet(rows)
    BY FS_Subset
<1> QED BY <1>1, <1>2 DEF Measures, Amount, Rows

\* A row whose status alone is replaced: its amount joins the sum, leaves it or neither.
LEMMA StatusWritten ==
  ASSUME Rows, NEW r \in Refunds, NEW status, refund' = [refund EXCEPT ![r].status = status]
  PROVE  /\ Amount' = Amount
         /\ status = "SUCCEEDED" => Succeeded' = Succeeded \union {r}
         /\ status # "SUCCEEDED" => Succeeded' = Succeeded \ {r}
<1>1. /\ DOMAIN refund' = Refunds
      /\ \A x \in Refunds : refund'[x].amount = refund[x].amount
      /\ \A x \in Refunds : refund'[x].status = IF x = r THEN status ELSE refund[x].status
    BY DEF Rows
<1> QED BY <1>1 DEF Amount, Succeeded

\* What an applied snapshot does to the sum and to the ledger.
LEMMA ApplySum ==
  ASSUME IInv, NEW r \in Refunds, NEW status, Apply(r, status)
  PROVE  /\ Counts(r, status) =>
              /\ SumOf(Succeeded)' = SumOf(Succeeded) + refund[r].amount
              /\ order'.refunded = order.refunded + refund[r].amount
         /\ ~Counts(r, status) =>
              /\ SumOf(Succeeded)' <= SumOf(Succeeded) /\ order' = order
              /\ (r \in Succeeded => status = "SUCCEEDED") => SumOf(Succeeded)' = SumOf(Succeeded)
         /\ SumOf(Succeeded)' \in Nat
<1>1. Rows /\ Rows'
    BY ApplyIInv DEF IInv
<1>2. /\ Amount' = Amount
      /\ status = "SUCCEEDED" => Succeeded' = Succeeded \union {r}
      /\ status # "SUCCEEDED" => Succeeded' = Succeeded \ {r}
    BY <1>1, StatusWritten DEF Apply
<1>3. /\ SumOf(Succeeded) = SumFunctionOnSet(Amount, Succeeded)
      /\ Measures(Amount, Succeeded)
    BY <1>1, SumOfSucceeded DEF Succeeded
<1>4. /\ SumOf(Succeeded)' = SumFunctionOnSet(Amount, Succeeded')
      /\ Measures(Amount, Succeeded')
  <2>1. (SumOf(Succeeded) = SumFunctionOnSet(Amount, Succeeded))'
      BY DEF SumOf, Amount
  <2>2. Succeeded' \subseteq Refunds
      BY DEF Succeeded
  <2>3. Measures(Amount, Succeeded')
      BY <1>1, <2>2, SumOfSucceeded
  <2> QED BY <1>2, <2>1, <2>3
<1>5. refund[r].amount \in Nat /\ Amount[r] = refund[r].amount
    BY <1>1 DEF Rows, Amount
<1>6. SumOf(Succeeded)' \in Nat
    BY <1>4, SumNat
<1>7. CASE Counts(r, status)
  <2>1. status = "SUCCEEDED" /\ r \notin Succeeded
      BY <1>7 DEF Counts, Succeeded
  <2>2. SumFunctionOnSet(Amount, Succeeded \union {r})
          = SumFunctionOnSet(Amount, Succeeded) + Amount[r]
      BY <1>3, <1>5, <2>1, SumAdd
  <2>3. order'.refunded = order.refunded + refund[r].amount
      BY <1>7 DEF Apply, RefundedAfter
  <2>4. SumOf(Succeeded)' = SumFunctionOnSet(Amount, Succeeded \union {r})
      BY <1>2, <1>4, <2>1
  <2> QED BY <1>3, <1>5, <1>6, <1>7, <2>2, <2>3, <2>4, Zenon
<1>8. CASE ~Counts(r, status)
  <2>1. order' = order
      BY <1>8 DEF Apply
  <2>2. Succeeded' \subseteq Succeeded
        /\ ((r \in Succeeded => status = "SUCCEEDED") => Succeeded' = Succeeded)
    <3>1. status = "SUCCEEDED" => r \in Succeeded
        BY <1>8 DEF Counts, Succeeded
    <3> QED BY <1>2, <3>1
  <2>3. SumFunctionOnSet(Amount, Succeeded') <= SumFunctionOnSet(Amount, Succeeded)
      BY <1>3, <2>2, SumMonotone
  <2> QED BY <1>3, <1>4, <1>6, <1>8, <2>1, <2>2, <2>3
<1> QED BY <1>7, <1>8

LEMMA Invariant == Spec => []IInv
  BY InitIInv, NextIInv, PTL DEF Spec

\* An order that says REFUNDED has its total, its fee and its tickets back, under every
\* mishap: only the refund that reaches the total writes that status.
THEOREM RefundLedgerRefundedMeansAll == Spec => []RefundedMeansAll
<1>1. IInv => RefundedMeansAll
    BY DEF IInv
<1> QED BY Invariant, <1>1, PTL

\* However refunds are cut, repeated or reordered, the fee returned is within half a cent
\* of the exact share of what the ledger says, and never above the fee.
THEOREM RefundLedgerFeeFollowsLedger == Spec => []FeeFollowsLedger
<1>1. IInv => FeeFollowsLedger
  <2> SUFFICES ASSUME IInv PROVE FeeFollowsLedger
      OBVIOUS
  <2>1. order.refunded \in Nat /\ order.fee = FeeRefund(order.refunded)
      BY DEF IInv, Ledger
  <2> QED BY <2>1, FeeRefundBounds DEF FeeFollowsLedger
<1> QED BY Invariant, <1>1, PTL

-----------------------------------------------------------------------------
(* The ledger against the succeeded refunds, under every mishap *)

SumInv == IInv /\ NeverUnderstated

LEMMA InitSum == Init => IInv /\ SumOf(Succeeded) = 0 /\ order.refunded = 0
<1> SUFFICES ASSUME Init
             PROVE  IInv /\ SumOf(Succeeded) = 0 /\ order.refunded = 0
    OBVIOUS
<1>1. Succeeded = {}
    BY DEF Init, Succeeded, NoRow
<1>2. SumOf({}) = 0
    BY SumEmpty DEF SumOf
<1> QED BY <1>1, <1>2, InitIInv DEF Init

\* A refund that is asked for counts nowhere yet.
LEMMA PrepareSum ==
  ASSUME IInv, NEW r \in Refunds, NEW amount \in Amounts, PrepareRefund(r, amount)
  PROVE  SumOf(Succeeded)' = SumOf(Succeeded) /\ order' = order /\ Succeeded' = Succeeded
<1>1. Rows /\ Rows'
    BY RowIInv DEF IInv
<1>2. Succeeded' = Succeeded /\ \A x \in Succeeded : Amount'[x] = Amount[x]
  <2>1. /\ refund' = [refund EXCEPT ![r] = [status |-> "PENDING", amount |-> amount]]
        /\ refund[r].status = "NONE"
      BY DEF PrepareRefund
  <2>2. Succeeded' = Succeeded
      BY <1>1, <2>1 DEF Succeeded, Rows
  <2>3. \A x \in Refunds \ {r} : Amount'[x] = Amount[x]
      BY <1>1, <2>1 DEF Amount, Rows
  <2> QED BY <2>1, <2>2, <2>3 DEF Succeeded
<1>3. SumOf(Succeeded) = SumFunctionOnSet(Amount, Succeeded) /\ Measures(Amount, Succeeded)
    BY <1>1, SumOfSucceeded DEF Succeeded
<1>4. (SumOf(Succeeded) = SumFunctionOnSet(Amount, Succeeded))'
    BY DEF SumOf, Amount
<1>5. SumFunctionOnSet(Amount, Succeeded) = SumFunctionOnSet(Amount', Succeeded)
    BY <1>2, <1>3, SumSame
<1> QED BY <1>2, <1>3, <1>4, <1>5 DEF PrepareRefund

\* The handler of a failed call takes its row out of the sum, if it was in.
LEMMA FailureSum ==
  ASSUME IInv, NEW r \in Refunds, SubmissionFailed(r)
  PROVE  /\ SumOf(Succeeded)' \in Nat /\ SumOf(Succeeded)' <= SumOf(Succeeded)
         /\ r \notin Succeeded => SumOf(Succeeded)' = SumOf(Succeeded)
         /\ order' = order /\ Succeeded' = Succeeded \ {r}
<1>1. Rows
    BY DEF IInv
<1>2. Amount' = Amount /\ Succeeded' = Succeeded \ {r}
    BY <1>1, StatusWritten DEF SubmissionFailed
<1>3. SumOf(Succeeded) = SumFunctionOnSet(Amount, Succeeded) /\ Measures(Amount, Succeeded)
      /\ Measures(Amount, Succeeded \ {r})
    BY <1>1, SumOfSucceeded DEF Succeeded
<1>4. SumOf(Succeeded)' = SumFunctionOnSet(Amount, Succeeded \ {r})
    BY <1>2 DEF SumOf, Amount
<1>5. SumFunctionOnSet(Amount, Succeeded \ {r}) <= SumFunctionOnSet(Amount, Succeeded)
    BY <1>3, SumMonotone
<1>6. SumFunctionOnSet(Amount, Succeeded \ {r}) \in Nat
    BY <1>3, SumNat
<1>7. r \notin Succeeded => Succeeded \ {r} = Succeeded
    OBVIOUS
<1> QED BY <1>2, <1>3, <1>4, <1>5, <1>6, <1>7 DEF SubmissionFailed

\* Everything else leaves the rows alone, and the ledger.
LEMMA OtherSteps ==
  ASSUME [Next]_vars
  PROVE  \/ \E r \in Refunds, amount \in Amounts : PrepareRefund(r, amount)
         \/ \E r \in Refunds : SubmissionFailed(r)
         \/ \E r \in Refunds : \E status : Apply(r, status)
         \/ UNCHANGED refund /\ order'.refunded = order.refunded
         \/ UNCHANGED refund /\ \E notice : DeliverDispute(notice)
  BY DEF Next, StripeRejects, WorkerDies, StripeAccepts, StripeUpdates, StripeDisputes,
         StripeClosesDispute, vars, SubmissionApplied, Deliver, DeliverDispute

LEMMA NextSumInv == SumInv /\ [Next]_vars => SumInv'
<1> SUFFICES ASSUME SumInv, [Next]_vars PROVE SumInv'
    OBVIOUS
<1>1. IInv /\ IInv' /\ SumOf(Succeeded) <= order.refunded
    BY NextIInv DEF SumInv, NeverUnderstated
<1>2. SumOf(Succeeded) \in Nat /\ order.refunded \in Nat
    BY <1>1, SumOfSucceeded, SumNat DEF IInv, Ledger, Succeeded
<1>3. SumOf(Succeeded)' <= order'.refunded
  <2>1. CASE \E r \in Refunds, amount \in Amounts : PrepareRefund(r, amount)
      BY <1>1, <2>1, PrepareSum
  <2>2. CASE \E r \in Refunds : SubmissionFailed(r)
      BY <1>1, <1>2, <2>2, FailureSum
  <2>3. CASE \E r \in Refunds : \E status : Apply(r, status)
    <3>1. PICK r, status : r \in Refunds /\ Apply(r, status)
        BY <2>3
    <3>2. refund[r].amount \in Nat
        BY <1>1, <3>1 DEF IInv, Rows
    <3> QED BY <1>1, <1>2, <3>1, <3>2, ApplySum
  <2>4. CASE UNCHANGED refund /\ order'.refunded = order.refunded
      BY <1>1, <2>4 DEF SumOf, Succeeded
  <2>5. CASE UNCHANGED refund /\ \E notice : DeliverDispute(notice)
    <3>1. order'.refunded = order.refunded
        BY <1>1, <2>5 DEF DeliverDispute, IInv, Ledger
    <3> QED BY <1>1, <2>5, <3>1 DEF SumOf, Succeeded
  <2> QED BY <2>1, <2>2, <2>3, <2>4, <2>5, OtherSteps
<1> QED BY <1>1, <1>3 DEF SumInv, NeverUnderstated

\* No succeeded refund is missing from the ledger, whichever snapshots are lost, late or
\* repeated and whichever workers die: each application adds its own amount to what it finds.
THEOREM RefundLedgerNeverUnderstated == Spec => []NeverUnderstated
<1>1. Init => SumInv
    BY InitSum DEF SumInv, NeverUnderstated
<1>2. SumInv => NeverUnderstated
    BY DEF SumInv
<1> QED BY <1>1, <1>2, NextSumInv, PTL DEF Spec

-----------------------------------------------------------------------------
(* The ledger is the sum, in order *)

\* What Stripe reported, and which reports are still under way.
Snapshots ==
    /\ history \in [Refunds -> Seq(Statuses)]
    /\ sent \in [Refunds -> SUBSET Nat]
    /\ \A r \in Refunds : sent[r] \subseteq 1..Len(history[r])

\* Stripe knows a refund only through a request that has its row.
Requests ==
    /\ worker \in [Refunds -> {"idle", "calling", "answered", "error", "done", "died"}]
    /\ \A r \in Refunds : refund[r].status = "NONE" => worker[r] = "idle"
    /\ \A r \in Refunds : worker[r] \in {"idle", "calling", "error"} => ~Submitted(r)
    /\ \A r \in Refunds : worker[r] = "answered" => Submitted(r)

\* A success is never followed by anything else.
Forward ==
    \A r \in Refunds : \A u, v \in 1..Len(history[r]) :
        u <= v /\ history[r][u] = "SUCCEEDED" => history[r][v] = "SUCCEEDED"

\* Once a success is booked, whatever is still to be applied says so too.
Booked ==
    \A r \in Succeeded :
        /\ Submitted(r) /\ Current(r) = "SUCCEEDED"
        /\ \A v \in sent[r] : history[r][v] = "SUCCEEDED"
        /\ worker[r] = "answered" => history[r][1] = "SUCCEEDED"

Story == Snapshots /\ Requests /\ Forward /\ Booked

LEMMA InitStory == Init => Story
  BY DEF Init, Story, Snapshots, Requests, Forward, Booked, Submitted, Succeeded, NoRow

\* The admin asks.
LEMMA PrepareStory ==
  ASSUME IInv, Story, NEW r \in Refunds, NEW amount \in Amounts, PrepareRefund(r, amount)
  PROVE  Story'
<1>1. Succeeded' = Succeeded /\ Rows /\ Rows'
    BY PrepareSum, RowIInv DEF IInv
<1>2. /\ worker' = [worker EXCEPT ![r] = "calling"] /\ worker[r] = "idle"
      /\ r \notin Succeeded
      /\ UNCHANGED <<history, sent>>
    BY DEF PrepareRefund, Story, Requests, Succeeded
<1>3. Snapshots' /\ Forward'
    BY <1>2 DEF Story, Snapshots, Forward
<1>4. Requests'
    BY <1>1, <1>2 DEF Story, Requests, Submitted, PrepareRefund, Rows
<1>5. Booked'
    BY <1>1, <1>2 DEF Story, Booked, Requests, Submitted, Current, Succeeded
<1> QED BY <1>3, <1>4, <1>5 DEF Story

\* Stripe takes the request on: no timeout, so the answer reaches the worker.
LEMMA AcceptStory ==
  ASSUME IInv, Story, InOrder, NEW r \in Refunds, NEW status \in {"PENDING", "SUCCEEDED"},
         StripeAccepts(r, status)
  PROVE  Story'
<1>1. /\ worker[r] = "calling" /\ worker' = [worker EXCEPT ![r] = "answered"]
      /\ history' = [history EXCEPT ![r] = <<status>>] /\ sent' = [sent EXCEPT ![r] = {1}]
      /\ UNCHANGED refund
    BY DEF StripeAccepts, InOrder
<1>2. r \notin Succeeded /\ refund[r].status # "NONE"
    BY <1>1 DEF Story, Requests, Booked
<1>3. /\ history'[r] = <<status>> /\ \A x \in Refunds \ {r} : history'[x] = history[x]
      /\ sent'[r] = {1} /\ \A x \in Refunds \ {r} : sent'[x] = sent[x]
      /\ worker'[r] = "answered" /\ \A x \in Refunds \ {r} : worker'[x] = worker[x]
    BY <1>1 DEF Story, Snapshots, Requests
<1>4. <<status>> \in Seq(Statuses) /\ Len(<<status>>) = 1 /\ <<status>>[1] = status
      /\ <<status>> # <<>>
    BY DEF Statuses
<1>5. Snapshots'
    BY <1>1, <1>3, <1>4 DEF Story, Snapshots
<1>6. Requests'
    BY <1>1, <1>2, <1>3 DEF Story, Requests, Submitted
<1>7. Forward'
    BY <1>3, <1>4 DEF Story, Forward
<1>8. Booked'
    BY <1>1, <1>2, <1>3 DEF Story, Booked, Submitted, Current, Succeeded
<1> QED BY <1>5, <1>6, <1>7, <1>8 DEF Story

\* The call fails, or the process dies, or the handler writes FAILED.
LEMMA EndStory ==
  ASSUME IInv, Story, NEW r \in Refunds,
         StripeRejects(r) \/ WorkerDies(r) \/ SubmissionFailed(r)
  PROVE  Story'
<1>1. PICK to \in {"error", "died", "done"} :
         /\ worker' = [worker EXCEPT ![r] = to]
         /\ to = "error" => worker[r] = "calling"
         /\ worker[r] # "idle"
    BY DEF StripeRejects, WorkerDies, SubmissionFailed
<1>2. UNCHANGED <<history, sent>>
      /\ (refund' = refund \/ refund' = [refund EXCEPT ![r].status = "FAILED"])
    BY DEF StripeRejects, WorkerDies, SubmissionFailed
<1>3. Snapshots' /\ Forward'
    BY <1>2 DEF Story, Snapshots, Forward
<1>4. /\ Succeeded' \subseteq Succeeded
      /\ \A x \in Refunds : refund'[x].status = "NONE" => refund[x].status = "NONE"
    BY <1>2 DEF IInv, Rows, Succeeded
<1>5. Requests'
    BY <1>1, <1>2, <1>4 DEF Story, Requests, Submitted
<1>6. Booked'
    BY <1>1, <1>2, <1>4 DEF Story, Booked, Requests, Submitted, Current, Succeeded
<1> QED BY <1>3, <1>5, <1>6 DEF Story

\* Stripe takes a new snapshot: in order, only a success follows a success.
LEMMA UpdateStory ==
  ASSUME IInv, Story, InOrder, NEW r \in Refunds, NEW status \in Statuses,
         StripeUpdates(r, status)
  PROVE  Story'
<1> DEFINE n == Len(history[r])
<1>1. /\ Submitted(r) /\ (Current(r) = "SUCCEEDED" => status = "SUCCEEDED")
      /\ history' = [history EXCEPT ![r] = Append(@, status)]
      /\ sent' = [sent EXCEPT ![r] = @ \union {n + 1}]
      /\ UNCHANGED <<refund, worker>>
    BY DEF StripeUpdates, Follows, InOrder
<1>2. /\ history'[r] = Append(history[r], status)
      /\ \A x \in Refunds \ {r} : history'[x] = history[x]
      /\ sent'[r] = sent[r] \union {n + 1} /\ \A x \in Refunds \ {r} : sent'[x] = sent[x]
    BY <1>1 DEF Story, Snapshots
<1>3. /\ n \in Nat /\ n >= 1 /\ Len(history'[r]) = n + 1 /\ history'[r][n + 1] = status
      /\ \A v \in 1..n : history'[r][v] = history[r][v]
      /\ history'[r] \in Seq(Statuses) /\ history'[r] # <<>>
    BY <1>1, <1>2 DEF Story, Snapshots, Submitted
<1>4. Current(r) = history[r][n]
    BY DEF Current
<1> HIDE DEF n
<1>5. Snapshots'
    BY <1>1, <1>2, <1>3 DEF Story, Snapshots, n
<1>6. Requests'
    BY <1>1, <1>2, <1>3 DEF Story, Requests, Submitted
<1>7. Forward'
  <2>1. ASSUME NEW u \in 1..n, history[r][u] = "SUCCEEDED"
        PROVE  status = "SUCCEEDED" /\ \A v \in 1..n : u <= v => history[r][v] = "SUCCEEDED"
      BY <1>1, <1>3, <1>4, <2>1 DEF Story, Forward, n
  <2>2. \A u, v \in 1..(n + 1) :
            u <= v /\ history'[r][u] = "SUCCEEDED" => history'[r][v] = "SUCCEEDED"
    <3> SUFFICES ASSUME NEW u \in 1..(n + 1), NEW v \in 1..(n + 1), u <= v,
                        history'[r][u] = "SUCCEEDED"
                 PROVE  history'[r][v] = "SUCCEEDED"
        OBVIOUS
    <3>1. CASE u = n + 1
      <4>1. v = n + 1
          BY <1>3, <3>1
      <4> QED BY <1>3, <3>1, <4>1
    <3>2. CASE u # n + 1
      <4>1. u \in 1..n /\ (v \in 1..n \/ v = n + 1)
          BY <1>3, <3>2
      <4> QED BY <1>3, <2>1, <4>1
    <3> QED BY <3>1, <3>2
  <2>3. ASSUME NEW x \in Refunds
        PROVE  \A u, v \in 1..Len(history'[x]) :
                   u <= v /\ history'[x][u] = "SUCCEEDED" => history'[x][v] = "SUCCEEDED"
    <3>1. CASE x = r
        BY <1>3, <2>2, <3>1
    <3>2. CASE x # r
      <4>1. history'[x] = history[x]
          BY <1>2, <3>2
      <4> QED BY <4>1 DEF Story, Forward
    <3> QED BY <3>1, <3>2
  <2> QED BY <2>3 DEF Forward
<1>8. Booked'
  <2>1. Succeeded' = Succeeded
      BY <1>1 DEF Succeeded
  <2>2. ASSUME r \in Succeeded
        PROVE  /\ history'[r] # <<>> /\ history'[r][Len(history'[r])] = "SUCCEEDED"
               /\ \A v \in sent'[r] : history'[r][v] = "SUCCEEDED"
               /\ worker[r] = "answered" => history'[r][1] = "SUCCEEDED"
    <3>1. status = "SUCCEEDED" /\ sent[r] \subseteq 1..n
        BY <1>1, <2>2 DEF Story, Booked, Snapshots, n
    <3>2. \A v \in sent'[r] : v = n + 1 \/ (v \in 1..n /\ history[r][v] = "SUCCEEDED")
        BY <1>2, <2>2, <3>1 DEF Story, Booked
    <3>3. 1 \in 1..n /\ history'[r][1] = history[r][1]
        BY <1>3
    <3>4. worker[r] = "answered" => history[r][1] = "SUCCEEDED"
        BY <2>2 DEF Story, Booked
    <3> QED BY <1>3, <3>1, <3>2, <3>3, <3>4
  <2>3. ASSUME NEW x \in Succeeded, x # r
        PROVE  /\ history'[x] # <<>> /\ history'[x][Len(history'[x])] = "SUCCEEDED"
               /\ \A v \in sent'[x] : history'[x][v] = "SUCCEEDED"
               /\ worker[x] = "answered" => history'[x][1] = "SUCCEEDED"
    <3>1. history'[x] = history[x] /\ sent'[x] = sent[x]
        BY <1>2, <2>3 DEF Succeeded
    <3>2. /\ history[x] # <<>> /\ history[x][Len(history[x])] = "SUCCEEDED"
          /\ \A v \in sent[x] : history[x][v] = "SUCCEEDED"
          /\ worker[x] = "answered" => history[x][1] = "SUCCEEDED"
        BY DEF Story, Booked, Submitted, Current
    <3> QED BY <3>1, <3>2
  <2>4. worker' = worker
      BY <1>1
  <2> QED BY <2>1, <2>2, <2>3, <2>4 DEF Booked, Submitted, Current
<1> QED BY <1>5, <1>6, <1>7, <1>8 DEF Story

\* A snapshot is applied that is not older than any still to come.
LEMMA ApplyStory ==
  ASSUME IInv, Story, InOrder, NEW r \in Refunds,
         SubmissionApplied(r) \/ \E v \in 1..MaxVersions : Deliver(r, v)
  PROVE  /\ Story'
         /\ \E status \in Statuses :
              Apply(r, status) /\ (r \in Succeeded => status = "SUCCEEDED")
<1>1. PICK v \in 1..Len(history[r]) :
         /\ Apply(r, history[r][v])
         /\ \A u \in sent'[r] : v <= u
         /\ worker'[r] = "answered" => v = 1
         /\ r \in Succeeded => history[r][v] = "SUCCEEDED"
  <2>1. CASE SubmissionApplied(r)
    <3>1. /\ worker[r] = "answered" /\ Apply(r, history[r][1])
          /\ worker'[r] = "done" /\ sent' = sent
        BY <2>1 DEF SubmissionApplied, Story, Requests
    <3>2. r \in Succeeded => Submitted(r) /\ history[r][1] = "SUCCEEDED"
        BY <3>1 DEF Story, Booked
    <3>3. CASE Submitted(r)
      <4>1. Len(history[r]) \in Nat /\ Len(history[r]) >= 1
          BY <3>3 DEF Story, Snapshots, Submitted
      <4>2. \A u \in sent[r] : 1 <= u
          BY DEF Story, Snapshots
      <4> QED BY <3>1, <3>2, <4>1, <4>2
    <3> QED BY <3>1, <3>3 DEF Story, Requests
  <2>2. CASE \E v \in 1..MaxVersions : Deliver(r, v)
    <3>1. PICK v \in sent[r] :
             /\ Apply(r, history[r][v])
             /\ \A u \in sent[r] : v <= u
             /\ v = 1 \/ worker[r] # "answered"
             /\ sent'[r] \subseteq sent[r] /\ worker' = worker
        BY <2>2 DEF Deliver, InOrder, Story, Snapshots
    <3>2. v \in 1..Len(history[r]) /\ (r \in Succeeded => history[r][v] = "SUCCEEDED")
        BY DEF Story, Snapshots, Booked
    <3> QED BY <3>1, <3>2
  <2> QED BY <2>1, <2>2
<1>2. /\ sent' \in [Refunds -> SUBSET Nat] /\ sent'[r] \subseteq sent[r] /\ history' = history
      /\ \A x \in Refunds \ {r} : sent'[x] = sent[x] /\ worker'[x] = worker[x]
      /\ worker' = worker \/ worker' = [worker EXCEPT ![r] = "done"]
    BY DEF SubmissionApplied, Deliver, Story, Snapshots, Requests
<1>3. history[r] \in Seq(Statuses) /\ history[r][v] \in Statuses
    BY DEF Story, Snapshots
<1> DEFINE status == history[r][v]
<1>4. /\ status = "SUCCEEDED" => Succeeded' = Succeeded \union {r}
      /\ status # "SUCCEEDED" => Succeeded' = Succeeded \ {r}
      /\ \A x \in Refunds \ {r} : refund'[x] = refund[x]
      /\ refund'[r].status = status
    BY <1>1, StatusWritten DEF Apply, IInv, Rows
<1>5. Snapshots'
    BY <1>2 DEF Story, Snapshots
<1>6. Forward'
    BY <1>2 DEF Story, Forward
<1>7. Requests'
    BY <1>2, <1>3, <1>4 DEF Story, Requests, Submitted, Statuses
<1>8. Booked'
  <2>1. ASSUME status = "SUCCEEDED"
        PROVE  /\ Submitted(r) /\ Current(r) = "SUCCEEDED"
               /\ \A u \in sent'[r] : history[r][u] = "SUCCEEDED"
               /\ worker'[r] = "answered" => history[r][1] = "SUCCEEDED"
    <3>1. \A u \in 1..Len(history[r]) : v <= u => history[r][u] = "SUCCEEDED"
        BY <2>1 DEF Story, Forward
    <3>2. Len(history[r]) \in 1..Len(history[r]) /\ v <= Len(history[r])
        BY <1>3
    <3>3. sent'[r] \subseteq 1..Len(history[r])
        BY <1>2 DEF Story, Snapshots
    <3>4. history[r] # <<>>
        BY <1>3
    <3> QED BY <1>1, <2>1, <3>1, <3>2, <3>3, <3>4 DEF Submitted, Current
  <2> HIDE DEF status
  <2>2. \A x \in Succeeded' : x = r => status = "SUCCEEDED"
      BY <1>4
  <2>3. \A x \in Succeeded' : x # r => x \in Succeeded /\ x \in Refunds \ {r}
      BY <1>4 DEF Succeeded
  <2> QED BY <1>2, <2>1, <2>2, <2>3 DEF Story, Booked, Submitted, Current
<1> QED BY <1>1, <1>3, <1>5, <1>6, <1>7, <1>8 DEF Story

\* The invariant: in order, every application of a success books it once.
OrderInv == IInv /\ mishaps \in Days /\ (InOrder => Story /\ order.refunded = SumOf(Succeeded))

LEMMA NextOrderInv == OrderInv /\ [Next]_vars => OrderInv'
<1> SUFFICES ASSUME OrderInv, [Next]_vars PROVE OrderInv'
    OBVIOUS
<1>1. IInv /\ IInv' /\ mishaps' = mishaps
    BY NextIInv DEF OrderInv, Next, vars
<1>2. ASSUME InOrder
      PROVE  Story' /\ order'.refunded = SumOf(Succeeded)'
  <2>1. Story /\ order.refunded = SumOf(Succeeded)
      BY <1>2 DEF OrderInv
  <2>2. CASE \E r \in Refunds, amount \in Amounts : PrepareRefund(r, amount)
      BY <1>1, <2>1, <2>2, PrepareStory, PrepareSum
  <2>3. CASE \E r \in Refunds : SubmissionFailed(r)
    <3>1. PICK r \in Refunds : SubmissionFailed(r)
        BY <2>3
    <3>2. r \notin Succeeded
        BY <2>1, <3>1 DEF SubmissionFailed, Story, Requests, Booked
    <3> QED BY <1>1, <2>1, <3>1, <3>2, EndStory, FailureSum
  <2>4. CASE \E r \in Refunds : SubmissionApplied(r) \/ \E v \in 1..MaxVersions : Deliver(r, v)
    <3>1. PICK r \in Refunds : SubmissionApplied(r) \/ \E v \in 1..MaxVersions : Deliver(r, v)
        BY <2>4
    <3>2. PICK status \in Statuses : Apply(r, status) /\ (r \in Succeeded => status = "SUCCEEDED")
        BY <1>1, <1>2, <2>1, <3>1, ApplyStory
    <3>3. Story'
        BY <1>1, <1>2, <2>1, <3>1, ApplyStory
    <3> QED BY <1>1, <2>1, <3>2, <3>3, ApplySum
  <2>5. CASE \E r \in Refunds : StripeRejects(r) \/ WorkerDies(r)
    <3>1. UNCHANGED <<order, refund>>
        BY <2>5 DEF StripeRejects, WorkerDies
    <3> QED BY <1>1, <2>1, <2>5, <3>1, EndStory DEF SumOf, Succeeded
  <2>6. CASE \E r \in Refunds, s \in {"PENDING", "SUCCEEDED"} : StripeAccepts(r, s)
    <3>1. UNCHANGED <<order, refund>>
        BY <2>6 DEF StripeAccepts
    <3> QED BY <1>1, <1>2, <2>1, <2>6, <3>1, AcceptStory DEF SumOf, Succeeded
  <2>7. CASE \E r \in Refunds, s \in Statuses : StripeUpdates(r, s)
    <3>1. UNCHANGED <<order, refund>>
        BY <2>7 DEF StripeUpdates
    <3> QED BY <1>1, <1>2, <2>1, <2>7, <3>1, UpdateStory DEF SumOf, Succeeded
  <2>8. CASE UNCHANGED <<refund, worker, history, sent>> /\ order'.refunded = order.refunded
      BY <2>1, <2>8 DEF Story, Snapshots, Requests, Forward, Booked, Submitted, Current,
                        SumOf, Succeeded
  <2>9. StripeDisputes \/ StripeClosesDispute \/ UNCHANGED vars
          \/ (\E notice : DeliverDispute(notice))
        => UNCHANGED <<refund, worker, history, sent>> /\ order'.refunded = order.refunded
      BY <1>1 DEF StripeDisputes, StripeClosesDispute, vars, DeliverDispute, IInv, Ledger
  <2> QED BY <2>2, <2>3, <2>4, <2>5, <2>6, <2>7, <2>8, <2>9 DEF Next
<1> QED BY <1>1, <1>2 DEF OrderInv, InOrder

\* As long as snapshots are applied in order, each event once, no call fails that Stripe has
\* carried out and the bank returns nothing, the ledger is the sum of the succeeded refunds:
\* a success once booked is never taken back or counted a second time, whichever of the
\* answer and the events brings it, however many refunds run at once and whoever dies.
THEOREM RefundLedgerRefundedIsSum == Spec => []RefundedIsSumOfSuccessful
<1>1. Init => OrderInv
    BY InitSum, InitStory DEF OrderInv, Init
<1>2. OrderInv => RefundedIsSumOfSuccessful
    BY DEF OrderInv, RefundedIsSumOfSuccessful
<1> QED BY <1>1, <1>2, NextOrderInv, PTL DEF Spec

=============================================================================
