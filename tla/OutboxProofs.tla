---------------------------- MODULE OutboxProofs ----------------------------
(***************************************************************************)
(* Proofs about Outbox, for any number of workers and attempts, any events *)
(* and either kind of provider.                                            *)
(*                                                                         *)
(* Two arguments.  Duplicates: the copies sent, the calls that may still   *)
(* send or reopen the row, and the row's own readiness for a claim never   *)
(* exceed what was owed - one copy, one more for each answer lost and each *)
(* claim taken back.  Bodies and reports: until a claim is taken back one  *)
(* worker at most is at work; the row is in PROCESSING while it is, or an  *)
(* unsubscribe overtook it; and until one does, the worker carries the     *)
(* attempts and the body of that row.                                      *)
(***************************************************************************)
EXTENDS Outbox, FiniteSetTheorems, TLAPS

USE ConstantsAssumption

\* Workers whose call may still leave a copy or a FAILED row behind.
Busy == {w \in Workers : worker[w].step \in {"sending", "raised"}}
Open == IF message.status \in {"QUEUED", "FAILED"} /\ message.attempts < MaxAttempts THEN 1 ELSE 0
Owed == accepted + Cardinality(Busy) + Open <= 1 + lost + reclaims

Working(w) == worker[w].step # "idle"
Sole ==
    /\ \A w \in Workers : Working(w) =>
          /\ ~message.known
          /\ \/ message.status = "PROCESSING"
             \/ overtaken /\ message.status = "UNSUBSCRIBED"
    /\ \A v, w \in Workers : Working(v) /\ Working(w) => v = w

\* A row that the provider's callbacks can find is not sent again.
Finished ==
    \/ message.status \in Terminal
    \/ message.status = "FAILED" /\ message.attempts = MaxAttempts
Settled == message.known => Finished

\* Until an unsubscribe overtakes a claim, neither is a row that lost its body.
Carries ==
    \A w \in Workers : Working(w) =>
        message.body /\ worker[w].attempts = message.attempts /\ worker[w].body
Kept == (message.body \/ Finished) /\ Carries /\ blanks = 0

Alone == reclaims = 0 => Sole /\ Settled /\ (overtaken \/ Kept)

IInv == TypeOK /\ Owed /\ Alone

LEMMA Values ==
    /\ Statuses = {"SENT", "DELIVERED", "OPENED", "FAILED", "BOUNCED", "SUPPRESSED",
                   "UNSUBSCRIBED", "QUEUED", "PROCESSING"}
    /\ \A e \in Events : e \in {"DELIVERED", "OPENED", "BOUNCED", "FAILED"}
  BY DEF Statuses, Rank, Reported

LEMMA RankValues ==
    /\ Rank["SENT"] = 1 /\ Rank["DELIVERED"] = 2 /\ Rank["OPENED"] = 3 /\ Rank["FAILED"] = 90
    /\ Rank["BOUNCED"] = 100 /\ Rank["SUPPRESSED"] = 105 /\ Rank["UNSUBSCRIBED"] = 110
    /\ Rank["QUEUED"] = 0 /\ Rank["PROCESSING"] = 0
  BY DEF Rank

LEMMA BusyFinite == IsFiniteSet(Busy) /\ Cardinality(Busy) \in Nat
  BY FS_Subset, FS_CardinalityType DEF Busy

\* One worker's step changes who is busy by that worker.
LEMMA WorkerStep ==
  ASSUME TypeOK, NEW w \in Workers, NEW r \in Job, worker' = [worker EXCEPT ![w] = r]
  PROVE  /\ worker' \in [Workers -> Job]
         /\ worker'[w] = r /\ \A v \in Workers : v # w => worker'[v] = worker[v]
         /\ Cardinality(Busy)' \in Nat
         /\ r.step \in {"sending", "raised"} => Cardinality(Busy)' <= Cardinality(Busy) + 1
         /\ r.step \in {"sending", "raised"} /\ w \in Busy => Cardinality(Busy)' = Cardinality(Busy)
         /\ r.step \notin {"sending", "raised"} /\ w \in Busy => Cardinality(Busy)' = Cardinality(Busy) - 1
         /\ r.step \notin {"sending", "raised"} /\ w \notin Busy => Cardinality(Busy)' = Cardinality(Busy)
<1>1. worker \in [Workers -> Job]
    BY DEF TypeOK
<1>2. /\ worker' \in [Workers -> Job] /\ worker'[w] = r
      /\ \A v \in Workers : v # w => worker'[v] = worker[v]
    BY <1>1
<1>3. Busy' = {v \in Workers : worker'[v].step \in {"sending", "raised"}}
    BY DEF Busy
<1>4. CASE r.step \in {"sending", "raised"}
  <2>1. Busy' = Busy \union {w}
      BY <1>2, <1>3, <1>4 DEF Busy
  <2>2. Cardinality(Busy \union {w}) = IF w \in Busy THEN Cardinality(Busy) ELSE Cardinality(Busy) + 1
      BY BusyFinite, FS_AddElement
  <2> QED BY <1>2, <1>4, <2>1, <2>2, BusyFinite
<1>5. CASE r.step \notin {"sending", "raised"}
  <2>1. Busy' = Busy \ {w}
      BY <1>2, <1>3, <1>5 DEF Busy
  <2>2. Cardinality(Busy \ {w}) = IF w \in Busy THEN Cardinality(Busy) - 1 ELSE Cardinality(Busy)
      BY BusyFinite, FS_RemoveElement
  <2>3. Cardinality(Busy \ {w}) \in Nat
      BY BusyFinite, FS_RemoveElement, FS_CardinalityType
  <2> QED BY <1>2, <1>5, <2>1, <2>2, <2>3, BusyFinite
<1> QED BY <1>4, <1>5

LEMMA InitIInv == Init => IInv
<1> SUFFICES ASSUME Init PROVE IInv
    OBVIOUS
<1>1. TypeOK
  <2>1. message \in Row
      BY Values DEF Init, Row
  <2>2. worker \in [Workers -> Job]
      BY DEF Init, Idle, Job
  <2>3. reports \in [Events -> {"unsent", "sent", "processed", "ignored"}]
      BY DEF Init
  <2>4. due \in BOOLEAN /\ stale \in BOOLEAN /\ reachable \in BOOLEAN
      BY Zenon DEF Init
  <2>5. accepted \in Nat /\ blanks \in 0..accepted /\ lost \in Nat /\ reclaims \in Nat
      BY DEF Init
  <2>6. optOut \in BOOLEAN /\ overtaken \in BOOLEAN
      BY Zenon DEF Init
  <2> QED BY <2>1, <2>2, <2>3, <2>4, <2>5, <2>6 DEF TypeOK
<1>2. Busy = {}
    BY DEF Init, Busy, Idle
<1>3. Owed
    BY <1>2, FS_EmptySet DEF Init, Owed, Open
<1>4. \A w \in Workers : ~Working(w)
    BY DEF Init, Working, Idle
<1>5. message.body /\ ~message.known /\ blanks = 0
    BY DEF Init
<1>6. Alone
    BY <1>4, <1>5 DEF Alone, Sole, Settled, Kept, Carries
<1> QED BY <1>1, <1>3, <1>6 DEF IInv

LEMMA ClaimIInv ==
  ASSUME IInv, NEW w \in Workers, Claim(w)
  PROVE  IInv'
<1>1. /\ message.status \in {"QUEUED", "FAILED"} /\ message.attempts < MaxAttempts
      /\ worker[w].step = "idle"
      /\ UNCHANGED <<due, reachable, reports, accepted, blanks, lost, reclaims, optOut, overtaken>>
      /\ stale' = FALSE
    BY Values DEF IInv, Claim, Claimable, TypeOK, Row, Terminal, unsubscribes
<1>2. /\ message' = [message EXCEPT !.status = "PROCESSING", !.attempts = @ + 1]
      /\ message \in Row /\ message.attempts + 1 \in 0..MaxAttempts
    BY <1>1 DEF IInv, TypeOK, Claim, Row
<1>3. /\ message'.status = "PROCESSING" /\ message'.attempts = message.attempts + 1
      /\ message'.body = message.body /\ message'.known = message.known
      /\ message' \in Row /\ message.body \in BOOLEAN
    BY <1>2, Values DEF Row
<1>4. PICK r \in Job :
          /\ worker' = [worker EXCEPT ![w] = r]
          /\ r.step = "sending" /\ r.attempts = message'.attempts /\ r.body = message.body
  <2> DEFINE j == [step |-> "sending", attempts |-> message.attempts + 1, body |-> message.body]
  <2>1. j \in Job /\ j.step = "sending" /\ j.attempts = message'.attempts /\ j.body = message.body
      BY <1>2, <1>3 DEF Job
  <2>2. worker' = [worker EXCEPT ![w] = j]
      BY DEF Claim
  <2> HIDE DEF j
  <2> QED BY <2>1, <2>2
<1>5. /\ worker' \in [Workers -> Job] /\ worker'[w] = r
      /\ \A v \in Workers : v # w => worker'[v] = worker[v]
      /\ Cardinality(Busy)' \in Nat /\ Cardinality(Busy)' <= Cardinality(Busy) + 1
    BY <1>4, WorkerStep DEF IInv
<1>6. TypeOK'
    BY <1>1, <1>3, <1>5 DEF IInv, TypeOK
<1>7. Owed'
  <2>1. Open = 1 /\ Open' = 0
      BY <1>1, <1>3 DEF Open
  <2> QED BY <1>1, <1>5, <2>1, BusyFinite DEF IInv, Owed, TypeOK
<1>8. ASSUME reclaims' = 0 PROVE Sole' /\ Settled' /\ (overtaken' \/ Kept')
  <2>1. Sole /\ Settled /\ (overtaken \/ Kept)
      BY <1>1, <1>8 DEF IInv, Alone
  <2>2. ~Finished /\ ~message.known
      BY <1>1, <2>1 DEF Settled, Finished, Terminal, IInv, TypeOK, Row
  <2>3. \A v \in Workers : v # w => ~Working(v)'
      BY <1>1, <1>5, <2>1 DEF Sole, Working
  <2>4. Sole'
      BY <1>3, <2>2, <2>3 DEF Sole
  <2>5. ASSUME Kept PROVE Kept'
    <3>1. message.body
        BY <2>2, <2>5 DEF Kept
    <3>2. worker'[w].attempts = message'.attempts /\ worker'[w].body /\ message'.body
        BY <1>3, <1>4, <1>5, <3>1
    <3> QED BY <1>1, <2>3, <2>5, <3>2 DEF Kept, Carries
  <2> QED BY <1>1, <1>3, <2>1, <2>2, <2>4, <2>5 DEF Settled
<1> QED BY <1>6, <1>7, <1>8 DEF IInv, Alone

\* Steps that leave the workers alone, and the row no readier to be claimed.
LEMMA RowIInv ==
  ASSUME IInv, TypeOK', UNCHANGED <<worker, accepted, blanks, lost, reclaims, overtaken>>,
         message'.status \in {"QUEUED", "FAILED"} /\ message'.attempts < MaxAttempts
            => message.status \in {"QUEUED", "FAILED"} /\ message.attempts < MaxAttempts,
         reclaims = 0 /\ Sole /\ Settled =>
            /\ Settled'
            /\ message' # message => \A w \in Workers : ~Working(w)
            /\ message.body \/ Finished => message'.body \/ Finished'
  PROVE  IInv'
<1>1. Owed'
  <2>1. Open' <= Open /\ Open \in {0, 1} /\ Open' \in {0, 1}
      BY DEF Open
  <2>2. Cardinality(Busy)' = Cardinality(Busy)
      BY DEF Busy
  <2> QED BY <2>1, <2>2, BusyFinite DEF IInv, Owed, TypeOK
<1>2. ASSUME reclaims' = 0 PROVE Sole' /\ Settled' /\ (overtaken' \/ Kept')
  <2>1. reclaims = 0 /\ Sole /\ Settled /\ (overtaken \/ Kept) /\ Settled'
      BY <1>2 DEF IInv, Alone
  <2>2. Sole' /\ (Carries => Carries')
    <3>1. CASE \E w \in Workers : Working(w)
      <4>1. message' = message
          BY <2>1, <3>1
      <4>2. worker' = worker /\ overtaken' = overtaken
          OBVIOUS
      <4> QED BY <2>1, <4>1, <4>2 DEF Sole, Carries, Working
    <3>2. CASE \A w \in Workers : ~Working(w)
        BY <3>2 DEF Sole, Carries, Working
    <3> QED BY <3>1, <3>2
  <2> QED BY <2>1, <2>2 DEF Kept
<1> QED BY <1>1, <1>2 DEF IInv, Alone

\* Suppression, cancellation, time and the contact.
LEMMA QuietIInv ==
  ASSUME IInv,
         \/ \E w \in Workers : Suppress(w)
         \/ CancelCampaign \/ BecomesDue \/ BecomesStale \/ BecomesUnreachable \/ BecomesReachable
         \/ UnsubscribeReads
         \/ \E e \in Events : ProviderReports(e)
  PROVE  IInv'
<1>1. UNCHANGED <<worker, accepted, blanks, lost, reclaims, overtaken>>
    BY DEF Suppress, CancelCampaign, BecomesDue, BecomesStale, BecomesUnreachable,
           BecomesReachable, UnsubscribeReads, ProviderReports, unsubscribes
<1>2. \/ message' = message
      \/ /\ message.status \notin Terminal \union {"PROCESSING"}
         /\ message' = [message EXCEPT !.status = "SUPPRESSED", !.body = FALSE]
    BY DEF Suppress, Claimable, CancelCampaign, BecomesDue, BecomesStale, BecomesUnreachable,
           BecomesReachable, UnsubscribeReads, ProviderReports, Terminal
<1>3. message \in Row
    BY DEF IInv, TypeOK
<1>4. message' \in Row
    BY <1>2, <1>3, Values DEF Row
<1>5. due' \in BOOLEAN /\ stale' \in BOOLEAN /\ reachable' \in BOOLEAN
    BY DEF IInv, TypeOK, Suppress, CancelCampaign, BecomesDue, BecomesStale,
           BecomesUnreachable, BecomesReachable, UnsubscribeReads, ProviderReports
<1>6. reports' \in [Events -> {"unsent", "sent", "processed", "ignored"}]
    BY DEF IInv, TypeOK, Suppress, CancelCampaign, BecomesDue, BecomesStale,
           BecomesUnreachable, BecomesReachable, UnsubscribeReads, ProviderReports
<1>7. TypeOK'
  <2>1. optOut' \in BOOLEAN
      BY DEF IInv, TypeOK, Suppress, CancelCampaign, BecomesDue, BecomesStale, unsubscribes,
             BecomesUnreachable, BecomesReachable, UnsubscribeReads, ProviderReports
  <2> QED BY <1>1, <1>4, <1>5, <1>6, <2>1 DEF IInv, TypeOK
<1>8. message' # message =>
         message.status \notin Terminal \union {"PROCESSING"} /\ message'.status = "SUPPRESSED"
    BY <1>2, <1>3 DEF Row
<1>9. (Settled => Settled') /\ (message.body \/ Finished => message'.body \/ Finished')
    BY <1>8 DEF Settled, Finished, Terminal
<1>10. Sole /\ message' # message => \A w \in Workers : ~Working(w)
    BY <1>8 DEF Sole, Terminal
<1> QED BY <1>1, <1>7, <1>8, <1>9, <1>10, RowIInv

\* A committed unsubscribe settles the row; over a claimed one it counts as overtaking.
LEMMA UnsubscribeIInv == IInv /\ UnsubscribeCommits => IInv'
<1> SUFFICES ASSUME IInv, UnsubscribeCommits PROVE IInv'
    OBVIOUS
<1>1. /\ message' = [message EXCEPT !.status = "UNSUBSCRIBED", !.body = FALSE]
      /\ optOut' \in BOOLEAN /\ reachable' = FALSE /\ stale' = FALSE
      /\ overtaken' = (overtaken \/ message.status = "PROCESSING")
      /\ UNCHANGED <<due, worker, reports, accepted, blanks, lost, reclaims>>
    BY DEF UnsubscribeCommits
<1>2. /\ message' \in Row /\ message'.status = "UNSUBSCRIBED"
      /\ message'.known = message.known
    BY <1>1, Values DEF IInv, TypeOK, Row
<1>3. TypeOK'
  <2>1. overtaken' \in BOOLEAN
      BY <1>1 DEF IInv, TypeOK
  <2> QED BY <1>1, <1>2, <2>1 DEF IInv, TypeOK
<1>4. Owed'
  <2>1. Open' = 0 /\ Open \in {0, 1} /\ Cardinality(Busy)' = Cardinality(Busy)
      BY <1>1, <1>2 DEF Open, Busy
  <2> QED BY <1>1, <2>1, BusyFinite DEF IInv, Owed, TypeOK
<1>5. ASSUME reclaims' = 0 PROVE Sole' /\ Settled' /\ (overtaken' \/ Kept')
  <2>1. Sole /\ Settled /\ (overtaken \/ Kept)
      BY <1>1, <1>5 DEF IInv, Alone
  <2>2. \A w \in Workers : Working(w)' <=> Working(w)
      BY <1>1 DEF Working
  <2>3. \A w \in Workers : Working(w) => ~message.known /\ overtaken'
      BY <1>1, <2>1 DEF Sole
  <2>4. Sole'
      BY <1>2, <2>1, <2>2, <2>3 DEF Sole
  <2>5. Finished'
      BY <1>2 DEF Finished, Terminal
  <2>6. ASSUME Kept, ~overtaken' PROVE Kept'
      BY <1>1, <2>2, <2>3, <2>5, <2>6 DEF Kept, Carries
  <2>7. overtaken => overtaken'
      BY <1>1
  <2> QED BY <2>1, <2>4, <2>5, <2>6, <2>7 DEF Settled
<1> QED BY <1>3, <1>4, <1>5 DEF IInv, Alone

LEMMA CallbackIInv ==
  ASSUME IInv, NEW e \in Events, Callback(e)
  PROVE  IInv'
<1>1. UNCHANGED <<worker, accepted, blanks, lost, reclaims, due, optOut, overtaken>>
    BY DEF Callback, unsubscribes
<1>2. message \in Row /\ message.attempts \in 0..MaxAttempts /\ message.status \in Statuses
    BY DEF IInv, TypeOK, Row
<1>3. /\ reports' \in [Events -> {"unsent", "sent", "processed", "ignored"}]
      /\ stale' \in BOOLEAN /\ reachable' \in BOOLEAN
    BY DEF IInv, TypeOK, Callback
<1>4. CASE ~message.known
  <2>1. message' = message
      BY <1>4 DEF Callback
  <2>2. TypeOK'
      BY <1>1, <1>3, <2>1 DEF IInv, TypeOK
  <2>3. (Settled => Settled') /\ (message.body \/ Finished => message'.body \/ Finished')
      BY <2>1 DEF Settled, Finished
  <2> QED BY <1>1, <2>1, <2>2, <2>3, RowIInv
<1>5. CASE message.known
  <2>1. message' = [message EXCEPT
                   !.status = IF Advances(e) THEN e ELSE @,
                   !.attempts = IF e = "FAILED" /\ @ < MaxAttempts THEN MaxAttempts ELSE @]
      BY <1>5 DEF Callback
  <2>2. /\ message'.status = IF Advances(e) THEN e ELSE message.status
        /\ message'.attempts = IF e = "FAILED" /\ message.attempts < MaxAttempts
                               THEN MaxAttempts ELSE message.attempts
        /\ message'.body = message.body /\ message'.known = message.known
        /\ message' \in Row
    <3> DEFINE a == IF e = "FAILED" /\ message.attempts < MaxAttempts
                    THEN MaxAttempts ELSE message.attempts
               t == IF Advances(e) THEN e ELSE message.status
    <3>1. a \in 0..MaxAttempts
        BY <1>2
    <3>2. t \in Statuses
        BY <1>2, Values
    <3>3. message' = [message EXCEPT !.status = t, !.attempts = a]
        BY <2>1
    <3> HIDE DEF a, t
    <3>4. message'.status = t /\ message'.attempts = a /\ message'.body = message.body
          /\ message'.known = message.known /\ message' \in Row
        BY <1>2, <3>1, <3>2, <3>3 DEF Row
    <3> QED BY <3>4 DEF a, t
  <2>3. TypeOK'
      BY <1>1, <1>3, <2>2 DEF IInv, TypeOK
  <2>4. e \in {"DELIVERED", "OPENED", "BOUNCED", "FAILED"}
      BY Values
  <2>5. e = "FAILED" => message'.attempts = MaxAttempts
      BY <1>2, <2>2
  <2>6. Finished => Finished'
      BY <1>2, <2>2, <2>4, <2>5 DEF Finished, Terminal
  <2>7. message'.status \in {"QUEUED", "FAILED"} /\ message'.attempts < MaxAttempts
            => message.status \in {"QUEUED", "FAILED"} /\ message.attempts < MaxAttempts
      BY <1>2, <2>2, <2>4, <2>5
  <2>8. Sole => \A w \in Workers : ~Working(w)
      BY <1>5 DEF Sole
  <2>9. Settled => Settled'
      BY <1>5, <2>6 DEF Settled
  <2> QED BY <1>1, <2>2, <2>3, <2>6, <2>7, <2>8, <2>9, RowIInv
<1> QED BY <1>4, <1>5

\* The provider takes the message, and its answer arrives or is lost.
LEMMA AcceptsIInv ==
  ASSUME IInv, NEW w \in Workers, ProviderAccepts(w)
  PROVE  IInv'
<1>1. /\ worker[w].step = "sending" /\ worker[w] \in Job /\ w \in Busy
      /\ UNCHANGED <<message, due, stale, reachable, reports, reclaims, optOut, overtaken>>
    BY DEF IInv, TypeOK, ProviderAccepts, Busy, unsubscribes
<1>2. /\ accepted' \in {accepted, accepted + 1}
      /\ blanks' \in {blanks, blanks + 1} /\ (blanks' # blanks => ~worker[w].body)
      /\ accepted' = accepted => blanks' = blanks
    BY DEF IInv, TypeOK, ProviderAccepts
<1>3. accepted' \in Nat /\ blanks' \in 0..accepted'
    BY <1>2 DEF IInv, TypeOK
<1>4. PICK to \in {"accepted", "raised"} :
          /\ worker' = [worker EXCEPT ![w] = [@ EXCEPT !.step = to]]
          /\ lost' = IF to = "raised" THEN lost + 1 ELSE lost
    BY DEF ProviderAccepts
<1>5. PICK r \in Job :
          /\ worker' = [worker EXCEPT ![w] = r]
          /\ r.step = to /\ r.attempts = worker[w].attempts /\ r.body = worker[w].body
  <2> DEFINE j == [worker[w] EXCEPT !.step = to]
  <2>1. j \in Job /\ j.step = to /\ j.attempts = worker[w].attempts /\ j.body = worker[w].body
      BY <1>1 DEF Job
  <2>2. worker' = [worker EXCEPT ![w] = j]
      BY <1>4 DEF IInv, TypeOK
  <2> HIDE DEF j
  <2> QED BY <2>1, <2>2
<1>6. /\ worker' \in [Workers -> Job] /\ worker'[w] = r
      /\ \A v \in Workers : v # w => worker'[v] = worker[v]
      /\ Cardinality(Busy)' \in Nat
      /\ Cardinality(Busy)' = IF to = "raised" THEN Cardinality(Busy) ELSE Cardinality(Busy) - 1
    BY <1>1, <1>5, WorkerStep DEF IInv
<1>7. TypeOK'
    BY <1>1, <1>3, <1>4, <1>6 DEF IInv, TypeOK
<1>8. Owed'
  <2>1. Open' = Open /\ Open \in {0, 1}
      BY <1>1 DEF Open
  <2> QED BY <1>1, <1>2, <1>4, <1>6, <2>1, BusyFinite DEF IInv, Owed, TypeOK
<1>9. ASSUME reclaims' = 0 PROVE Sole' /\ Settled' /\ (overtaken' \/ Kept')
  <2>1. Sole /\ Settled /\ (overtaken \/ Kept)
      BY <1>1, <1>9 DEF IInv, Alone
  <2>2. \A v \in Workers : Working(v)' <=> Working(v)
      BY <1>1, <1>4, <1>5, <1>6 DEF Working
  <2>3. \A v \in Workers : worker'[v].attempts = worker[v].attempts /\ worker'[v].body = worker[v].body
      BY <1>5, <1>6
  <2>4. Sole'
      BY <1>1, <2>1, <2>2 DEF Sole
  <2>5. Carries => Carries' /\ worker[w].body
      BY <1>1, <2>2, <2>3 DEF Carries, Working
  <2>6. Finished' <=> Finished
      BY <1>1 DEF Finished
  <2>7. Kept => Kept'
      BY <1>1, <1>2, <2>5, <2>6 DEF Kept, IInv, TypeOK
  <2> QED BY <1>1, <2>1, <2>4, <2>6, <2>7 DEF Settled
<1> QED BY <1>7, <1>8, <1>9 DEF IInv, Alone

LEMMA RefusesIInv ==
  ASSUME IInv, NEW w \in Workers, ProviderRefuses(w)
  PROVE  IInv'
<1>1. /\ worker[w].step = "sending" /\ worker[w] \in Job /\ w \in Busy
      /\ UNCHANGED <<message, due, stale, reachable, reports, accepted, blanks, lost, reclaims,
                     optOut, overtaken>>
    BY DEF IInv, TypeOK, ProviderRefuses, Busy, unsubscribes
<1>2. PICK r \in Job :
          /\ worker' = [worker EXCEPT ![w] = r]
          /\ r.step = "raised" /\ r.attempts = worker[w].attempts /\ r.body = worker[w].body
  <2> DEFINE j == [worker[w] EXCEPT !.step = "raised"]
  <2>1. j \in Job /\ j.step = "raised" /\ j.attempts = worker[w].attempts /\ j.body = worker[w].body
      BY <1>1 DEF Job
  <2>2. worker' = [worker EXCEPT ![w] = j]
      BY DEF ProviderRefuses, IInv, TypeOK
  <2> HIDE DEF j
  <2> QED BY <2>1, <2>2
<1>3. /\ worker' \in [Workers -> Job] /\ worker'[w] = r
      /\ \A v \in Workers : v # w => worker'[v] = worker[v]
      /\ Cardinality(Busy)' = Cardinality(Busy)
    BY <1>1, <1>2, WorkerStep DEF IInv
<1>4. TypeOK'
    BY <1>1, <1>3 DEF IInv, TypeOK
<1>5. Owed'
    BY <1>1, <1>3 DEF IInv, Owed, Open
<1>6. ASSUME reclaims' = 0 PROVE Sole' /\ Settled' /\ (overtaken' \/ Kept')
  <2>1. Sole /\ Settled /\ (overtaken \/ Kept)
      BY <1>1, <1>6 DEF IInv, Alone
  <2>2. \A v \in Workers : Working(v)' <=> Working(v)
      BY <1>1, <1>2, <1>3 DEF Working
  <2>3. \A v \in Workers : worker'[v].attempts = worker[v].attempts /\ worker'[v].body = worker[v].body
      BY <1>2, <1>3
  <2>4. Sole' /\ (Carries => Carries')
      BY <1>1, <2>1, <2>2, <2>3 DEF Sole, Carries
  <2>5. Finished' <=> Finished
      BY <1>1 DEF Finished
  <2> QED BY <1>1, <2>1, <2>4, <2>5 DEF Settled, Kept
<1> QED BY <1>4, <1>5, <1>6 DEF IInv, Alone

\* A worker writes the outcome of its call, or dies.
LEMMA EndsIInv ==
  ASSUME IInv, NEW w \in Workers, SaveSent(w) \/ SaveFailed(w) \/ WorkerDies(w)
  PROVE  IInv'
<1>1. /\ worker[w].step # "idle" /\ worker[w] \in Job /\ worker' = [worker EXCEPT ![w] = Idle]
      /\ UNCHANGED <<reachable, reports, accepted, blanks, reclaims, optOut, overtaken>>
    BY DEF IInv, TypeOK, SaveSent, SaveFailed, WorkerDies, unsubscribes
<1>2. Idle \in Job /\ Idle.step = "idle"
    BY DEF Idle, Job
<1>3. /\ worker' \in [Workers -> Job] /\ worker'[w] = Idle
      /\ \A v \in Workers : v # w => worker'[v] = worker[v]
      /\ Cardinality(Busy)' \in Nat
      /\ Cardinality(Busy)' = IF w \in Busy THEN Cardinality(Busy) - 1 ELSE Cardinality(Busy)
    BY <1>1, <1>2, WorkerStep DEF IInv
<1>4. message \in Row /\ message.attempts \in 0..MaxAttempts /\ message.body \in BOOLEAN
    BY DEF IInv, TypeOK, Row
<1>5. /\ message' \in Row /\ message'.attempts = message.attempts
      /\ \/ worker[w].step = "accepted" /\ message'.status = "SENT" /\ UNCHANGED lost
         \/ /\ worker[w].step = "raised" /\ message'.status = "FAILED" /\ UNCHANGED lost
            /\ message'.known = message.known
            /\ message'.body = (message.body /\ ~(worker[w].attempts >= MaxAttempts))
         \/ message' = message /\ lost' \in {lost, lost + 1}
  <2>1. CASE SaveSent(w)
      BY <1>4, <2>1, Values DEF SaveSent, Row
  <2>2. CASE SaveFailed(w)
      BY <1>4, <2>2, Values DEF SaveFailed, LastAttempt, Row
  <2>3. CASE WorkerDies(w)
      BY <1>4, <2>3 DEF WorkerDies
  <2> QED BY <2>1, <2>2, <2>3
<1>6. TypeOK'
  <2>1. due' \in BOOLEAN /\ stale' \in BOOLEAN
      BY DEF IInv, TypeOK, SaveSent, SaveFailed, WorkerDies
  <2> QED BY <1>1, <1>3, <1>5, <2>1 DEF IInv, TypeOK
<1>7. Owed'
  <2>1. Open \in {0, 1} /\ Open' \in {0, 1}
      BY DEF Open
  <2>2. CASE worker[w].step = "raised" /\ lost' = lost
    <3>1. w \in Busy
        BY <2>2 DEF Busy
    <3> QED BY <1>1, <1>3, <2>1, <2>2, <3>1, BusyFinite DEF IInv, Owed, TypeOK
  <2>3. CASE message'.status = "SENT"
    <3>1. Open' = 0
        BY <2>3 DEF Open
    <3> QED BY <1>1, <1>3, <1>5, <2>1, <3>1, BusyFinite DEF IInv, Owed, TypeOK
  <2>4. CASE message' = message
    <3>1. Open' = Open
        BY <2>4 DEF Open
    <3> QED BY <1>1, <1>3, <1>5, <2>1, <3>1, BusyFinite DEF IInv, Owed, TypeOK
  <2> QED BY <1>5, <2>2, <2>3, <2>4
<1>8. ASSUME reclaims' = 0 PROVE Sole' /\ Settled' /\ (overtaken' \/ Kept')
  <2>1. Sole /\ Settled /\ (overtaken \/ Kept)
      BY <1>1, <1>8 DEF IInv, Alone
  <2>2. Working(w) /\ ~message.known
      BY <1>1, <2>1 DEF Sole, Working
  <2>3. \A v \in Workers : ~Working(v)'
      BY <1>1, <1>2, <1>3, <2>1 DEF Sole, Working
  <2>4. Sole' /\ Carries'
      BY <2>3 DEF Sole, Carries
  <2>5. Settled'
      BY <1>5, <2>2 DEF Settled, Finished, Terminal
  <2>6. ASSUME Kept PROVE message'.body \/ Finished'
    <3>1. message.body /\ worker[w].attempts = message.attempts
        BY <2>2, <2>6 DEF Kept, Carries
    <3>2. CASE message'.status = "SENT"
        BY <3>2 DEF Finished, Terminal
    <3>3. CASE message'.status = "FAILED"
               /\ message'.body = (message.body /\ ~(worker[w].attempts >= MaxAttempts))
      <4>1. ~message'.body => message'.attempts >= MaxAttempts
          BY <1>5, <3>1, <3>3
      <4>2. message'.attempts >= MaxAttempts => message'.attempts = MaxAttempts
          BY <1>4, <1>5
      <4> QED BY <3>3, <4>1, <4>2 DEF Finished
    <3>4. CASE message' = message
        BY <3>1, <3>4
    <3> QED BY <1>5, <3>2, <3>3, <3>4
  <2>7. Kept => Kept'
      BY <1>1, <2>4, <2>6 DEF Kept
  <2> QED BY <1>1, <2>1, <2>4, <2>5, <2>7
<1> QED BY <1>6, <1>7, <1>8 DEF IInv, Alone

\* A claim taken back is paid for; nothing is said of what follows it.
LEMMA ReclaimIInv == IInv /\ Reclaim => IInv'
<1> SUFFICES ASSUME IInv, Reclaim PROVE IInv'
    OBVIOUS
<1>1. /\ message' = [message EXCEPT !.status = "QUEUED"] /\ reclaims' = reclaims + 1
      /\ message.status = "PROCESSING"
      /\ UNCHANGED <<due, stale, reachable, worker, reports, accepted, blanks, lost, optOut, overtaken>>
    BY DEF Reclaim, unsubscribes
<1>2. message' \in Row
    BY <1>1, Values DEF IInv, TypeOK, Row
<1>3. TypeOK'
    BY <1>1, <1>2 DEF IInv, TypeOK
<1>4. Open = 0 /\ Open' \in {0, 1} /\ Cardinality(Busy)' = Cardinality(Busy)
    BY <1>1 DEF Open, Busy
<1>5. Owed'
    BY <1>1, <1>4, BusyFinite DEF IInv, Owed, TypeOK
<1>6. reclaims' # 0
    BY <1>1 DEF IInv, TypeOK
<1> QED BY <1>3, <1>5, <1>6 DEF IInv, Alone

LEMMA NextIInv == IInv /\ [Next]_vars => IInv'
<1> SUFFICES ASSUME IInv, [Next]_vars PROVE IInv'
    OBVIOUS
<1>1. CASE \E w \in Workers : Claim(w) \/ ProviderAccepts(w) \/ ProviderRefuses(w)
                               \/ SaveSent(w) \/ SaveFailed(w) \/ WorkerDies(w)
    BY <1>1, ClaimIInv, AcceptsIInv, RefusesIInv, EndsIInv
<1>2. CASE (\E w \in Workers : Suppress(w)) \/ (\E e \in Events : ProviderReports(e))
           \/ CancelCampaign \/ BecomesDue \/ BecomesStale \/ BecomesUnreachable
           \/ BecomesReachable \/ UnsubscribeReads
    BY <1>2, QuietIInv
<1>3. CASE \E e \in Events : Callback(e)
    BY <1>3, CallbackIInv
<1>4. CASE Reclaim \/ UnsubscribeCommits
    BY <1>4, ReclaimIInv, UnsubscribeIInv
<1>5. CASE UNCHANGED vars
    BY <1>5 DEF vars, IInv, TypeOK, Owed, Busy, Open, Alone, Sole, Working, Settled, Finished, Kept,
                Carries
<1> QED BY <1>1, <1>2, <1>3, <1>4, <1>5 DEF Next

LEMMA Invariant == Spec => []IInv
  BY InitIInv, NextIInv, PTL DEF Spec

\* Each row, job and report keeps its type, and the attempts their bound, whoever writes.
THEOREM OutboxTypeOK == Spec => []TypeOK
<1>1. IInv => TypeOK
    BY DEF IInv
<1> QED BY Invariant, <1>1, PTL

\* Each copy beyond the first is owed to an answer of the provider that never reached the
\* row or to a stale claim taken back.
THEOREM OutboxDuplicatesExplained == Spec => []DuplicatesExplained
<1>1. IInv => DuplicatesExplained
    BY BusyFinite DEF IInv, Owed, Open, TypeOK, DuplicatesExplained
<1> QED BY Invariant, <1>1, PTL

\* No message is sent without its body before a claim is taken back or overtaken.
THEOREM OutboxBlankExplained == Spec => []BlankExplained
<1>1. IInv => BlankExplained
    BY DEF IInv, TypeOK, Alone, Kept, BlankExplained
<1> QED BY Invariant, <1>1, PTL

\* Before a claim is taken back, what the provider reported only advances: no worker is at
\* work on a row that the provider has reported on.
THEOREM OutboxReportsOnlyAdvance == Spec => ReportsOnlyAdvance
<1> DEFINE Step == message.status \in Reported /\ reclaims = 0
                     => Rank[message'.status] >= Rank[message.status]
<1>1. ASSUME IInv, Next, message.status \in Reported, reclaims = 0
      PROVE  Rank[message'.status] >= Rank[message.status]
  <2>1. message.status \notin {"PROCESSING", "QUEUED", "FAILED"} /\ message.status \in Terminal
      BY <1>1 DEF Reported, Terminal
  <2>2. \A w \in Workers : worker[w].step = "idle"
      BY <1>1, <2>1 DEF IInv, Alone, Sole, Working, Reported
  <2>3. \/ message'.status \in {message.status, "UNSUBSCRIBED"}
        \/ \E e \in Events : Advances(e) /\ message'.status = e
    <3>1. CASE \E e \in Events : Callback(e)
      <4>1. PICK e \in Events : Callback(e)
          BY <3>1
      <4>2. message \in Row
          BY <1>1 DEF IInv, TypeOK
      <4>3. message' = message \/ message'.status = IF Advances(e) THEN e ELSE message.status
          BY <4>1, <4>2 DEF Callback, Row
      <4> QED BY <4>1, <4>2, <4>3
    <3>2. CASE UnsubscribeCommits
        BY <1>1, <3>2 DEF UnsubscribeCommits, IInv, TypeOK, Row
    <3>3. CASE ~(\E e \in Events : Callback(e)) /\ ~UnsubscribeCommits
        BY <1>1, <2>1, <2>2, <3>3 DEF Next, Claim, Suppress, Claimable, ProviderAccepts, ProviderRefuses,
           SaveSent, SaveFailed, WorkerDies, ProviderReports, BecomesDue, BecomesStale,
           Reclaim, CancelCampaign, BecomesUnreachable, BecomesReachable, UnsubscribeReads
    <3> QED BY <3>1, <3>2, <3>3
  <2> QED BY <1>1, <2>3, RankValues DEF Advances, Reported
<1>2. IInv /\ [Next]_vars => [Step]_vars
    BY <1>1 DEF vars
<1> QED BY Invariant, <1>2, PTL DEF Spec, ReportsOnlyAdvance

=============================================================================
