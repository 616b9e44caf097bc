------------------------ MODULE PaymentControlProofs ------------------------
(***************************************************************************)
(* Theorems of the payment database, for every set of hashes, callers and  *)
(* attempt identifiers and every block size.                               *)
(*                                                                         *)
(*   Typing       what the transactions write is a payment record          *)
(*   IndexSafety  the sequence index and the payment buckets agree         *)
(*   SettledSafety  a settled attempt is never lost but with its payment   *)
(*   AttemptsSafety an attempt in flight is never lost, and none joins a   *)
(*                  payment that is settled or failed                      *)
(*   SentSafety   what is sent for a payment stays within its value        *)
(*   ShardsSafety what is in flight for a payment are shards of it         *)
(*                                                                         *)
(* The first part are lemmas about a payment record: what the transactions *)
(* of the payment database make of it.  The theorems of PaymentLifecycle   *)
(* rest on them, too.                                                      *)
(***************************************************************************)
EXTENDS PaymentControl, SumTheorems, FiniteSetTheorems, TLAPS

-----------------------------------------------------------------------------
(* What the operators of MPPayment return.                                 *)

\* A fresh payment record is well typed.
LEMMA NewPaymentType ==
    ASSUME NEW value \in Nat \ {0}
    PROVE  NewPayment(value) \in Payment
  BY DEF NewPayment, Payment

\* Registering an attempt keeps the record well typed.
LEMMA WithAttemptType ==
    ASSUME NEW p \in Payment, NEW a \in AttemptIds, NEW amt \in Nat \ {0},
           NEW mpp \in Mpps \cup {NoMpp}
    PROVE  WithAttempt(p, a, amt, mpp) \in Payment
  <1> DEFINE htlc == [amt |-> amt, mpp |-> mpp,
                      settle |-> FALSE, failure |-> FALSE]
  <1>1. htlc \in HTLCAttempt
    BY DEF HTLCAttempt
  <1>2. WithAttempt(p, a, amt, mpp)
            = [p EXCEPT !.htlcs = [p.htlcs EXCEPT ![a] = htlc]]
    BY DEF WithAttempt, Payment
  <1> HIDE DEF htlc
  <1>3. [p.htlcs EXCEPT ![a] = htlc]
            \in [AttemptIds -> HTLCAttempt \cup {NoHtlc}]
    BY <1>1 DEF Payment
  <1> QED
    BY <1>2, <1>3 DEF Payment

\* Settling or failing a registered attempt keeps the record well typed.
LEMMA WithOutcomeType ==
    ASSUME NEW p \in Payment, NEW a \in HTLCs(p)
    PROVE  WithSettle(p, a) \in Payment /\ WithFailure(p, a) \in Payment
  <1> DEFINE settled == [p.htlcs[a] EXCEPT !.settle = TRUE]
             failed  == [p.htlcs[a] EXCEPT !.failure = TRUE]
  <1>1. a \in AttemptIds /\ p.htlcs[a] \in HTLCAttempt
    BY DEF HTLCs, Payment
  <1>2. settled \in HTLCAttempt /\ failed \in HTLCAttempt
    BY <1>1 DEF HTLCAttempt
  <1>3. /\ WithSettle(p, a)
             = [p EXCEPT !.htlcs = [p.htlcs EXCEPT ![a] = settled]]
        /\ WithFailure(p, a)
             = [p EXCEPT !.htlcs = [p.htlcs EXCEPT ![a] = failed]]
    BY <1>1 DEF WithSettle, WithFailure, Payment
  <1> HIDE DEF settled, failed
  <1>4. /\ [p.htlcs EXCEPT ![a] = settled]
             \in [AttemptIds -> HTLCAttempt \cup {NoHtlc}]
        /\ [p.htlcs EXCEPT ![a] = failed]
             \in [AttemptIds -> HTLCAttempt \cup {NoHtlc}]
    BY <1>1, <1>2 DEF Payment
  <1> QED
    BY <1>3, <1>4 DEF Payment

\* Recording a failure reason keeps the record well typed.
LEMMA WithReasonType ==
    ASSUME NEW p \in Payment, NEW reason \in Reasons
    PROVE  WithReason(p, reason) \in Payment
  BY DEF WithReason, Payment

\* Dropping the failed attempts keeps the record well typed.
LEMMA WithoutFailedType ==
    ASSUME NEW p \in Payment
    PROVE  WithoutFailedHTLCs(p) \in Payment
  <1>1. \A a \in AttemptIds : p.htlcs[a] \in HTLCAttempt \cup {NoHtlc}
    BY DEF Payment
  <1> DEFINE kept == [a \in AttemptIds |->
                        IF a \in FailedHTLCs(p) THEN NoHtlc ELSE p.htlcs[a]]
  <1>2. kept \in [AttemptIds -> HTLCAttempt \cup {NoHtlc}]
    BY <1>1
  <1>3. WithoutFailedHTLCs(p) = [p EXCEPT !.htlcs = kept]
    BY DEF WithoutFailedHTLCs
  <1> HIDE DEF kept
  <1> QED
    BY <1>2, <1>3 DEF Payment

\* An outcome neither adds nor removes an attempt.
LEMMA HTLCsAfterOutcome ==
    ASSUME NEW p \in Payment, NEW a \in HTLCs(p)
    PROVE  /\ HTLCs(WithSettle(p, a)) = HTLCs(p)
           /\ HTLCs(WithFailure(p, a)) = HTLCs(p)
  <1>1. p.htlcs[a] \in HTLCAttempt
    BY DEF HTLCs, Payment
  <1>2. /\ [p.htlcs[a] EXCEPT !.settle = TRUE] \in HTLCAttempt
        /\ [p.htlcs[a] EXCEPT !.failure = TRUE] \in HTLCAttempt
    BY <1>1 DEF HTLCAttempt
  <1>3. NoHtlc \notin HTLCAttempt
    BY MPPaymentAssumption DEF HTLCAttempt
  <1>4. HTLCs(WithSettle(p, a)) = HTLCs(p)
    BY <1>2, <1>3 DEF WithSettle, HTLCs, Payment
  <1>5. HTLCs(WithFailure(p, a)) = HTLCs(p)
    BY <1>2, <1>3 DEF WithFailure, HTLCs, Payment
  <1> QED
    BY <1>4, <1>5

\* What may be deleted or initialised again has nothing in flight.
LEMMA NothingInFlight ==
    ASSUME NEW p, Removable(PaymentStatus(p)) \/ Initializable(PaymentStatus(p))
    PROVE  InFlightHTLCs(p) = {}
  BY DEF Removable, Initializable, PaymentStatus

-----------------------------------------------------------------------------
(* Which attempts are in flight, failed and settled afterwards.            *)

\* A fresh payment has no attempt.
LEMMA NewPaymentSets ==
    ASSUME NEW value
    PROVE  HTLCs(NewPayment(value)) = {}
  BY DEF NewPayment, HTLCs

\* Every attempt is in flight, failed or settled.
LEMMA AttemptSets ==
    ASSUME NEW p
    PROVE  /\ InFlightHTLCs(p) = HTLCs(p) \ (FailedHTLCs(p) \cup SettledHTLCs(p))
           /\ FailedHTLCs(p) \cup SettledHTLCs(p) \subseteq HTLCs(p)
           /\ HTLCs(p) \subseteq AttemptIds
  BY DEF InFlightHTLCs, FailedHTLCs, SettledHTLCs, HTLCs

\* A registered attempt is in flight.
LEMMA WithAttemptSets ==
    ASSUME NEW p \in Payment, NEW a \in AttemptIds \ HTLCs(p), NEW amt \in Nat \ {0},
           NEW mpp \in Mpps \cup {NoMpp}
    PROVE  LET q == WithAttempt(p, a, amt, mpp)
           IN  /\ HTLCs(q) = HTLCs(p) \cup {a}
               /\ FailedHTLCs(q) = FailedHTLCs(p)
               /\ SettledHTLCs(q) = SettledHTLCs(p)
               /\ InFlightHTLCs(q) = InFlightHTLCs(p) \cup {a}
  <1> DEFINE q == WithAttempt(p, a, amt, mpp)
             htlc == [amt |-> amt, mpp |-> mpp,
                      settle |-> FALSE, failure |-> FALSE]
  <1>1. htlc # NoHtlc /\ ~htlc.settle /\ ~htlc.failure
    <2>1. htlc \in HTLCAttempt
      BY DEF HTLCAttempt
    <2>2. NoHtlc \notin HTLCAttempt
      BY MPPaymentAssumption DEF HTLCAttempt
    <2>3. htlc.settle = FALSE /\ htlc.failure = FALSE
      OBVIOUS
    <2> QED
      BY <2>1, <2>2, <2>3
  <1>2. q = [p EXCEPT !.htlcs = [p.htlcs EXCEPT ![a] = htlc]]
    BY DEF WithAttempt, Payment
  <1> HIDE DEF q, htlc
  <1>3. /\ q.htlcs[a] = htlc
        /\ \A b \in AttemptIds \ {a} : q.htlcs[b] = p.htlcs[b]
    <2>1. q.htlcs = [p.htlcs EXCEPT ![a] = htlc]
      BY <1>2 DEF Payment
    <2>2. DOMAIN p.htlcs = AttemptIds /\ a \in AttemptIds
      BY DEF Payment
    <2> QED
      BY <2>1, <2>2
  <1>4. HTLCs(q) = HTLCs(p) \cup {a} /\ a \notin HTLCs(p)
    BY <1>1, <1>3 DEF HTLCs
  <1>5. \A b \in HTLCs(p) : q.htlcs[b] = p.htlcs[b]
    BY <1>3, <1>4 DEF HTLCs
  <1>6. FailedHTLCs(q) = FailedHTLCs(p) /\ SettledHTLCs(q) = SettledHTLCs(p)
    BY <1>1, <1>3, <1>4, <1>5 DEF FailedHTLCs, SettledHTLCs
  <1>7. InFlightHTLCs(q) = InFlightHTLCs(p) \cup {a}
    BY <1>4, <1>6, AttemptSets
  <1> QED
    BY <1>4, <1>6, <1>7 DEF q

\* A settled attempt joins the settled ones, a failed one the failed ones.
LEMMA WithOutcomeSets ==
    ASSUME NEW p \in Payment, NEW a \in HTLCs(p)
    PROVE  /\ FailedHTLCs(WithSettle(p, a)) = FailedHTLCs(p)
           /\ SettledHTLCs(WithSettle(p, a)) = SettledHTLCs(p) \cup {a}
           /\ FailedHTLCs(WithFailure(p, a)) = FailedHTLCs(p) \cup {a}
           /\ SettledHTLCs(WithFailure(p, a)) = SettledHTLCs(p)
  <1> DEFINE q == WithSettle(p, a)
             r == WithFailure(p, a)
  <1>1. a \in AttemptIds /\ p.htlcs[a] \in HTLCAttempt
    BY DEF HTLCs, Payment
  <1>2. HTLCs(q) = HTLCs(p) /\ HTLCs(r) = HTLCs(p)
    BY HTLCsAfterOutcome
  <1>3. /\ \A b \in HTLCs(p) \ {a} : q.htlcs[b] = p.htlcs[b]
        /\ q.htlcs[a].settle /\ q.htlcs[a].failure = p.htlcs[a].failure
    BY <1>1 DEF WithSettle, HTLCs, Payment, HTLCAttempt
  <1>4. /\ \A b \in HTLCs(p) \ {a} : r.htlcs[b] = p.htlcs[b]
        /\ r.htlcs[a].failure /\ r.htlcs[a].settle = p.htlcs[a].settle
    BY <1>1 DEF WithFailure, HTLCs, Payment, HTLCAttempt
  <1> HIDE DEF q, r
  <1>5. FailedHTLCs(q) = FailedHTLCs(p) /\ SettledHTLCs(q) = SettledHTLCs(p) \cup {a}
    BY <1>2, <1>3 DEF FailedHTLCs, SettledHTLCs
  <1>6. FailedHTLCs(r) = FailedHTLCs(p) \cup {a} /\ SettledHTLCs(r) = SettledHTLCs(p)
    BY <1>2, <1>4 DEF FailedHTLCs, SettledHTLCs
  <1> QED
    BY <1>5, <1>6 DEF q, r

\* A reason changes no attempt.
LEMMA WithReasonSets ==
    ASSUME NEW p \in Payment, NEW reason
    PROVE  /\ HTLCs(WithReason(p, reason)) = HTLCs(p)
           /\ FailedHTLCs(WithReason(p, reason)) = FailedHTLCs(p)
           /\ SettledHTLCs(WithReason(p, reason)) = SettledHTLCs(p)
           /\ InFlightHTLCs(WithReason(p, reason)) = InFlightHTLCs(p)
  BY DEF WithReason, HTLCs, FailedHTLCs, SettledHTLCs, InFlightHTLCs, Payment

\* Without the failed attempts the others are as before.
LEMMA WithoutFailedSets ==
    ASSUME NEW p \in Payment
    PROVE  LET q == WithoutFailedHTLCs(p)
           IN  /\ HTLCs(q) = HTLCs(p) \ FailedHTLCs(p)
               /\ FailedHTLCs(q) = {}
               /\ SettledHTLCs(q) = SettledHTLCs(p) \ FailedHTLCs(p)
               /\ InFlightHTLCs(q) = InFlightHTLCs(p)
  <1> DEFINE q == WithoutFailedHTLCs(p)
  <1>1. HTLCs(q) = HTLCs(p) \ FailedHTLCs(p)
    BY DEF WithoutFailedHTLCs, HTLCs, FailedHTLCs, Payment
  <1>2. \A b \in HTLCs(q) : q.htlcs[b] = p.htlcs[b]
    BY DEF WithoutFailedHTLCs, HTLCs, FailedHTLCs, Payment
  <1> HIDE DEF q
  <1>3. FailedHTLCs(q) = {} /\ SettledHTLCs(q) = SettledHTLCs(p) \ FailedHTLCs(p)
    BY <1>1, <1>2 DEF SettledHTLCs, FailedHTLCs
  <1>4. InFlightHTLCs(q) = InFlightHTLCs(p)
    BY <1>1, <1>3, AttemptSets
  <1> QED
    BY <1>1, <1>3, <1>4 DEF q

-----------------------------------------------------------------------------
(* What is sent.                                                           *)

\* The amounts of the attempts of a payment.
Amts(p) == [a \in HTLCs(p) |-> p.htlcs[a].amt]

\* The attempts that count.
Sent(p) == HTLCs(p) \ FailedHTLCs(p)

\* SentAmt is the sum of their amounts.
LEMMA SentSum ==
    ASSUME NEW p \in Payment, IsFiniteSet(HTLCs(p))
    PROVE  /\ SentAmt(p) = Sum(Amts(p), Sent(p))
           /\ IsFiniteSet(Sent(p))
           /\ \A a \in HTLCs(p) : Amts(p)[a] \in Nat \ {0}
  <1>1. IsFiniteSet(Sent(p)) /\ Sent(p) \in SUBSET HTLCs(p)
    BY FS_Subset DEF Sent
  <1>2. SentAmt(p) = Sum([a \in Sent(p) |-> p.htlcs[a].amt], Sent(p))
    BY <1>1, MapSumAmt DEF SentAmt, Sent
  <1>3. \A a \in Sent(p) : [b \in Sent(p) |-> p.htlcs[b].amt][a] = Amts(p)[a]
    BY <1>1 DEF Amts
  <1>4. \A a \in HTLCs(p) : Amts(p)[a] \in Nat \ {0}
    BY DEF Amts, HTLCs, Payment, HTLCAttempt
  <1> QED
    BY <1>1, <1>2, <1>3, <1>4, SumSame

\* Nothing is sent when every attempt failed.
LEMMA NothingSent ==
    ASSUME NEW p, HTLCs(p) \ FailedHTLCs(p) = {}
    PROVE  SentAmt(p) = 0
  <1>1. SentAmt(p) = MapThenSumSet(LAMBDA a : p.htlcs[a].amt, {})
    BY DEF SentAmt
  <1>2. MapThenSumSet(LAMBDA a : p.htlcs[a].amt, {}) = 0
    BY DEF MapThenSumSet, MapThenFoldSet
  <1> QED
    BY <1>1, <1>2

\* Each attempt that counts is within what is sent.
LEMMA SentBounds ==
    ASSUME NEW p \in Payment, IsFiniteSet(HTLCs(p))
    PROVE  /\ SentAmt(p) \in Nat
           /\ \A a \in Sent(p) : p.htlcs[a].amt <= SentAmt(p)
           /\ \A a, b \in Sent(p) : a # b => p.htlcs[a].amt + p.htlcs[b].amt <= SentAmt(p)
  <1> DEFINE f == Amts(p)
             S == Sent(p)
  <1>1. /\ SentAmt(p) = Sum(f, S) /\ IsFiniteSet(S)
        /\ \A a \in S : f[a] \in Nat /\ f[a] = p.htlcs[a].amt
    BY SentSum DEF Sent, Amts
  <1> HIDE DEF f, S
  <1>2. Sum(f, S) \in Nat /\ \A a \in S : f[a] <= Sum(f, S)
    BY <1>1, SumMonotone
  <1>3. ASSUME NEW a \in S, NEW b \in S, a # b
        PROVE  f[a] + f[b] <= Sum(f, S)
    <2>1. Sum(f, S) = f[a] + Sum(f, S \ {a})
      BY <1>1, SumElement
    <2>2. b \in S \ {a} /\ S \ {a} \in SUBSET S
      BY <1>3
    <2>3. f[b] <= Sum(f, S \ {a}) /\ Sum(f, S \ {a}) \in Nat
      BY <1>1, <2>2, SumMonotone
    <2> QED
      BY <1>1, <2>1, <2>3
  <1> QED
    BY <1>1, <1>2, <1>3 DEF S

\* Two payments with the same amounts of what counts have sent the same.
LEMMA SentSame ==
    ASSUME NEW p \in Payment, NEW q \in Payment,
           IsFiniteSet(HTLCs(p)), IsFiniteSet(HTLCs(q)), Sent(q) \in SUBSET Sent(p),
           \A a \in Sent(q) : q.htlcs[a].amt = p.htlcs[a].amt
    PROVE  /\ SentAmt(q) <= SentAmt(p)
           /\ Sent(q) = Sent(p) => SentAmt(q) = SentAmt(p)
  <1>1. /\ SentAmt(p) = Sum(Amts(p), Sent(p)) /\ IsFiniteSet(Sent(p))
        /\ SentAmt(q) = Sum(Amts(q), Sent(q)) /\ IsFiniteSet(Sent(q))
        /\ \A a \in Sent(p) : Amts(p)[a] \in Nat
    BY SentSum DEF Sent
  <1>2. \A a \in Sent(q) : Amts(q)[a] = Amts(p)[a]
    BY DEF Amts, Sent
  <1>3. Sum(Amts(q), Sent(q)) = Sum(Amts(p), Sent(q))
    BY <1>1, <1>2, SumSame
  <1>4. /\ Sum(Amts(p), Sent(q)) <= Sum(Amts(p), Sent(p))
    BY <1>1, SumMonotone
  <1> QED
    BY <1>1, <1>3, <1>4

\* A new attempt adds its amount.
LEMMA SentAfterAttempt ==
    ASSUME NEW p \in Payment, IsFiniteSet(HTLCs(p)),
           NEW a \in AttemptIds, a \notin HTLCs(p),
           NEW amt \in Nat \ {0}, NEW mpp \in Mpps \cup {NoMpp}
    PROVE  /\ IsFiniteSet(HTLCs(WithAttempt(p, a, amt, mpp)))
           /\ SentAmt(WithAttempt(p, a, amt, mpp)) = SentAmt(p) + amt
  <1> DEFINE q == WithAttempt(p, a, amt, mpp)
  <1>1. q \in Payment
    BY WithAttemptType
  <1>2. /\ HTLCs(q) = HTLCs(p) \cup {a}
        /\ FailedHTLCs(q) = FailedHTLCs(p)
    BY WithAttemptSets DEF HTLCs
  <1>3. /\ q.htlcs[a].amt = amt
        /\ \A b \in HTLCs(p) : q.htlcs[b] = p.htlcs[b]
    BY DEF WithAttempt, Payment, HTLCs
  <1> HIDE DEF q
  <1>4. IsFiniteSet(HTLCs(q))
    BY <1>2, FS_AddElement
  <1>5. /\ SentAmt(p) = Sum(Amts(p), Sent(p)) /\ IsFiniteSet(Sent(p))
        /\ SentAmt(q) = Sum(Amts(q), Sent(q))
        /\ \A b \in HTLCs(q) : Amts(q)[b] \in Nat
    BY <1>1, <1>4, SentSum
  <1>6. Sent(q) = Sent(p) \cup {a} /\ a \notin Sent(p)
    BY <1>2, AttemptSets DEF Sent
  <1>7. /\ \A b \in Sent(p) : Amts(q)[b] = Amts(p)[b] /\ Amts(q)[b] \in Nat
        /\ Amts(q)[a] = amt
    BY <1>2, <1>3, <1>5 DEF Amts, Sent
  <1>8. Sum(Amts(q), Sent(p) \cup {a}) = Sum(Amts(q), Sent(p)) + amt
    BY <1>5, <1>6, <1>7, SumAdd
  <1>9. Sum(Amts(q), Sent(p)) = Sum(Amts(p), Sent(p))
    BY <1>5, <1>7, SumSame
  <1> QED
    BY <1>4, <1>5, <1>6, <1>8, <1>9 DEF q

\* Settling an attempt sends nothing more, failing one frees its amount.
LEMMA SentAfterOutcome ==
    ASSUME NEW p \in Payment, IsFiniteSet(HTLCs(p)), NEW a \in HTLCs(p)
    PROVE  /\ SentAmt(WithSettle(p, a)) = SentAmt(p)
           /\ SentAmt(WithFailure(p, a)) <= SentAmt(p)
           /\ IsFiniteSet(HTLCs(WithSettle(p, a)))
           /\ IsFiniteSet(HTLCs(WithFailure(p, a)))
  <1> DEFINE q == WithSettle(p, a)
             r == WithFailure(p, a)
  <1>1. q \in Payment /\ r \in Payment
    BY WithOutcomeType
  <1>2. HTLCs(q) = HTLCs(p) /\ HTLCs(r) = HTLCs(p)
    BY HTLCsAfterOutcome
  <1>3. FailedHTLCs(q) = FailedHTLCs(p) /\ FailedHTLCs(r) = FailedHTLCs(p) \cup {a}
    BY WithOutcomeSets
  <1>4. a \in AttemptIds /\ p.htlcs[a] \in HTLCAttempt
    BY DEF HTLCs, Payment
  <1>5. \A b \in HTLCs(p) : q.htlcs[b].amt = p.htlcs[b].amt /\ r.htlcs[b].amt = p.htlcs[b].amt
    BY <1>4 DEF WithSettle, WithFailure, HTLCs, Payment, HTLCAttempt
  <1> HIDE DEF q, r
  <1>6. SentAmt(q) = SentAmt(p)
    <2>1. Sent(q) = Sent(p) /\ \A b \in Sent(q) : q.htlcs[b].amt = p.htlcs[b].amt
      BY <1>2, <1>3, <1>5 DEF Sent
    <2> QED
      BY <1>1, <1>2, <2>1, SentSame
  <1>7. SentAmt(r) <= SentAmt(p)
    <2>1. Sent(r) \in SUBSET Sent(p) /\ \A b \in Sent(r) : r.htlcs[b].amt = p.htlcs[b].amt
      BY <1>2, <1>3, <1>5 DEF Sent
    <2> QED
      BY <1>1, <1>2, <2>1, SentSame
  <1> QED
    BY <1>2, <1>6, <1>7 DEF q, r

\* A reason and the deletion of failed attempts send nothing.
LEMMA SentOtherwise ==
    ASSUME NEW p \in Payment, IsFiniteSet(HTLCs(p))
    PROVE  /\ \A reason \in Reasons \cup {NoReason} :
                /\ SentAmt(WithReason(p, reason)) = SentAmt(p)
                /\ IsFiniteSet(HTLCs(WithReason(p, reason)))
           /\ SentAmt(WithoutFailedHTLCs(p)) = SentAmt(p)
           /\ IsFiniteSet(HTLCs(WithoutFailedHTLCs(p)))
  <1>1. ASSUME NEW reason \in Reasons \cup {NoReason}
        PROVE  /\ SentAmt(WithReason(p, reason)) = SentAmt(p)
               /\ IsFiniteSet(HTLCs(WithReason(p, reason)))
    <2> DEFINE q == WithReason(p, reason)
    <2>1. q \in Payment /\ q.htlcs = p.htlcs
      BY WithReasonType DEF WithReason, Payment
    <2>2. HTLCs(q) = HTLCs(p) /\ FailedHTLCs(q) = FailedHTLCs(p)
      BY WithReasonSets
    <2> HIDE DEF q
    <2>3. Sent(q) = Sent(p)
      BY <2>2 DEF Sent
    <2>4. SentAmt(q) = SentAmt(p)
      BY <2>1, <2>2, <2>3, SentSame
    <2> QED
      BY <2>2, <2>4 DEF q
  <1>2. /\ SentAmt(WithoutFailedHTLCs(p)) = SentAmt(p)
        /\ IsFiniteSet(HTLCs(WithoutFailedHTLCs(p)))
    <2> DEFINE q == WithoutFailedHTLCs(p)
    <2>1. q \in Payment
      BY WithoutFailedType
    <2>2. HTLCs(q) = HTLCs(p) \ FailedHTLCs(p) /\ FailedHTLCs(q) = {}
      BY WithoutFailedSets
    <2>3. \A a \in HTLCs(q) : q.htlcs[a] = p.htlcs[a]
      BY DEF WithoutFailedHTLCs, HTLCs, Payment
    <2> HIDE DEF q
    <2>4. Sent(q) = Sent(p) /\ IsFiniteSet(HTLCs(q))
      BY <2>2, FS_Subset DEF Sent
    <2>5. SentAmt(q) = SentAmt(p)
      BY <2>1, <2>3, <2>4, SentSame DEF Sent
    <2> QED
      BY <2>4, <2>5 DEF q
  <1> QED
    BY <1>1, <1>2
-----------------------------------------------------------------------------
(* Payments whose attempts fit together.  The checks of RegisterAttempt    *)
(* look at what is sent and at the attempts in flight; what they establish *)
(* for the payment has to be kept by every other transaction.              *)

\* What is sent is within the value.
Covered(p) == IsFiniteSet(HTLCs(p)) /\ SentAmt(p) <= p.value

\* An attempt without MPP record carries the whole value.
WholeWithoutMpp(p) ==
    \A a \in HTLCs(p) : p.htlcs[a].mpp = NoMpp => p.htlcs[a].amt = p.value

\* The attempts in flight are shards of one payment.
Agree(p) ==
    \A a, b \in InFlightHTLCs(p) : a # b =>
        /\ p.htlcs[a].mpp = p.htlcs[b].mpp
        /\ p.htlcs[a].mpp # NoMpp

Sound(p) == Covered(p) /\ WholeWithoutMpp(p) /\ Agree(p)

\* A fresh payment is sound.
LEMMA NewPaymentSound ==
    ASSUME NEW value \in Nat \ {0}
    PROVE  Sound(NewPayment(value))
  <1> DEFINE p == NewPayment(value)
  <1>1. HTLCs(p) = {} /\ p.value = value
    BY NewPaymentSets DEF NewPayment
  <1> HIDE DEF p
  <1>2. SentAmt(p) = 0
    BY <1>1, NothingSent
  <1> QED
    BY <1>1, <1>2, FS_EmptySet
    DEF Sound, Covered, WholeWithoutMpp, Agree, InFlightHTLCs, p

\* An attempt that passes the checks of RegisterAttempt keeps the payment
\* sound: were one without MPP record in flight beside it, that one would
\* have used up the value.
LEMMA WithAttemptSound ==
    ASSUME NEW p \in Payment, Sound(p), NEW a \in AttemptIds \ HTLCs(p),
           NEW amt \in Nat \ {0}, NEW mpp \in Mpps \cup {NoMpp},
           CanRegister(p, amt, mpp)
    PROVE  Sound(WithAttempt(p, a, amt, mpp))
  <1> DEFINE q == WithAttempt(p, a, amt, mpp)
  <1>1. /\ IsFiniteSet(HTLCs(p)) /\ SentAmt(p) <= p.value
        /\ p.value \in Nat /\ SentAmt(p) + amt <= p.value
        /\ mpp = NoMpp => amt = p.value
        /\ \A b \in InFlightHTLCs(p) : p.htlcs[b].mpp = mpp
    BY DEF Sound, Covered, CanRegister, Payment
  <1>2. /\ HTLCs(q) = HTLCs(p) \cup {a}
        /\ InFlightHTLCs(q) = InFlightHTLCs(p) \cup {a}
        /\ InFlightHTLCs(p) \subseteq HTLCs(p)
    BY WithAttemptSets, AttemptSets
  <1>3. /\ q.value = p.value
        /\ q.htlcs[a].amt = amt /\ q.htlcs[a].mpp = mpp
        /\ \A b \in HTLCs(p) : q.htlcs[b] = p.htlcs[b]
    BY DEF WithAttempt, Payment, HTLCs
  <1>4. Covered(q)
    <2>1. IsFiniteSet(HTLCs(q)) /\ SentAmt(q) = SentAmt(p) + amt
      BY <1>1, SentAfterAttempt
    <2> HIDE DEF q
    <2> QED
      BY <1>1, <1>3, <2>1 DEF Covered
  <1> HIDE DEF q
  <1>5. WholeWithoutMpp(q)
    BY <1>1, <1>2, <1>3 DEF Sound, WholeWithoutMpp
  <1>6. ASSUME NEW b \in InFlightHTLCs(p) PROVE mpp # NoMpp
    <2> SUFFICES ASSUME mpp = NoMpp PROVE FALSE
      OBVIOUS
    <2>1. b \in HTLCs(p) /\ p.htlcs[b].amt = p.value
      BY <1>1, <1>2 DEF Sound, WholeWithoutMpp
    <2>2. b \in Sent(p)
      BY <1>6, AttemptSets DEF Sent
    <2>3. SentAmt(p) \in Nat /\ p.value <= SentAmt(p)
      BY <1>1, <2>1, <2>2, SentBounds
    <2> QED
      BY <1>1, <2>3
  <1>7. Agree(q)
    BY <1>1, <1>2, <1>3, <1>6 DEF Sound, Agree
  <1> QED
    BY <1>4, <1>5, <1>7 DEF Sound, q

\* A payment of the same value whose attempts, those in flight and those that
\* count are among those of a sound one is sound.
LEMMA SoundPart ==
    ASSUME NEW p \in Payment, Sound(p), NEW q \in Payment,
           q.value = p.value, SentAmt(q) <= SentAmt(p), IsFiniteSet(HTLCs(q)),
           HTLCs(q) \subseteq HTLCs(p), InFlightHTLCs(q) \subseteq InFlightHTLCs(p),
           \A a \in HTLCs(q) : /\ q.htlcs[a].amt = p.htlcs[a].amt
                               /\ q.htlcs[a].mpp = p.htlcs[a].mpp
    PROVE  Sound(q)
  <1>1. Covered(q)
    <2>1. IsFiniteSet(HTLCs(p)) /\ SentAmt(p) <= p.value
      BY DEF Sound, Covered
    <2>2. SentAmt(p) \in Nat /\ SentAmt(q) \in Nat /\ p.value \in Nat
      BY <2>1, SentBounds DEF Payment
    <2> QED
      BY <2>1, <2>2 DEF Covered
  <1>2. WholeWithoutMpp(q)
    BY DEF Sound, WholeWithoutMpp
  <1>3. Agree(q)
    BY AttemptSets DEF Sound, Agree
  <1> QED
    BY <1>1, <1>2, <1>3 DEF Sound

\* Neither an outcome nor a reason nor the deletion of failed attempts can
\* take that away.
LEMMA UpdateSound ==
    ASSUME NEW p \in Payment, Sound(p)
    PROVE  /\ \A a \in HTLCs(p) : Sound(WithSettle(p, a)) /\ Sound(WithFailure(p, a))
           /\ \A reason \in Reasons : Sound(WithReason(p, reason))
           /\ Sound(WithoutFailedHTLCs(p))
  <1>1. IsFiniteSet(HTLCs(p)) /\ SentAmt(p) \in Nat
    BY SentBounds DEF Sound, Covered
  <1>2. ASSUME NEW a \in HTLCs(p) PROVE Sound(WithSettle(p, a)) /\ Sound(WithFailure(p, a))
    <2> DEFINE q == WithSettle(p, a)
               r == WithFailure(p, a)
    <2>1. q \in Payment /\ r \in Payment
      BY WithOutcomeType
    <2>2. HTLCs(q) = HTLCs(p) /\ HTLCs(r) = HTLCs(p)
      BY HTLCsAfterOutcome
    <2>3. /\ SentAmt(q) = SentAmt(p) /\ SentAmt(r) <= SentAmt(p)
          /\ IsFiniteSet(HTLCs(q)) /\ IsFiniteSet(HTLCs(r))
      BY <1>1, SentAfterOutcome
    <2>4. /\ InFlightHTLCs(q) \subseteq InFlightHTLCs(p)
          /\ InFlightHTLCs(r) \subseteq InFlightHTLCs(p)
      <3>1. /\ FailedHTLCs(p) \subseteq FailedHTLCs(q)
            /\ FailedHTLCs(p) \subseteq FailedHTLCs(r)
            /\ SettledHTLCs(p) \subseteq SettledHTLCs(q)
            /\ SettledHTLCs(p) \subseteq SettledHTLCs(r)
        BY WithOutcomeSets
      <3> HIDE DEF q, r
      <3> QED
        BY <2>2, <3>1, AttemptSets
    <2>5. a \in AttemptIds /\ p.htlcs[a] \in HTLCAttempt
      BY DEF HTLCs, Payment
    <2>6. /\ q.value = p.value /\ r.value = p.value
          /\ \A b \in HTLCs(p) : /\ q.htlcs[b].amt = p.htlcs[b].amt
                                 /\ q.htlcs[b].mpp = p.htlcs[b].mpp
                                 /\ r.htlcs[b].amt = p.htlcs[b].amt
                                 /\ r.htlcs[b].mpp = p.htlcs[b].mpp
      BY <2>5 DEF WithSettle, WithFailure, HTLCs, Payment, HTLCAttempt
    <2> HIDE DEF q, r
    <2>7. Sound(q)
      BY <1>1, <2>1, <2>2, <2>3, <2>4, <2>6, SoundPart
    <2>8. Sound(r)
      BY <2>1, <2>2, <2>3, <2>4, <2>6, SoundPart
    <2> QED
      BY <2>7, <2>8 DEF q, r
  <1>3. ASSUME NEW reason \in Reasons PROVE Sound(WithReason(p, reason))
    <2> DEFINE q == WithReason(p, reason)
    <2>1. q \in Payment /\ q.value = p.value /\ q.htlcs = p.htlcs
      BY WithReasonType DEF WithReason, Payment
    <2>2. HTLCs(q) = HTLCs(p) /\ InFlightHTLCs(q) = InFlightHTLCs(p)
      BY WithReasonSets
    <2>3. SentAmt(q) = SentAmt(p)
      BY <1>1, SentOtherwise
    <2> HIDE DEF q
    <2>4. Sound(q)
      BY <1>1, <2>1, <2>2, <2>3, SoundPart
    <2> QED
      BY <2>4 DEF q
  <1>4. Sound(WithoutFailedHTLCs(p))
    <2> DEFINE q == WithoutFailedHTLCs(p)
    <2>1. q \in Payment /\ q.value = p.value
      BY WithoutFailedType DEF WithoutFailedHTLCs, Payment
    <2>2. HTLCs(q) \subseteq HTLCs(p) /\ InFlightHTLCs(q) = InFlightHTLCs(p)
      BY WithoutFailedSets
    <2>3. SentAmt(q) = SentAmt(p) /\ IsFiniteSet(HTLCs(q))
      BY <1>1, SentOtherwise
    <2>4. \A a \in HTLCs(q) : q.htlcs[a] = p.htlcs[a]
      BY DEF WithoutFailedHTLCs, HTLCs, Payment
    <2> HIDE DEF q
    <2>5. Sound(q)
      BY <1>1, <2>1, <2>2, <2>3, <2>4, SoundPart
    <2> QED
      BY <2>5 DEF q
  <1> QED
    BY <1>2, <1>3, <1>4

-----------------------------------------------------------------------------
(* Typing.                                                                 *)

\* An update of one payment by a well-typed record keeps the state typed.
LEMMA UpdateType ==
    ASSUME TypeOK, NEW h \in Hashes, NEW p \in Payment, Update(h, p),
           usedIds' \subseteq AttemptIds
    PROVE  TypeOK'
  BY DEF TypeOK, Update, memory

\* Deleting payments or their failed attempts keeps the state typed.
LEMMA DeletePaymentsType ==
    ASSUME TypeOK, NEW failedOnly \in BOOLEAN, NEW failedHtlcsOnly \in BOOLEAN,
           DeletePayments(failedOnly, failedHtlcsOnly)
    PROVE  TypeOK'
  <1> DEFINE selected == Selected(failedOnly)
             deleted == IF failedHtlcsOnly THEN {} ELSE selected
  <1>1. /\ payments' = [h \in Hashes |->
                IF h \in deleted THEN NoPayment
                ELSE IF h \in selected THEN WithoutFailedHTLCs(payments[h])
                ELSE payments[h]]
        /\ index' = {e \in index : \A h \in deleted : e.seq # seqNum[h]}
        /\ seqNum' = [h \in Hashes |-> IF h \in deleted THEN 0
                                                        ELSE seqNum[h]]
    BY DEF DeletePayments
  <1>2. \A h \in selected : payments[h] \in Payment
    BY DEF Selected, TypeOK
  <1>3. \A h \in selected : WithoutFailedHTLCs(payments[h]) \in Payment
    BY <1>2, WithoutFailedType
  <1> HIDE DEF selected, deleted
  <1>4. payments' \in [Hashes -> Payment \cup {NoPayment}]
    BY <1>1, <1>3 DEF TypeOK
  <1>5. seqNum' \in [Hashes -> Nat] /\ index' \subseteq IndexEntry
    BY <1>1 DEF TypeOK
  <1> QED
    BY <1>4, <1>5 DEF TypeOK, DeletePayments, memory

\* Every transaction of PaymentControl leaves the buckets, the index and the
\* reserved block well typed.
THEOREM Typing == Spec => []TypeOK
  <1>1. Init => TypeOK
    BY PaymentControlAssumption DEF Init, TypeOK
  <1>2. TypeOK /\ [Next]_vars => TypeOK'
    <2> SUFFICES ASSUME TypeOK, [Next]_vars PROVE TypeOK'
      OBVIOUS
    <2>1. ASSUME NEW c \in Callers, NEW h \in Hashes, NEW value \in Values,
                 NextPaymentSequence(c, h, value)
          PROVE  TypeOK'
      <3>1. [hash |-> h, value |-> value, seq |-> currPaymentSeq'] \in InitCall
              /\ bucketSequence' \in Nat /\ storedPaymentSeq' \in Nat
              /\ currPaymentSeq' \in Nat
        BY <2>1, PaymentControlAssumption
        DEF NextPaymentSequence, TypeOK, InitCall
      <3> QED
        BY <2>1, <3>1 DEF NextPaymentSequence, TypeOK
    <2>2. ASSUME NEW c \in Callers, InitPayment(c)
          PROVE  TypeOK'
      <3>1. inits[c] \in InitCall
        BY <2>2 DEF InitPayment, TypeOK
      <3>2. NewPayment(inits[c].value) \in Payment
        BY <3>1, NewPaymentType, PaymentControlAssumption DEF InitCall
      <3>3. index' \subseteq IndexEntry
        BY <2>2, <3>1 DEF InitPayment, TypeOK, IndexEntry, InitCall
      <3>4. /\ payments' \in [Hashes -> Payment \cup {NoPayment}]
            /\ seqNum' \in [Hashes -> Nat]
        BY <2>2, <3>1, <3>2 DEF InitPayment, TypeOK, InitCall
      <3> QED
        BY <2>2, <3>3, <3>4 DEF InitPayment, TypeOK
    <2>3. ASSUME NEW c \in Callers, InitPaymentRefused(c)
          PROVE  TypeOK'
      BY <2>3 DEF InitPaymentRefused, TypeOK
    <2>4. ASSUME NEW h \in Hashes, NEW a \in AttemptIds, NEW amt \in Amounts,
                 NEW mpp \in Mpps \cup {NoMpp}, RegisterAttempt(h, a, amt, mpp)
          PROVE  TypeOK'
      <3>1. payments[h] \in Payment /\ amt \in Nat \ {0}
        BY <2>4, PaymentControlAssumption
        DEF RegisterAttempt, Fetchable, TypeOK
      <3>2. WithAttempt(payments[h], a, amt, mpp) \in Payment
        BY <3>1, WithAttemptType
      <3> QED
        BY <2>4, <3>2, UpdateType DEF RegisterAttempt, TypeOK
    <2>5. ASSUME NEW h \in Hashes, NEW a \in AttemptIds,
                 SettleAttempt(h, a) \/ FailAttempt(h, a)
          PROVE  TypeOK'
      <3>1. payments[h] \in Payment /\ a \in HTLCs(payments[h])
        BY <2>5 DEF SettleAttempt, FailAttempt, Fetchable, CanUpdateHtlc,
                    TypeOK
      <3>2. /\ WithSettle(payments[h], a) \in Payment
            /\ WithFailure(payments[h], a) \in Payment
        BY <3>1, WithOutcomeType
      <3> QED
        BY <2>5, <3>2, UpdateType DEF SettleAttempt, FailAttempt, TypeOK
    <2>6. ASSUME NEW h \in Hashes, NEW reason \in Reasons, Fail(h, reason)
          PROVE  TypeOK'
      <3>1. WithReason(payments[h], reason) \in Payment
        BY <2>6, WithReasonType DEF Fail, Fetchable, TypeOK
      <3> QED
        BY <2>6, <3>1, UpdateType DEF Fail, TypeOK
    <2>7. ASSUME NEW h \in Hashes, DeletePayment(h)
          PROVE  TypeOK'
      BY <2>7 DEF DeletePayment, TypeOK, memory
    <2>8. ASSUME NEW h \in Hashes, DeletePaymentFailedHtlcs(h)
          PROVE  TypeOK'
      <3>1. WithoutFailedHTLCs(payments[h]) \in Payment
        BY <2>8, WithoutFailedType
        DEF DeletePaymentFailedHtlcs, CanDelete, Fetchable, TypeOK
      <3> QED
        BY <2>8, <3>1, UpdateType DEF DeletePaymentFailedHtlcs, TypeOK
    <2>9. CASE Restart
      BY <2>9 DEF Restart, TypeOK, disk
    <2>10. CASE UNCHANGED vars
      BY <2>10 DEF vars, TypeOK
    <2> QED
      BY <2>1, <2>2, <2>3, <2>4, <2>5, <2>6, <2>7, <2>8, <2>9, <2>10,
         DeletePaymentsType DEF Next, DeleteFailedAttempts
  <1> QED
    BY <1>1, <1>2, PTL DEF Spec

-----------------------------------------------------------------------------
(* The sequence index.  IndexConsistent is not inductive: it needs that    *)
(* the numbers in use and the numbers callers hold are pairwise different  *)
(* and lie below the next number nextPaymentSequence hands out.            *)

Present(h) == payments[h] # NoPayment

\* The next number is above `last`: the end of the block after a restart.
last == IF currPaymentSeq = 0 THEN bucketSequence ELSE currPaymentSeq

\* The block: all of it is handed out only when the bucket's sequence ends it.
BlockInv ==
    /\ currPaymentSeq <= storedPaymentSeq
    /\ storedPaymentSeq \in {0, bucketSequence}
    /\ currPaymentSeq = 0 => storedPaymentSeq = 0

\* The numbers of the payments.
NumbersInv ==
    /\ \A h \in Hashes : /\ seqNum[h] <= last
                         /\ Present(h) <=> seqNum[h] # 0
    /\ \A g, h \in Hashes : seqNum[g] = seqNum[h] /\ seqNum[g] # 0 => g = h

\* The number a caller holds is in use nowhere else.
Holds(c) == inits[c] # NoInit

HeldInv ==
    /\ \A c \in Callers : Holds(c) => /\ inits[c].seq \in Nat \ {0}
                                     /\ inits[c].seq <= last
    /\ \A c \in Callers, h \in Hashes : Holds(c) => seqNum[h] # inits[c].seq
    /\ \A c, d \in Callers :
          Holds(c) /\ Holds(d) /\ inits[c].seq = inits[d].seq => c = d

SequenceInv == BlockInv /\ NumbersInv /\ HeldInv

IndexInv == TypeOK /\ SequenceInv /\ IndexConsistent

\* A step that changes neither the buckets' presence, nor the numbers, nor
\* the memory of the sequence generator preserves the index invariant.
LEMMA IndexInvUnchanged ==
    ASSUME IndexInv, TypeOK', UNCHANGED <<seqNum, index, bucketSequence>>,
           UNCHANGED memory, \A h \in Hashes : Present(h)' <=> Present(h)
    PROVE  IndexInv'
  <1>1. SequenceInv'
    BY DEF IndexInv, SequenceInv, BlockInv, NumbersInv, HeldInv, Holds, memory, last
  <1>2. IndexConsistent'
    BY DEF IndexInv, IndexConsistent, Present
  <1> QED
    BY <1>1, <1>2 DEF IndexInv

\* Updating a present payment preserves the index invariant.
LEMMA IndexInvUpdate ==
    ASSUME IndexInv, TypeOK', NEW h \in Hashes, NEW p \in Payment, Present(h),
           Update(h, p)
    PROVE  IndexInv'
  <1>1. \A g \in Hashes : Present(g)' <=> Present(g)
    BY PaymentControlAssumption DEF Update, Present, IndexInv, TypeOK
  <1> QED
    BY <1>1, IndexInvUnchanged DEF Update

\* Deleting a set of payments with their numbers and their index entries
\* preserves the index invariant.
LEMMA IndexInvDelete ==
    ASSUME IndexInv, TypeOK', NEW D \in SUBSET Hashes,
           \A h \in Hashes : Present(h)' <=> Present(h) /\ h \notin D,
           seqNum' = [h \in Hashes |-> IF h \in D THEN 0 ELSE seqNum[h]],
           index' = {e \in index : \A h \in D : e.seq # seqNum[h]},
           UNCHANGED <<bucketSequence, memory>>
    PROVE  IndexInv'
  <1>1. BlockInv' /\ NumbersInv'
    BY DEF IndexInv, SequenceInv, BlockInv, NumbersInv, memory, last, TypeOK
  <1>3. HeldInv'
    BY DEF IndexInv, SequenceInv, HeldInv, Holds, memory, last, TypeOK
  <1>2. IndexConsistent'
    <2>1. \A g \in Hashes, h \in D : Present(g) /\ g \notin D =>
              seqNum[g] # seqNum[h]
      BY DEF IndexInv, SequenceInv, NumbersInv
    <2>2. \A e \in index : \E h \in Hashes :
              Present(h) /\ e = [seq |-> seqNum[h], hash |-> h]
      BY DEF IndexInv, IndexConsistent, Present
    <2>3. \A h \in Hashes : Present(h) =>
              [seq |-> seqNum[h], hash |-> h] \in index
      BY DEF IndexInv, IndexConsistent, Present
    <2>4. \A e \in index' : \E h \in Hashes :
              Present(h)' /\ e = [seq |-> seqNum'[h], hash |-> h]
      BY <2>2
    <2>5. \A h \in Hashes : Present(h)' =>
              [seq |-> seqNum'[h], hash |-> h] \in index'
      BY <2>1, <2>3
    <2> QED
      BY <2>4, <2>5 DEF IndexConsistent, Present
  <1> QED
    BY <1>1, <1>2, <1>3 DEF IndexInv, SequenceInv

\* The index bucket and the payment buckets describe the same payments, for
\* every number of concurrent InitPayment calls and across restarts.
THEOREM IndexSafety == Spec => []IndexConsistent
  <1>1. Init => IndexInv
    BY PaymentControlAssumption
    DEF Init, IndexInv, TypeOK, SequenceInv, BlockInv, NumbersInv, HeldInv, Holds,
        IndexConsistent, Present, last
  <1>2. IndexInv /\ TypeOK' /\ [Next]_vars => IndexInv'
    <2> SUFFICES ASSUME IndexInv, TypeOK', [Next]_vars PROVE IndexInv'
      OBVIOUS
    <2> USE DEF IndexInv
    <2>1. ASSUME NEW c \in Callers, NEW h \in Hashes, NEW value \in Values,
                 NextPaymentSequence(c, h, value)
          PROVE  IndexInv'
      <3>1. /\ last \in Nat
            /\ currPaymentSeq' = last + 1
            /\ last' = last + 1
        BY <2>1 DEF NextPaymentSequence, SequenceInv, BlockInv, TypeOK, last
      <3>2. BlockInv'
        BY <2>1, PaymentControlAssumption
        DEF NextPaymentSequence, SequenceInv, BlockInv, TypeOK
      <3>3. UNCHANGED <<payments, seqNum, index>>
        BY <2>1 DEF NextPaymentSequence
      <3>4. /\ \A g \in Hashes : seqNum[g] \in Nat /\ seqNum[g] < last + 1
            /\ \A d \in Callers : inits[d] # NoInit =>
                  inits[d].seq \in Nat /\ inits[d].seq < last + 1
        BY <3>1 DEF SequenceInv, NumbersInv, HeldInv, Holds, TypeOK
      <3>5. NumbersInv'
        BY <3>1, <3>3, <3>4 DEF SequenceInv, NumbersInv, Present
      <3>6. /\ inits'[c].seq = last + 1
            /\ \A d \in Callers \ {c} : inits'[d] = inits[d]
        BY <2>1, <3>1 DEF NextPaymentSequence, TypeOK
      <3>7. HeldInv'
        <4>1. \A d \in Callers : Holds(d)' =>
                  inits'[d].seq \in Nat \ {0} /\ inits'[d].seq <= last'
          BY <3>1, <3>4, <3>6 DEF HeldInv, Holds, SequenceInv
        <4>2. \A d \in Callers, g \in Hashes :
                  Holds(d)' => seqNum'[g] # inits'[d].seq
          BY <3>1, <3>3, <3>4, <3>6 DEF HeldInv, Holds, SequenceInv
        <4>3. \A d, e \in Callers :
                  Holds(d)' /\ Holds(e)' /\ inits'[d].seq = inits'[e].seq
                      => d = e
          BY <3>1, <3>4, <3>6 DEF HeldInv, Holds, SequenceInv
        <4> QED
          BY <4>1, <4>2, <4>3 DEF HeldInv
      <3> QED
        BY <3>2, <3>3, <3>5, <3>7 DEF SequenceInv, IndexConsistent
    <2>2. ASSUME NEW c \in Callers, InitPayment(c)
          PROVE  IndexInv'
      <3> DEFINE h == inits[c].hash
                 s == inits[c].seq
      <3>1. /\ h \in Hashes /\ s \in Nat /\ s # 0 /\ s <= last
            /\ \A g \in Hashes : seqNum[g] # s
            /\ \A d \in Callers : Holds(d) /\ inits[d].seq = s => d = c
        <4>1. Holds(c) /\ inits[c] \in InitCall
          BY <2>2 DEF InitPayment, TypeOK, Holds
        <4>2. h \in Hashes /\ s \in Nat
          BY <4>1 DEF InitCall
        <4> QED
          BY <4>1, <4>2 DEF SequenceInv, HeldInv
      <3>2. /\ index' = {e \in index : e.seq \notin {seqNum[h], s}}
                            \cup {[seq |-> s, hash |-> h]}
            /\ seqNum' = [seqNum EXCEPT ![h] = s]
            /\ inits' = [inits EXCEPT ![c] = NoInit]
            /\ UNCHANGED <<bucketSequence, currPaymentSeq, storedPaymentSeq>>
        BY <2>2 DEF InitPayment
      <3>3. inits[c].value \in Nat \ {0}
        BY <2>2, PaymentControlAssumption DEF InitPayment, TypeOK, InitCall
      <3>4. NewPayment(inits[c].value) # NoPayment
        BY <3>3, NewPaymentType, PaymentControlAssumption
      <3>5. \A g \in Hashes : Present(g)' <=> Present(g) \/ g = h
        BY <2>2, <3>1, <3>4 DEF InitPayment, Present, TypeOK
      <3> HIDE DEF h, s
      <3>6. SequenceInv'
        <4>1. BlockInv' /\ last' = last
          BY <3>2 DEF SequenceInv, BlockInv, last
        <4>2. /\ seqNum'[h] = s
              /\ \A g \in Hashes \ {h} : seqNum'[g] = seqNum[g]
          BY <3>1, <3>2 DEF TypeOK
        <4>3. NumbersInv'
          BY <3>1, <3>5, <4>1, <4>2 DEF SequenceInv, NumbersInv
        <4>4. /\ inits'[c] = NoInit
              /\ \A d \in Callers \ {c} : inits'[d] = inits[d]
          BY <3>2 DEF TypeOK
        <4>5. HeldInv'
          BY <3>1, <4>1, <4>2, <4>4 DEF SequenceInv, HeldInv, Holds
        <4> QED
          BY <4>1, <4>3, <4>5 DEF SequenceInv
      <3>7. \A e \in index' : \E g \in Hashes :
                Present(g)' /\ e = [seq |-> seqNum'[g], hash |-> g]
        BY <3>1, <3>2, <3>5 DEF IndexConsistent, Present, TypeOK
      <3>8. \A g \in Hashes : Present(g)' =>
                [seq |-> seqNum'[g], hash |-> g] \in index'
        <4> SUFFICES ASSUME NEW g \in Hashes, Present(g)'
                     PROVE  [seq |-> seqNum'[g], hash |-> g] \in index'
          OBVIOUS
        <4>1. CASE g = h
          BY <4>1, <3>1, <3>2 DEF TypeOK
        <4>2. CASE g # h
          <5>1. Present(g) /\ seqNum'[g] = seqNum[g]
            BY <4>2, <3>1, <3>2, <3>5 DEF TypeOK
          <5>2. [seq |-> seqNum[g], hash |-> g] \in index
            BY <5>1 DEF IndexConsistent, Present
          <5>3. seqNum[g] # seqNum[h] /\ seqNum[g] # s
            BY <5>1, <4>2, <3>1 DEF SequenceInv, NumbersInv
          <5> QED
            BY <5>1, <5>2, <5>3, <3>2
        <4> QED
          BY <4>1, <4>2
      <3> QED
        BY <3>6, <3>7, <3>8 DEF IndexConsistent, Present
    <2>3. ASSUME NEW c \in Callers, InitPaymentRefused(c)
          PROVE  IndexInv'
      <3>1. SequenceInv'
        <4>1. /\ inits'[c] = NoInit
              /\ \A d \in Callers \ {c} : inits'[d] = inits[d]
          BY <2>3 DEF InitPaymentRefused, TypeOK
        <4>2. HeldInv'
          BY <2>3, <4>1 DEF InitPaymentRefused, SequenceInv, HeldInv, Holds, last
        <4> QED
          BY <2>3, <4>2 DEF InitPaymentRefused, SequenceInv, BlockInv,
                            NumbersInv, Present, last
      <3> QED
        BY <2>3, <3>1 DEF InitPaymentRefused, IndexConsistent
    <2>4. ASSUME NEW h \in Hashes, NEW p \in Payment, Present(h), Update(h, p)
          PROVE  IndexInv'
      BY <2>4, IndexInvUpdate
    <2>5. ASSUME NEW h \in Hashes, NEW a \in AttemptIds, NEW amt \in Amounts,
                 NEW mpp \in Mpps \cup {NoMpp}, RegisterAttempt(h, a, amt, mpp)
          PROVE  IndexInv'
      <3>1. payments[h] \in Payment /\ amt \in Nat \ {0} /\ Present(h)
        BY <2>5, PaymentControlAssumption
        DEF RegisterAttempt, Fetchable, TypeOK, Present
      <3> QED
        BY <2>4, <2>5, <3>1, WithAttemptType DEF RegisterAttempt
    <2>6. ASSUME NEW h \in Hashes, NEW a \in AttemptIds,
                 SettleAttempt(h, a) \/ FailAttempt(h, a)
          PROVE  IndexInv'
      <3>1. payments[h] \in Payment /\ a \in HTLCs(payments[h]) /\ Present(h)
        BY <2>6 DEF SettleAttempt, FailAttempt, Fetchable, CanUpdateHtlc,
                    TypeOK, Present
      <3> QED
        BY <2>4, <2>6, <3>1, WithOutcomeType DEF SettleAttempt, FailAttempt
    <2>7. ASSUME NEW h \in Hashes, NEW reason \in Reasons, Fail(h, reason)
          PROVE  IndexInv'
      <3>1. payments[h] \in Payment /\ Present(h)
        BY <2>7 DEF Fail, Fetchable, TypeOK, Present
      <3> QED
        BY <2>4, <2>7, <3>1, WithReasonType DEF Fail
    <2>8. ASSUME NEW h \in Hashes, DeletePayment(h)
          PROVE  IndexInv'
      <3>1. \A g \in Hashes : Present(g)' <=> Present(g) /\ g \notin {h}
        BY <2>8 DEF DeletePayment, Present, TypeOK
      <3>2. /\ seqNum' = [g \in Hashes |-> IF g \in {h} THEN 0 ELSE seqNum[g]]
            /\ index' = {e \in index : \A g \in {h} : e.seq # seqNum[g]}
            /\ UNCHANGED <<bucketSequence, memory>>
        BY <2>8 DEF DeletePayment, TypeOK
      <3> QED
        BY <3>1, <3>2, IndexInvDelete
    <2>9. ASSUME NEW h \in Hashes, DeletePaymentFailedHtlcs(h)
          PROVE  IndexInv'
      <3>1. payments[h] \in Payment /\ Present(h)
        BY <2>9 DEF DeletePaymentFailedHtlcs, CanDelete, Fetchable, TypeOK,
                    Present
      <3> QED
        BY <2>4, <2>9, <3>1, WithoutFailedType DEF DeletePaymentFailedHtlcs
    <2>10. ASSUME NEW failedOnly \in BOOLEAN, NEW failedHtlcsOnly \in BOOLEAN,
                  DeletePayments(failedOnly, failedHtlcsOnly)
           PROVE  IndexInv'
      <3> DEFINE selected == Selected(failedOnly)
                 D == IF failedHtlcsOnly THEN {} ELSE selected
      <3>1. \A h \in selected : /\ h \in Hashes
                                /\ Present(h)
                                /\ WithoutFailedHTLCs(payments[h]) # NoPayment
        BY WithoutFailedType, PaymentControlAssumption
        DEF Selected, Present, TypeOK
      <3>2. payments' = [h \in Hashes |->
                IF h \in D THEN NoPayment
                ELSE IF h \in selected THEN WithoutFailedHTLCs(payments[h])
                ELSE payments[h]]
        BY <2>10 DEF DeletePayments
      <3>3. /\ seqNum' = [h \in Hashes |-> IF h \in D THEN 0 ELSE seqNum[h]]
            /\ index' = {e \in index : \A h \in D : e.seq # seqNum[h]}
            /\ UNCHANGED <<bucketSequence, memory>>
        BY <2>10 DEF DeletePayments
      <3>4. D \in SUBSET Hashes
        BY <3>1
      <3> HIDE DEF selected
      <3>5. \A h \in Hashes : Present(h)' <=> Present(h) /\ h \notin D
        BY <3>1, <3>2 DEF Present
      <3> HIDE DEF D
      <3> QED
        BY <3>3, <3>4, <3>5, IndexInvDelete
    <2>11. CASE Restart
      <3>1. SequenceInv'
        <4>1. last <= bucketSequence /\ last' = bucketSequence
          BY <2>11 DEF Restart, SequenceInv, BlockInv, TypeOK, last, disk
        <4>2. BlockInv' /\ HeldInv'
          BY <2>11 DEF Restart, BlockInv, HeldInv, Holds
        <4>3. NumbersInv'
          BY <2>11, <4>1
          DEF Restart, SequenceInv, NumbersInv, Present, TypeOK, last, disk
        <4> QED
          BY <4>2, <4>3 DEF SequenceInv
      <3> QED
        BY <2>11, <3>1 DEF Restart, IndexConsistent, disk
    <2>12. CASE UNCHANGED vars
      BY <2>12, IndexInvUnchanged DEF vars, memory, Present
    <2> QED
      BY <2>1, <2>2, <2>3, <2>5, <2>6, <2>7, <2>8, <2>9, <2>10, <2>11, <2>12
      DEF Next, DeleteFailedAttempts
  <1>3. IndexInv => IndexConsistent
    BY DEF IndexInv
  <1> QED
    BY <1>1, <1>2, <1>3, Typing, PTL DEF Spec

-----------------------------------------------------------------------------
(* Settled attempts.  That no attempt is both settled and failed           *)
(* (updateHtlcKey) is what keeps decidePaymentStatus from taking a payment *)
(* with a settled attempt for a failed one; that identifiers are used once *)
(* is what keeps RegisterAttempt from overwriting a settled attempt.       *)

Exclusive(p) ==
    \A a \in HTLCs(p) : ~(p.htlcs[a].settle /\ p.htlcs[a].failure)

SettledInv ==
    \A h \in Hashes : Present(h) =>
        Exclusive(payments[h]) /\ HTLCs(payments[h]) \subseteq usedIds

\* What a transaction may make of the attempts of a payment.
KeepsSettled(p, q) ==
    SettledHTLCs(p) \subseteq SettledHTLCs(q) /\ Exclusive(q)

\* No attempt has both outcomes.
LEMMA ExclusiveSets ==
    ASSUME NEW p
    PROVE  Exclusive(p) <=> FailedHTLCs(p) \cap SettledHTLCs(p) = {}
  BY DEF Exclusive, FailedHTLCs, SettledHTLCs

\* A new identifier leaves the settled attempts alone.
LEMMA WithAttemptSettled ==
    ASSUME NEW p \in Payment, Exclusive(p), NEW a \in AttemptIds \ HTLCs(p),
           NEW amt \in Nat \ {0}, NEW mpp \in Mpps \cup {NoMpp}
    PROVE  /\ KeepsSettled(p, WithAttempt(p, a, amt, mpp))
           /\ HTLCs(WithAttempt(p, a, amt, mpp)) = HTLCs(p) \cup {a}
  BY ExclusiveSets, WithAttemptSets DEF KeepsSettled

\* Only an attempt without outcome receives one.
LEMMA WithOutcomeSettled ==
    ASSUME NEW p \in Payment, Exclusive(p), NEW a \in AttemptIds,
           CanUpdateHtlc(p, a)
    PROVE  KeepsSettled(p, WithSettle(p, a)) /\ KeepsSettled(p, WithFailure(p, a))
  <1>1. a \in HTLCs(p) /\ a \notin FailedHTLCs(p) /\ a \notin SettledHTLCs(p)
    BY DEF CanUpdateHtlc, FailedHTLCs, SettledHTLCs
  <1> QED
    BY <1>1, ExclusiveSets, WithOutcomeSets DEF KeepsSettled

\* Neither a reason nor the removal of failed attempts touches settled ones.
LEMMA WithoutFailedSettled ==
    ASSUME NEW p \in Payment, Exclusive(p)
    PROVE  /\ \A reason \in Reasons : KeepsSettled(p, WithReason(p, reason))
           /\ KeepsSettled(p, WithoutFailedHTLCs(p))
  BY ExclusiveSets, WithReasonSets, WithoutFailedSets DEF KeepsSettled

\* What a step may do to settled attempts.
Settled(h) == payments[h] # NoPayment /\ HasSettledHTLC(payments[h])

SettledStep ==
    \A h \in Hashes : Settled(h) =>
        \/ payments'[h] = NoPayment
        \/ SettledHTLCs(payments[h]) \subseteq SettledHTLCs(payments'[h])

\* Replacing one payment by a record that keeps its settled attempts.
LEMMA SettledUpdate ==
    ASSUME TypeOK, SettledInv, NEW h \in Hashes, NEW q \in Payment,
           payments' = [payments EXCEPT ![h] = q],
           Present(h) => KeepsSettled(payments[h], q), Exclusive(q),
           usedIds \subseteq usedIds', HTLCs(q) \subseteq usedIds'
    PROVE  SettledInv' /\ SettledStep
  <1>1. /\ payments'[h] = q
        /\ \A g \in Hashes \ {h} : payments'[g] = payments[g]
    BY DEF TypeOK
  <1>2. SettledInv'
    BY <1>1 DEF SettledInv, Present
  <1>3. SettledStep
    BY <1>1 DEF SettledStep, Settled, Present, KeepsSettled
  <1> QED
    BY <1>2, <1>3

\* A failed payment has no settled attempt.
LEMMA FailedNotSettled ==
    ASSUME NEW p \in Payment, Exclusive(p), Initializable(PaymentStatus(p))
    PROVE  SettledHTLCs(p) = {}
  <1>1. SettledHTLCs(p) \ FailedHTLCs(p) = {}
    BY DEF Initializable, PaymentStatus
  <1> QED
    BY <1>1 DEF Exclusive, SettledHTLCs, FailedHTLCs

\* An attempt that is settled stays settled until its payment is deleted as a
\* whole: no InitPayment, no failure and no removal of failed attempts takes
\* it away.
THEOREM SettledSafety == Spec => [][SettledStep]_vars
  <1>1. Init => SettledInv
    BY DEF Init, SettledInv, Present
  <1>2. TypeOK /\ SettledInv /\ [Next]_vars => SettledInv' /\ [SettledStep]_vars
    <2> SUFFICES ASSUME TypeOK, SettledInv, [Next]_vars
                 PROVE  SettledInv' /\ (SettledStep \/ UNCHANGED vars)
      OBVIOUS
    <2>1. ASSUME NEW h \in Hashes, payments[h] # NoPayment
          PROVE  /\ payments[h] \in Payment
                 /\ Present(h)
                 /\ Exclusive(payments[h])
                 /\ HTLCs(payments[h]) \subseteq usedIds
      BY <2>1 DEF TypeOK, SettledInv, Present
    <2>2. ASSUME NEW c \in Callers, InitPayment(c)
          PROVE  SettledInv' /\ SettledStep
      <3> DEFINE h == inits[c].hash
                 q == NewPayment(inits[c].value)
      <3>1. inits[c] \in InitCall
        BY <2>2 DEF InitPayment, TypeOK
      <3>2. h \in Hashes /\ inits[c].value \in Nat \ {0}
        BY <3>1, PaymentControlAssumption DEF InitCall
      <3>3. q \in Payment
        BY <3>2, NewPaymentType
      <3>4. HTLCs(q) = {} /\ Exclusive(q)
        BY DEF NewPayment, HTLCs, Exclusive
      <3>5. /\ payments' = [payments EXCEPT ![h] = q]
            /\ CanInitPayment(h)
            /\ usedIds' = usedIds
        BY <2>2 DEF InitPayment
      <3> HIDE DEF h, q
      <3>6. Present(h) => KeepsSettled(payments[h], q)
        BY <2>1, <3>2, <3>4, <3>5, FailedNotSettled
        DEF CanInitPayment, KeepsSettled, Present
      <3> QED
        BY <3>2, <3>3, <3>4, <3>5, <3>6, SettledUpdate
    <2>3. ASSUME NEW h \in Hashes, NEW a \in AttemptIds, NEW amt \in Amounts,
                 NEW mpp \in Mpps \cup {NoMpp}, RegisterAttempt(h, a, amt, mpp)
          PROVE  SettledInv' /\ SettledStep
      <3> DEFINE q == WithAttempt(payments[h], a, amt, mpp)
      <3>1. /\ payments[h] # NoPayment
            /\ payments' = [payments EXCEPT ![h] = q]
            /\ a \notin usedIds
            /\ usedIds' = usedIds \cup {a}
            /\ amt \in Nat \ {0}
        BY <2>3, PaymentControlAssumption
        DEF RegisterAttempt, Fetchable, Update
      <3>2. a \in AttemptIds \ HTLCs(payments[h])
        BY <2>1, <3>1
      <3>3. q \in Payment
        BY <2>1, <3>1, WithAttemptType
      <3>4. /\ KeepsSettled(payments[h], q)
            /\ HTLCs(q) = HTLCs(payments[h]) \cup {a}
        BY <2>1, <3>1, <3>2, WithAttemptSettled
      <3> HIDE DEF q
      <3> QED
        BY <2>1, <3>1, <3>3, <3>4, SettledUpdate DEF KeepsSettled
    <2>4. ASSUME NEW h \in Hashes, NEW a \in AttemptIds,
                 SettleAttempt(h, a) \/ FailAttempt(h, a)
          PROVE  SettledInv' /\ SettledStep
      <3> DEFINE q == WithSettle(payments[h], a)
                 r == WithFailure(payments[h], a)
      <3>1. /\ payments[h] # NoPayment
            /\ CanUpdateHtlc(payments[h], a)
            /\ \/ payments' = [payments EXCEPT ![h] = q]
               \/ payments' = [payments EXCEPT ![h] = r]
            /\ usedIds' = usedIds
        BY <2>4 DEF SettleAttempt, FailAttempt, Fetchable, Update
      <3>2. a \in HTLCs(payments[h])
        BY <3>1 DEF CanUpdateHtlc
      <3>3. q \in Payment /\ r \in Payment
        BY <2>1, <3>1, <3>2, WithOutcomeType
      <3>4. KeepsSettled(payments[h], q) /\ KeepsSettled(payments[h], r)
        BY <2>1, <3>1, WithOutcomeSettled
      <3>5. HTLCs(q) = HTLCs(payments[h]) /\ HTLCs(r) = HTLCs(payments[h])
        BY <2>1, <3>1, <3>2, HTLCsAfterOutcome
      <3> HIDE DEF q, r
      <3>6. CASE payments' = [payments EXCEPT ![h] = q]
        BY <2>1, <3>1, <3>3, <3>4, <3>5, <3>6, SettledUpdate DEF KeepsSettled
      <3>7. CASE payments' = [payments EXCEPT ![h] = r]
        BY <2>1, <3>1, <3>3, <3>4, <3>5, <3>7, SettledUpdate DEF KeepsSettled
      <3> QED
        BY <3>1, <3>6, <3>7
    <2>5. ASSUME NEW h \in Hashes, NEW reason \in Reasons, Fail(h, reason)
          PROVE  SettledInv' /\ SettledStep
      <3> DEFINE q == WithReason(payments[h], reason)
      <3>1. /\ payments[h] # NoPayment
            /\ payments' = [payments EXCEPT ![h] = q]
            /\ usedIds' = usedIds
        BY <2>5 DEF Fail, Fetchable, Update
      <3>2. q \in Payment /\ HTLCs(q) = HTLCs(payments[h])
        BY <2>1, <3>1, WithReasonType DEF WithReason, HTLCs, Payment
      <3>3. KeepsSettled(payments[h], q)
        BY <2>1, <3>1, WithoutFailedSettled
      <3> HIDE DEF q
      <3> QED
        BY <2>1, <3>1, <3>2, <3>3, SettledUpdate DEF KeepsSettled
    <2>6. ASSUME NEW h \in Hashes, DeletePaymentFailedHtlcs(h)
          PROVE  SettledInv' /\ SettledStep
      <3> DEFINE q == WithoutFailedHTLCs(payments[h])
      <3>1. /\ payments[h] # NoPayment
            /\ payments' = [payments EXCEPT ![h] = q]
            /\ usedIds' = usedIds
        BY <2>6 DEF DeletePaymentFailedHtlcs, CanDelete, Fetchable, Update
      <3>2. q \in Payment
        BY <2>1, <3>1, WithoutFailedType
      <3>3. HTLCs(q) \subseteq HTLCs(payments[h])
        BY DEF WithoutFailedHTLCs, HTLCs
      <3>4. KeepsSettled(payments[h], q)
        BY <2>1, <3>1, WithoutFailedSettled
      <3> HIDE DEF q
      <3> QED
        BY <2>1, <3>1, <3>2, <3>3, <3>4, SettledUpdate DEF KeepsSettled
    <2>7. ASSUME NEW failedOnly \in BOOLEAN, NEW failedHtlcsOnly \in BOOLEAN,
                 DeletePayments(failedOnly, failedHtlcsOnly)
          PROVE  SettledInv' /\ SettledStep
      <3>1. \A h \in Hashes :
              \/ payments'[h] = NoPayment
              \/ payments'[h] = payments[h]
              \/ /\ payments[h] # NoPayment
                 /\ payments'[h] = WithoutFailedHTLCs(payments[h])
        BY <2>7 DEF DeletePayments, Selected
      <3>2. usedIds' = usedIds
        BY <2>7 DEF DeletePayments
      <3>3. \A h \in Hashes : payments[h] # NoPayment =>
              /\ KeepsSettled(payments[h], WithoutFailedHTLCs(payments[h]))
              /\ HTLCs(WithoutFailedHTLCs(payments[h]))
                    \subseteq HTLCs(payments[h])
        BY <2>1, WithoutFailedSettled DEF WithoutFailedHTLCs, HTLCs
      <3>4. SettledInv'
        BY <2>1, <3>1, <3>2, <3>3 DEF SettledInv, Present, KeepsSettled
      <3>5. SettledStep
        BY <3>1, <3>3 DEF SettledStep, Settled, KeepsSettled
      <3> QED
        BY <3>4, <3>5
    <2>8. ASSUME NEW h \in Hashes, DeletePayment(h)
          PROVE  SettledInv' /\ SettledStep
      <3>1. \A g \in Hashes : payments'[g] \in {NoPayment, payments[g]}
        BY <2>8 DEF DeletePayment, TypeOK
      <3> QED
        BY <2>8, <3>1
        DEF DeletePayment, SettledInv, Present, SettledStep, Settled
    <2>9. ASSUME UNCHANGED payments, UNCHANGED usedIds
          PROVE  SettledInv' /\ SettledStep
      BY <2>9 DEF SettledInv, Present, SettledStep, Settled
    <2> QED
      BY <2>2, <2>3, <2>4, <2>5, <2>6, <2>7, <2>8, <2>9
      DEF Next, DeleteFailedAttempts, NextPaymentSequence, InitPaymentRefused,
          Restart, disk, vars
  <1> QED
    BY <1>1, <1>2, Typing, PTL DEF Spec

-----------------------------------------------------------------------------
(* Attempts in flight.                                                     *)

\* What a transaction may make of the payment p: keep what is in flight, and
\* add attempts only while nothing is settled and no reason recorded.
Accounted(p, q) ==
    /\ InFlightHTLCs(p) \subseteq HTLCs(q)
    /\ HTLCs(q) \ HTLCs(p) # {} => ~HasSettledHTLC(p) /\ p.reason = NoReason

\* The same of a step.
AccountedStep ==
    \A h \in Hashes : payments[h] # NoPayment =>
        \/ payments'[h] = NoPayment /\ InFlightHTLCs(payments[h]) = {}
        \/ payments'[h] # NoPayment /\ Accounted(payments[h], payments'[h])

\* Only a payment that is neither settled nor failed takes another attempt.
LEMMA RegistrableOpen ==
    ASSUME NEW p \in Payment, Registrable(p)
    PROVE  ~HasSettledHTLC(p) /\ p.reason = NoReason
  <1>1. PaymentStatus(p) \in {"Initiated", "InFlight"}
    BY DEF Registrable, Updatable
  <1>2. CASE PaymentStatus(p) = "InFlight"
    BY <1>2 DEF Registrable, PaymentFailed
  <1>3. CASE PaymentStatus(p) = "Initiated"
    <2>1. /\ SettledHTLCs(p) \ FailedHTLCs(p) = {} /\ FailedHTLCs(p) = {}
          /\ p.reason = NoReason
      BY <1>3 DEF PaymentStatus
    <2> QED
      BY <2>1 DEF HasSettledHTLC
  <1> QED
    BY <1>1, <1>2, <1>3

\* Removing failed attempts adds none and keeps what is in flight.
LEMMA WithoutFailedAccounted ==
    ASSUME NEW p \in Payment
    PROVE  Accounted(p, WithoutFailedHTLCs(p))
  <1>1. HTLCs(WithoutFailedHTLCs(p)) = HTLCs(p) \ FailedHTLCs(p)
    BY DEF WithoutFailedHTLCs, HTLCs, FailedHTLCs, Payment
  <1> QED
    BY <1>1 DEF Accounted, InFlightHTLCs, FailedHTLCs

\* Replacing one payment by a record that accounts for its attempts.
LEMMA AccountedUpdate ==
    ASSUME TypeOK, NEW h \in Hashes, NEW q \in Payment \cup {NoPayment},
           payments' = [payments EXCEPT ![h] = q],
           payments[h] # NoPayment =>
               \/ q = NoPayment /\ InFlightHTLCs(payments[h]) = {}
               \/ q # NoPayment /\ Accounted(payments[h], q)
    PROVE  AccountedStep
  <1>1. \A p : Accounted(p, p) <=> InFlightHTLCs(p) \subseteq HTLCs(p)
    BY DEF Accounted
  <1>2. \A p : Accounted(p, p)
    BY <1>1 DEF InFlightHTLCs
  <1>3. /\ payments'[h] = q
        /\ \A g \in Hashes \ {h} : payments'[g] = payments[g]
    BY DEF TypeOK
  <1> QED
    BY <1>2, <1>3 DEF AccountedStep

\* An attempt in flight disappears neither by a deletion nor by a new
\* InitPayment, a settled one only with its payment, and an attempt joins a
\* payment only while nothing is settled and no failure is recorded.
THEOREM AttemptsSafety == Spec => AttemptsAccounted
  <1>1. TypeOK /\ [Next]_vars => [AccountedStep]_vars
    <2> SUFFICES ASSUME TypeOK, Next
                 PROVE  AccountedStep
      OBVIOUS
    <2>0. /\ NoPayment \notin Payment
          /\ \A h \in Hashes : payments[h] # NoPayment => payments[h] \in Payment
      BY PaymentControlAssumption DEF TypeOK
    <2>1. ASSUME NEW c \in Callers, InitPayment(c)
          PROVE  AccountedStep
      <3> DEFINE h == inits[c].hash
                 q == NewPayment(inits[c].value)
      <3>1. inits[c] \in InitCall
        BY <2>1 DEF InitPayment, TypeOK
      <3>2. h \in Hashes /\ q \in Payment
        BY <3>1, NewPaymentType, PaymentControlAssumption DEF InitCall
      <3>3. payments' = [payments EXCEPT ![h] = q] /\ CanInitPayment(h)
        BY <2>1 DEF InitPayment
      <3>4. HTLCs(q) = {}
        BY DEF NewPayment, HTLCs
      <3> HIDE DEF h, q
      <3>5. payments[h] # NoPayment => Accounted(payments[h], q)
        BY <3>3, <3>4, NothingInFlight DEF CanInitPayment, Accounted
      <3> QED
        BY <2>0, <3>2, <3>3, <3>5, AccountedUpdate
    <2>2. ASSUME NEW h \in Hashes, NEW a \in AttemptIds, NEW amt \in Amounts,
                 NEW mpp \in Mpps \cup {NoMpp}, RegisterAttempt(h, a, amt, mpp)
          PROVE  AccountedStep
      <3> DEFINE q == WithAttempt(payments[h], a, amt, mpp)
      <3>1. /\ payments[h] # NoPayment /\ Registrable(payments[h])
            /\ payments' = [payments EXCEPT ![h] = q]
            /\ amt \in Nat \ {0}
        BY <2>2, PaymentControlAssumption
        DEF RegisterAttempt, Fetchable, Update, CanRegister
      <3>2. payments[h] \in Payment /\ q \in Payment
        BY <2>0, <3>1, WithAttemptType
      <3>3. HTLCs(payments[h]) \subseteq HTLCs(q)
        <4>1. q.htlcs = [payments[h].htlcs EXCEPT ![a] =
                  [amt |-> amt, mpp |-> mpp, settle |-> FALSE, failure |-> FALSE]]
          BY <3>2 DEF WithAttempt, Payment
        <4>2. [amt |-> amt, mpp |-> mpp, settle |-> FALSE, failure |-> FALSE] # NoHtlc
          <5>1. [amt |-> amt, mpp |-> mpp, settle |-> FALSE, failure |-> FALSE]
                    \in HTLCAttempt
            BY <3>1 DEF HTLCAttempt
          <5>2. NoHtlc \notin HTLCAttempt
            BY MPPaymentAssumption DEF HTLCAttempt
          <5> QED
            BY <5>1, <5>2
        <4> HIDE DEF q
        <4> QED
          BY <3>2, <4>1, <4>2 DEF HTLCs, Payment
      <3>4. Accounted(payments[h], q)
        BY <3>1, <3>2, <3>3, RegistrableOpen DEF Accounted, InFlightHTLCs
      <3> HIDE DEF q
      <3> QED
        BY <2>0, <3>1, <3>2, <3>4, AccountedUpdate
    <2>3. ASSUME NEW h \in Hashes, NEW a \in AttemptIds,
                 SettleAttempt(h, a) \/ FailAttempt(h, a)
          PROVE  AccountedStep
      <3> DEFINE q == WithSettle(payments[h], a)
                 r == WithFailure(payments[h], a)
      <3>1. /\ payments[h] # NoPayment
            /\ a \in HTLCs(payments[h])
            /\ \/ payments' = [payments EXCEPT ![h] = q]
               \/ payments' = [payments EXCEPT ![h] = r]
        BY <2>3 DEF SettleAttempt, FailAttempt, Fetchable, Update, CanUpdateHtlc
      <3>2. payments[h] \in Payment /\ q \in Payment /\ r \in Payment
        BY <2>0, <3>1, WithOutcomeType
      <3>3. HTLCs(q) = HTLCs(payments[h]) /\ HTLCs(r) = HTLCs(payments[h])
        BY <3>1, <3>2, HTLCsAfterOutcome
      <3> HIDE DEF q, r
      <3>4. Accounted(payments[h], q) /\ Accounted(payments[h], r)
        BY <3>3 DEF Accounted, InFlightHTLCs
      <3>5. CASE payments' = [payments EXCEPT ![h] = q]
        BY <2>0, <3>2, <3>4, <3>5, AccountedUpdate
      <3>6. CASE payments' = [payments EXCEPT ![h] = r]
        BY <2>0, <3>2, <3>4, <3>6, AccountedUpdate
      <3> QED
        BY <3>1, <3>5, <3>6
    <2>4. ASSUME NEW h \in Hashes, NEW reason \in Reasons, Fail(h, reason)
          PROVE  AccountedStep
      <3> DEFINE q == WithReason(payments[h], reason)
      <3>1. /\ payments[h] # NoPayment
            /\ payments' = [payments EXCEPT ![h] = q]
        BY <2>4 DEF Fail, Fetchable, Update
      <3>2. q \in Payment /\ HTLCs(q) = HTLCs(payments[h])
        BY <2>0, <3>1, WithReasonType DEF WithReason, HTLCs, Payment
      <3> HIDE DEF q
      <3>3. Accounted(payments[h], q)
        BY <3>2 DEF Accounted, InFlightHTLCs
      <3> QED
        BY <2>0, <3>1, <3>2, <3>3, AccountedUpdate
    <2>5. ASSUME NEW h \in Hashes, DeletePaymentFailedHtlcs(h)
          PROVE  AccountedStep
      <3> DEFINE q == WithoutFailedHTLCs(payments[h])
      <3>1. /\ payments[h] # NoPayment
            /\ payments' = [payments EXCEPT ![h] = q]
        BY <2>5 DEF DeletePaymentFailedHtlcs, CanDelete, Fetchable, Update
      <3>2. q \in Payment /\ Accounted(payments[h], q)
        BY <2>0, <3>1, WithoutFailedType, WithoutFailedAccounted
      <3> HIDE DEF q
      <3> QED
        BY <2>0, <3>1, <3>2, AccountedUpdate
    <2>6. ASSUME NEW h \in Hashes, DeletePayment(h)
          PROVE  AccountedStep
      <3>1. payments' = [payments EXCEPT ![h] = NoPayment]
            /\ InFlightHTLCs(payments[h]) = {}
        BY <2>6, NothingInFlight DEF DeletePayment, CanDelete
      <3> QED
        BY <3>1, AccountedUpdate
    <2>7. ASSUME NEW failedOnly \in BOOLEAN, NEW failedHtlcsOnly \in BOOLEAN,
                 DeletePayments(failedOnly, failedHtlcsOnly)
          PROVE  AccountedStep
      <3>1. \A h \in Hashes : payments[h] # NoPayment =>
              \/ payments'[h] = NoPayment /\ Removable(PaymentStatus(payments[h]))
              \/ payments'[h] = payments[h]
              \/ payments'[h] = WithoutFailedHTLCs(payments[h])
        BY <2>7 DEF DeletePayments, Selected
      <3>2. \A h \in Hashes : payments[h] # NoPayment =>
              /\ WithoutFailedHTLCs(payments[h]) \in Payment
              /\ Accounted(payments[h], WithoutFailedHTLCs(payments[h]))
        BY <2>0, WithoutFailedType, WithoutFailedAccounted
      <3>3. \A p : Accounted(p, p)
        BY DEF Accounted, InFlightHTLCs
      <3> QED
        BY <2>0, <3>1, <3>2, <3>3, NothingInFlight DEF AccountedStep
    <2>8. ASSUME UNCHANGED payments
          PROVE  AccountedStep
      BY <2>8 DEF AccountedStep, Accounted, InFlightHTLCs
    <2> QED
      BY <2>1, <2>2, <2>3, <2>4, <2>5, <2>6, <2>7, <2>8
      DEF Next, DeleteFailedAttempts, NextPaymentSequence, InitPaymentRefused,
          Restart, disk
  <1>2. AccountedStep /\ SettledStep =>
          \A h \in Hashes : payments[h] # NoPayment =>
            /\ InFlightHTLCs(payments[h]) \subseteq
                 (IF payments'[h] = NoPayment THEN {} ELSE HTLCs(payments'[h]))
            /\ payments'[h] # NoPayment =>
                 SettledHTLCs(payments[h]) \subseteq SettledHTLCs(payments'[h])
            /\ (payments'[h] # NoPayment /\
                HTLCs(payments'[h]) \ HTLCs(payments[h]) # {}) =>
                   ~HasSettledHTLC(payments[h]) /\ payments[h].reason = NoReason
    BY DEF AccountedStep, Accounted, SettledStep, Settled, HasSettledHTLC
  <1> QED
    BY <1>1, <1>2, Typing, SettledSafety, PTL DEF Spec, AttemptsAccounted
-----------------------------------------------------------------------------
(* The amounts.  ShardsAgree holds because of them: the checks of          *)
(* RegisterAttempt alone would let a shard without MPP record join another *)
(* one; that the first of them has used up the value keeps it out.  That   *)
(* sums are over finite sets, and that a new identifier is not already an  *)
(* attempt of the payment, are part of the invariant.                      *)

SentInv ==
    \A h \in Hashes : Present(h) =>
        Sound(payments[h]) /\ HTLCs(payments[h]) \subseteq usedIds

\* Replacing one payment by a sound record.
LEMMA SentUpdate ==
    ASSUME TypeOK, SentInv, NEW h \in Hashes, NEW q \in Payment,
           payments' = [payments EXCEPT ![h] = q], Sound(q),
           usedIds \subseteq usedIds', HTLCs(q) \subseteq usedIds'
    PROVE  SentInv'
  <1>1. /\ payments'[h] = q
        /\ \A g \in Hashes \ {h} : payments'[g] = payments[g]
    BY DEF TypeOK
  <1> QED
    BY <1>1 DEF SentInv, Present

\* Every transaction keeps every payment sound.
LEMMA SentInvariant == Spec => []SentInv
  <1>1. Init => SentInv
    BY DEF Init, SentInv, Present
  <1>2. TypeOK /\ SentInv /\ [Next]_vars => SentInv'
    <2> SUFFICES ASSUME TypeOK, SentInv, [Next]_vars PROVE SentInv'
      OBVIOUS
    <2>1. ASSUME NEW h \in Hashes, payments[h] # NoPayment
          PROVE  /\ payments[h] \in Payment
                 /\ Sound(payments[h])
                 /\ HTLCs(payments[h]) \subseteq usedIds
      BY <2>1 DEF TypeOK, SentInv, Present
    <2>2. ASSUME NEW c \in Callers, InitPayment(c)
          PROVE  SentInv'
      <3> DEFINE h == inits[c].hash
                 q == NewPayment(inits[c].value)
      <3>1. inits[c] \in InitCall
        BY <2>2 DEF InitPayment, TypeOK
      <3>2. h \in Hashes /\ inits[c].value \in Nat \ {0}
        BY <3>1, PaymentControlAssumption DEF InitCall
      <3>3. q \in Payment /\ Sound(q) /\ HTLCs(q) = {}
        BY <3>2, NewPaymentType, NewPaymentSound, NewPaymentSets
      <3>4. payments' = [payments EXCEPT ![h] = q] /\ usedIds' = usedIds
        BY <2>2 DEF InitPayment
      <3> HIDE DEF h, q
      <3> QED
        BY <3>2, <3>3, <3>4, SentUpdate
    <2>3. ASSUME NEW h \in Hashes, NEW a \in AttemptIds, NEW amt \in Amounts,
                 NEW mpp \in Mpps \cup {NoMpp}, RegisterAttempt(h, a, amt, mpp)
          PROVE  SentInv'
      <3> DEFINE q == WithAttempt(payments[h], a, amt, mpp)
      <3>1. /\ payments[h] # NoPayment
            /\ CanRegister(payments[h], amt, mpp)
            /\ payments' = [payments EXCEPT ![h] = q]
            /\ a \notin usedIds
            /\ usedIds' = usedIds \cup {a}
            /\ amt \in Nat \ {0}
        BY <2>3, PaymentControlAssumption
        DEF RegisterAttempt, Fetchable, Update
      <3>2. payments[h] \in Payment /\ a \in AttemptIds \ HTLCs(payments[h])
        BY <2>1, <3>1
      <3>3. q \in Payment
        BY <3>1, <3>2, WithAttemptType
      <3>4. Sound(q)
        BY <2>1, <3>1, <3>2, WithAttemptSound
      <3>5. HTLCs(q) = HTLCs(payments[h]) \cup {a}
        BY <3>1, <3>2, WithAttemptSets
      <3> HIDE DEF q
      <3>6. HTLCs(q) \subseteq usedIds'
        BY <2>1, <3>1, <3>5
      <3> QED
        BY <3>1, <3>3, <3>4, <3>6, SentUpdate
    <2>4. ASSUME NEW h \in Hashes, NEW a \in AttemptIds,
                 SettleAttempt(h, a) \/ FailAttempt(h, a)
          PROVE  SentInv'
      <3> DEFINE q == WithSettle(payments[h], a)
                 r == WithFailure(payments[h], a)
      <3>1. /\ payments[h] # NoPayment
            /\ a \in HTLCs(payments[h])
            /\ \/ payments' = [payments EXCEPT ![h] = q]
               \/ payments' = [payments EXCEPT ![h] = r]
            /\ usedIds' = usedIds
        BY <2>4 DEF SettleAttempt, FailAttempt, Fetchable, Update, CanUpdateHtlc
      <3>2. /\ q \in Payment /\ r \in Payment
            /\ HTLCs(q) = HTLCs(payments[h]) /\ HTLCs(r) = HTLCs(payments[h])
        BY <2>1, <3>1, WithOutcomeType, HTLCsAfterOutcome
      <3>3. Sound(q) /\ Sound(r)
        BY <2>1, <3>1, UpdateSound
      <3> HIDE DEF q, r
      <3>4. CASE payments' = [payments EXCEPT ![h] = q]
        BY <2>1, <3>1, <3>2, <3>3, <3>4, SentUpdate
      <3>5. CASE payments' = [payments EXCEPT ![h] = r]
        BY <2>1, <3>1, <3>2, <3>3, <3>5, SentUpdate
      <3> QED
        BY <3>1, <3>4, <3>5
    <2>5. ASSUME NEW h \in Hashes, NEW reason \in Reasons, Fail(h, reason)
          PROVE  SentInv'
      <3> DEFINE q == WithReason(payments[h], reason)
      <3>1. /\ payments[h] # NoPayment
            /\ payments' = [payments EXCEPT ![h] = q]
            /\ usedIds' = usedIds
        BY <2>5 DEF Fail, Fetchable, Update
      <3>2. q \in Payment /\ HTLCs(q) = HTLCs(payments[h]) /\ Sound(q)
        BY <2>1, <3>1, WithReasonType, WithReasonSets, UpdateSound
      <3> HIDE DEF q
      <3> QED
        BY <2>1, <3>1, <3>2, SentUpdate
    <2>6. ASSUME NEW h \in Hashes, DeletePaymentFailedHtlcs(h)
          PROVE  SentInv'
      <3> DEFINE q == WithoutFailedHTLCs(payments[h])
      <3>1. /\ payments[h] # NoPayment
            /\ payments' = [payments EXCEPT ![h] = q]
            /\ usedIds' = usedIds
        BY <2>6 DEF DeletePaymentFailedHtlcs, CanDelete, Fetchable, Update
      <3>2. q \in Payment /\ HTLCs(q) \subseteq HTLCs(payments[h]) /\ Sound(q)
        BY <2>1, <3>1, WithoutFailedType, WithoutFailedSets, UpdateSound
      <3> HIDE DEF q
      <3> QED
        BY <2>1, <3>1, <3>2, SentUpdate
    <2>7. ASSUME NEW failedOnly \in BOOLEAN, NEW failedHtlcsOnly \in BOOLEAN,
                 DeletePayments(failedOnly, failedHtlcsOnly)
          PROVE  SentInv'
      <3>1. \A h \in Hashes :
              \/ payments'[h] = NoPayment
              \/ payments'[h] = payments[h]
              \/ /\ payments[h] # NoPayment
                 /\ payments'[h] = WithoutFailedHTLCs(payments[h])
        BY <2>7 DEF DeletePayments, Selected
      <3>2. usedIds' = usedIds
        BY <2>7 DEF DeletePayments
      <3>3. \A h \in Hashes : payments[h] # NoPayment =>
              /\ Sound(WithoutFailedHTLCs(payments[h]))
              /\ HTLCs(WithoutFailedHTLCs(payments[h]))
                    \subseteq HTLCs(payments[h])
        BY <2>1, UpdateSound, WithoutFailedSets
      <3> QED
        BY <2>1, <3>1, <3>2, <3>3 DEF SentInv, Present
    <2>8. ASSUME NEW h \in Hashes, DeletePayment(h)
          PROVE  SentInv'
      <3>1. \A g \in Hashes : payments'[g] \in {NoPayment, payments[g]}
        BY <2>8 DEF DeletePayment, TypeOK
      <3> QED
        BY <2>8, <3>1 DEF DeletePayment, SentInv, Present
    <2>9. ASSUME UNCHANGED payments, UNCHANGED usedIds
          PROVE  SentInv'
      BY <2>9 DEF SentInv, Present
    <2> QED
      BY <2>2, <2>3, <2>4, <2>5, <2>6, <2>7, <2>8, <2>9
      DEF Next, DeleteFailedAttempts, NextPaymentSequence, InitPaymentRefused,
          Restart, disk, vars
  <1> QED
    BY <1>1, <1>2, Typing, PTL DEF Spec

\* fetchPayment can read every payment: whatever callers ask for, the attempts
\* that have not failed never exceed the value.
THEOREM SentSafety == Spec => []SentWithinValue
  <1>1. TypeOK /\ SentInv => SentWithinValue
    <2> SUFFICES ASSUME TypeOK, SentInv, NEW h \in Hashes, payments[h] # NoPayment
                 PROVE  Fetchable(h)
      BY DEF SentWithinValue
    <2>1. payments[h] \in Payment /\ Covered(payments[h])
      BY DEF TypeOK, SentInv, Present, Sound
    <2>2. SentAmt(payments[h]) \in Nat /\ payments[h].value \in Nat
      BY <2>1, SentBounds DEF Covered, Payment
    <2> QED
      BY <2>1, <2>2 DEF Fetchable, RemainingAmt, Covered
  <1> QED
    BY <1>1, Typing, SentInvariant, PTL

\* All attempts in flight for a payment carry the same MPP record, and one
\* without is alone.
THEOREM ShardsSafety == Spec => []ShardsAgree
  <1>1. SentInv => ShardsAgree
    BY DEF SentInv, Present, Sound, Agree, ShardsAgree
  <1> QED
    BY <1>1, SentInvariant, PTL
=============================================================================
