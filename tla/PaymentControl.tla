--------------------------- MODULE PaymentControl ---------------------------
(***************************************************************************)
(* The payment database of lnd, channeldb.PaymentControl together with the *)
(* deletion calls of channeldb/payments.go.  Each database transaction is  *)
(* one action.  InitPayment is two: it obtains its sequence number before  *)
(* its transaction, so several callers can be between the two, and a crash *)
(* can fall there.                                                         *)
(*                                                                         *)
(* On disk: the payment buckets, their sequence numbers, the index from    *)
(* sequence number to payment hash and the sequence of the root bucket.    *)
(* In memory: the block of sequence numbers reserved from that sequence    *)
(* and the calls of InitPayment that hold a number.                        *)
(*                                                                         *)
(* Callers are not restricted to the protocol of the router: any operation *)
(* may be called for any hash at any time.  Only attempt identifiers are   *)
(* constrained, they are handed out once (htlcswitch's sequencer).         *)
(***************************************************************************)
EXTENDS MPPayment

CONSTANTS
    Hashes,              \* payment identifiers
    Callers,             \* goroutines that call InitPayment
    NoInit,              \* the caller is not inside InitPayment
    Values,              \* payment amounts callers ask for
    Amounts,             \* amounts attempts carry to the receiver
    PaymentSeqBlockSize, \* paymentSeqBlockSize, 1000 in the code
    MaxSequence          \* bound of the model on the root bucket's sequence

ASSUME PaymentControlAssumption ==
    /\ Values \subseteq Nat \ {0}
    /\ Amounts \subseteq Nat \ {0}
    /\ PaymentSeqBlockSize \in Nat \ {0}
    /\ MaxSequence \in Nat
    /\ KeepFailedPaymentAttempts \in BOOLEAN
    /\ NoPayment \notin Payment
    /\ NoInit \notin [hash : Hashes, value : Values, seq : Nat]

VARIABLES
    payments,         \* paymentsRootBucket: hash -> payment bucket
    seqNum,           \* paymentSequenceKey of each bucket, 0 when absent
    index,            \* paymentsIndexBucket: sequence number -> hash
    bucketSequence,   \* Sequence() of the root bucket
    currPaymentSeq,   \* last sequence number handed out since the start
    storedPaymentSeq, \* end of the reserved block
    inits,            \* InitPayment calls that hold a sequence number
    usedIds           \* attempt identifiers registered so far

disk == <<payments, seqNum, index, bucketSequence>>
memory == <<currPaymentSeq, storedPaymentSeq, inits>>
vars == <<payments, seqNum, index, bucketSequence, currPaymentSeq,
          storedPaymentSeq, inits, usedIds>>

IndexEntry == [seq : Nat, hash : Hashes]
InitCall == [hash : Hashes, value : Values, seq : Nat]

TypeOK ==
    /\ payments \in [Hashes -> Payment \cup {NoPayment}]
    /\ seqNum \in [Hashes -> Nat]
    /\ index \subseteq IndexEntry
    /\ bucketSequence \in Nat
    /\ currPaymentSeq \in Nat
    /\ storedPaymentSeq \in Nat
    /\ inits \in [Callers -> InitCall \cup {NoInit}]
    /\ usedIds \subseteq AttemptIds

Init ==
    /\ payments = [h \in Hashes |-> NoPayment]
    /\ seqNum = [h \in Hashes |-> 0]
    /\ index = {}
    /\ bucketSequence = 0
    /\ currPaymentSeq = 0
    /\ storedPaymentSeq = 0
    /\ inits = [c \in Callers |-> NoInit]
    /\ usedIds = {}

\* fetchPayment succeeds: the bucket exists and its attempts do not exceed
\* the value.  Every transaction below reads the payment first.
Fetchable(h) == payments[h] # NoPayment /\ RemainingAmt(payments[h]) >= 0

-----------------------------------------------------------------------------
(* nextPaymentSequence, under paymentSeqMx: take the next number of the    *)
(* reserved block, reserving a new block on disk when it is used up.       *)

NextPaymentSequence(c, h, value) ==
    LET exhausted == currPaymentSeq = storedPaymentSeq
        base == IF exhausted /\ currPaymentSeq = 0 THEN bucketSequence
                                                   ELSE currPaymentSeq
    IN  /\ inits[c] = NoInit
        /\ base < MaxSequence
        /\ IF exhausted
             THEN /\ bucketSequence' = bucketSequence + PaymentSeqBlockSize
                  /\ storedPaymentSeq' = bucketSequence'
             ELSE UNCHANGED <<bucketSequence, storedPaymentSeq>>
        /\ currPaymentSeq' = base + 1
        /\ inits' = [inits EXCEPT ![c] = [hash |-> h, value |-> value,
                                          seq |-> base + 1]]
        /\ UNCHANGED <<payments, seqNum, index, usedIds>>

(* The transaction of InitPayment: drop the index entry of the payment it  *)
(* replaces, write the new one and start the bucket afresh.                *)

CanInitPayment(h) ==
    payments[h] # NoPayment =>
        Fetchable(h) /\ Initializable(PaymentStatus(payments[h]))

\* Faulty: the index entry of the replaced payment is left behind.
InitPaymentKeepsEntry(c) ==
    /\ inits[c] # NoInit
    /\ LET call == inits[c]
           h == call.hash
       IN  /\ CanInitPayment(h)
           /\ index' = index \cup {[seq |-> call.seq, hash |-> h]}
           /\ seqNum' = [seqNum EXCEPT ![h] = call.seq]
           /\ payments' = [payments EXCEPT ![h] = NewPayment(call.value)]
    /\ inits' = [inits EXCEPT ![c] = NoInit]
    /\ UNCHANGED <<bucketSequence, currPaymentSeq, storedPaymentSeq, usedIds>>

InitPayment(c) ==
    /\ inits[c] # NoInit
    /\ LET call == inits[c]
           h == call.hash
       IN  /\ CanInitPayment(h)
           /\ index' = {e \in index : e.seq \notin {seqNum[h], call.seq}}
                            \cup {[seq |-> call.seq, hash |-> h]}
           /\ seqNum' = [seqNum EXCEPT ![h] = call.seq]
           /\ payments' = [payments EXCEPT ![h] = NewPayment(call.value)]
    /\ inits' = [inits EXCEPT ![c] = NoInit]
    /\ UNCHANGED <<bucketSequence, currPaymentSeq, storedPaymentSeq, usedIds>>

\* ErrPaymentExists, ErrPaymentInFlight, ErrAlreadyPaid, ErrSentExceedsTotal:
\* the number is lost.
InitPaymentRefused(c) ==
    /\ inits[c] # NoInit
    /\ ~CanInitPayment(inits[c].hash)
    /\ inits' = [inits EXCEPT ![c] = NoInit]
    /\ UNCHANGED <<payments, seqNum, index, bucketSequence, currPaymentSeq,
                   storedPaymentSeq, usedIds>>

-----------------------------------------------------------------------------
(* The attempts and the failure reason of one payment.                     *)

Update(h, payment) ==
    /\ payments' = [payments EXCEPT ![h] = payment]
    /\ UNCHANGED <<seqNum, index, bucketSequence, memory>>

RegisterAttempt(h, a, amt, mpp) ==
    /\ Fetchable(h)
    /\ a \notin usedIds
    /\ CanRegister(payments[h], amt, mpp)
    /\ Update(h, WithAttempt(payments[h], a, amt, mpp))
    /\ usedIds' = usedIds \cup {a}

SettleAttempt(h, a) ==
    /\ Fetchable(h)
    /\ CanUpdateHtlc(payments[h], a)
    /\ Update(h, WithSettle(payments[h], a))
    /\ UNCHANGED usedIds

FailAttempt(h, a) ==
    /\ Fetchable(h)
    /\ CanUpdateHtlc(payments[h], a)
    /\ Update(h, WithFailure(payments[h], a))
    /\ UNCHANGED usedIds

Fail(h, reason) ==
    /\ Fetchable(h)
    /\ Update(h, WithReason(payments[h], reason))
    /\ UNCHANGED usedIds

-----------------------------------------------------------------------------
(* Deletion.                                                               *)

CanDelete(h) == Fetchable(h) /\ Removable(PaymentStatus(payments[h]))

DeletePayment(h) ==
    /\ CanDelete(h)
    /\ payments' = [payments EXCEPT ![h] = NoPayment]
    /\ seqNum' = [seqNum EXCEPT ![h] = 0]
    /\ index' = {e \in index : e.seq # seqNum[h]}
    /\ UNCHANGED <<bucketSequence, memory, usedIds>>

DeletePaymentFailedHtlcs(h) ==
    /\ CanDelete(h)
    /\ Update(h, WithoutFailedHTLCs(payments[h]))
    /\ UNCHANGED usedIds

DeleteFailedAttempts(h) ==
    /\ ~KeepFailedPaymentAttempts
    /\ DeletePaymentFailedHtlcs(h)

\* The payments one call of DeletePayments selects.  A payment that cannot be
\* read makes the whole call fail.
Selected(failedOnly) ==
    {h \in Hashes : /\ payments[h] # NoPayment
                    /\ Removable(PaymentStatus(payments[h]))
                    /\ failedOnly => PaymentStatus(payments[h]) = "Failed"}

DeletePayments(failedOnly, failedHtlcsOnly) ==
    /\ \A h \in Hashes : payments[h] # NoPayment => Fetchable(h)
    /\ LET selected == Selected(failedOnly)
           deleted == IF failedHtlcsOnly THEN {} ELSE selected
       IN  /\ payments' = [h \in Hashes |->
                  IF h \in deleted THEN NoPayment
                  ELSE IF h \in selected THEN WithoutFailedHTLCs(payments[h])
                  ELSE payments[h]]
           /\ index' = {e \in index : \A h \in deleted : e.seq # seqNum[h]}
           /\ seqNum' = [h \in Hashes |-> IF h \in deleted THEN 0
                                                           ELSE seqNum[h]]
    /\ UNCHANGED <<bucketSequence, memory, usedIds>>

-----------------------------------------------------------------------------
(* The process stops and starts again: what NewPaymentControl allocates.   *)

Restart ==
    /\ currPaymentSeq' = 0
    /\ storedPaymentSeq' = 0
    /\ inits' = [c \in Callers |-> NoInit]
    /\ UNCHANGED <<disk, usedIds>>

Next ==
    \/ \E c \in Callers, h \in Hashes, value \in Values :
           NextPaymentSequence(c, h, value)
    \/ \E c \in Callers : InitPayment(c) \/ InitPaymentRefused(c)
    \/ \E h \in Hashes, a \in AttemptIds, amt \in Amounts,
          mpp \in Mpps \cup {NoMpp} : RegisterAttempt(h, a, amt, mpp)
    \/ \E h \in Hashes, a \in AttemptIds :
           SettleAttempt(h, a) \/ FailAttempt(h, a)
    \/ \E h \in Hashes, reason \in Reasons : Fail(h, reason)
    \/ \E h \in Hashes : DeletePayment(h) \/ DeletePaymentFailedHtlcs(h)
    \/ \E h \in Hashes : DeleteFailedAttempts(h)
    \/ \E failedOnly, failedHtlcsOnly \in BOOLEAN :
           DeletePayments(failedOnly, failedHtlcsOnly)
    \/ Restart

Spec == Init /\ [][Next]_vars

-----------------------------------------------------------------------------
(* Safety.                                                                 *)

\* The index bucket and the payment buckets describe the same payments: every
\* payment is found under its own sequence number, and no entry outlives its
\* payment (InitPayment and the deletions keep the two buckets in step, also
\* when concurrent calls commit out of the order of their numbers or a crash
\* loses a reserved block).  QueryPayments walks the index and fails on an
\* entry without payment.
IndexConsistent ==
    index = {[seq |-> seqNum[h], hash |-> h] :
                h \in {g \in Hashes : payments[g] # NoPayment}}

\* The attempts that are not failed never carry more than the payment's value
\* (the check of RegisterAttempt against SentAmt).  Otherwise fetchPayment
\* refuses the payment with ErrSentExceedsTotal, and with it
\* FetchInFlightPayments on which the start of the router depends.
SentWithinValue ==
    \A h \in Hashes : payments[h] # NoPayment => Fetchable(h)

\* All attempts in flight for one payment carry the same MPP record, and
\* attempts without one never share the payment (the MPP checks of
\* RegisterAttempt look at the attempts in flight only).
ShardsAgree ==
    \A h \in Hashes : payments[h] # NoPayment =>
        \A a, b \in InFlightHTLCs(payments[h]) : a # b =>
            /\ payments[h].htlcs[a].mpp = payments[h].htlcs[b].mpp
            /\ payments[h].htlcs[a].mpp # NoMpp

\* "After invoking this method, InitPayment should return nil on its next call
\* for this payment hash" (FailPayment, routing/control_tower.go): a recorded
\* failure reason lets the payment be initialised again.  Fail may be called
\* while attempts are in flight, and a settled one wins over the reason.
FailAllowsInit ==
    \A h \in Hashes :
        payments[h] # NoPayment /\ payments[h].reason # NoReason =>
            CanInitPayment(h)

\* An attempt is added to a payment only while no attempt is settled and no
\* failure is recorded (Registrable), attempts still in flight are never
\* dropped, neither by a deletion nor by a new InitPayment, and a settled
\* attempt leaves only with the whole payment ("After invoking this method,
\* InitPayment should always return an error", SettleAttempt).
AttemptsAccounted ==
    [][\A h \in Hashes : payments[h] # NoPayment =>
          /\ InFlightHTLCs(payments[h]) \subseteq
                 (IF payments'[h] = NoPayment THEN {} ELSE HTLCs(payments'[h]))
          /\ payments'[h] # NoPayment =>
                 SettledHTLCs(payments[h]) \subseteq SettledHTLCs(payments'[h])
          /\ (payments'[h] # NoPayment /\
              HTLCs(payments'[h]) \ HTLCs(payments[h]) # {}) =>
                 ~HasSettledHTLC(payments[h]) /\ payments[h].reason = NoReason
      ]_vars
=============================================================================
