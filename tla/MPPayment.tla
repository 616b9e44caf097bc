----------------------------- MODULE MPPayment -----------------------------
(***************************************************************************)
(* A payment as lnd's payment database stores it                           *)
(* (channeldb/mp_payment.go, channeldb/payment_status.go): the creation    *)
(* value, the HTLC attempts with their outcome keys and an optional        *)
(* failure reason, together with the status and the decisions lnd derives  *)
(* from them.  Every operator here is a pure function of one payment; the  *)
(* modules that keep payments in a variable apply them inside a database   *)
(* transaction.                                                            *)
(*                                                                         *)
(* Amounts are millisatoshis, of which only sums and comparisons matter.   *)
(* Routes, fees, session keys, hashes, preimages and time stamps are left  *)
(* out.  An MPP record (payment address and total) is a member of Mpps;    *)
(* two records are equal exactly when address and total agree.             *)
(***************************************************************************)
EXTENDS Integers, FiniteSets, FiniteSetsExt

CONSTANTS
    AttemptIds,   \* HTLC attempt identifiers
    Reasons,      \* channeldb.FailureReason values
    NoReason,     \* the failure key of the payment is absent
    Mpps,         \* MPP records a final hop may carry
    NoMpp,        \* the final hop carries no MPP record
    NoHtlc,       \* the attempt identifier is not registered
    NoPayment,    \* there is no bucket for the hash
    KeepFailedPaymentAttempts \* keepFailedPaymentAttempts of the DB

ASSUME MPPaymentAssumption ==
    /\ NoReason \notin Reasons
    /\ NoMpp \notin Mpps
    /\ NoHtlc \notin [amt : Nat \ {0}, mpp : Mpps \cup {NoMpp},
                      settle : BOOLEAN, failure : BOOLEAN]

\* The three keys of an attempt: its info, and the presence of the settle and
\* of the fail info.
HTLCAttempt == [amt : Nat \ {0}, mpp : Mpps \cup {NoMpp},
                settle : BOOLEAN, failure : BOOLEAN]

Payment == [value  : Nat \ {0},
            htlcs  : [AttemptIds -> HTLCAttempt \cup {NoHtlc}],
            reason : Reasons \cup {NoReason}]

Status == {"Initiated", "InFlight", "Succeeded", "Failed"}

NewPayment(value) ==
    [value |-> value, htlcs |-> [a \in AttemptIds |-> NoHtlc],
     reason |-> NoReason]

-----------------------------------------------------------------------------
(* The HTLCs of a payment and what is derived from them.                   *)

HTLCs(p) == {a \in AttemptIds : p.htlcs[a] # NoHtlc}

\* A fail key hides a settle key wherever lnd classifies an attempt.
FailedHTLCs(p)   == {a \in HTLCs(p) : p.htlcs[a].failure}
SettledHTLCs(p)  == {a \in HTLCs(p) : p.htlcs[a].settle}
InFlightHTLCs(p) == {a \in HTLCs(p) : /\ ~p.htlcs[a].failure
                                      /\ ~p.htlcs[a].settle}

\* Faulty: the attempts in flight are forgotten.
SentAmtSettled(p) ==
    MapThenSumSet(LAMBDA a : p.htlcs[a].amt, SettledHTLCs(p))

SentAmt(p) ==
    MapThenSumSet(LAMBDA a : p.htlcs[a].amt, HTLCs(p) \ FailedHTLCs(p))

RemainingAmt(p) == p.value - SentAmt(p)

HasSettledHTLC(p) == SettledHTLCs(p) # {}

\* TerminalInfo returns no failure reason for a payment with a settled HTLC.
PaymentFailed(p) == ~HasSettledHTLC(p) /\ p.reason # NoReason

\* decidePaymentStatus
PaymentStatus(p) ==
    IF InFlightHTLCs(p) # {} THEN "InFlight"
    ELSE IF SettledHTLCs(p) \ FailedHTLCs(p) # {} THEN "Succeeded"
    ELSE IF p.reason # NoReason THEN "Failed"
    ELSE IF FailedHTLCs(p) # {} THEN "InFlight"
    ELSE "Initiated"

Initializable(status) == status = "Failed"

Removable(status)     == status # "InFlight"
Updatable(status)     == status \in {"Initiated", "InFlight"}

Terminated(p) == ~Updatable(PaymentStatus(p))

\* Faulty: the checks on settled attempts and on the failure reason are
\* forgotten.
RegistrableUpdatable(p) == Updatable(PaymentStatus(p))

Registrable(p) ==
    /\ Updatable(PaymentStatus(p))
    /\ PaymentStatus(p) = "InFlight" => /\ ~HasSettledHTLC(p)
                                        /\ ~PaymentFailed(p)

-----------------------------------------------------------------------------
(* The decisions of the payment lifecycle.  The code returns a pair        *)
(* (bool, error); the error cases are given apart.                         *)

AllowMoreAttemptsErr(p) ==
    \/ RemainingAmt(p) = 0 /\ PaymentStatus(p) = "Initiated"
    \/ RemainingAmt(p) # 0 /\ PaymentStatus(p) = "Succeeded"

AllowMoreAttempts(p) == RemainingAmt(p) # 0 /\ Registrable(p)

NeedWaitAttemptsErr(p) ==
    \/ RemainingAmt(p) # 0 /\ PaymentStatus(p) = "Succeeded"
    \/ RemainingAmt(p) = 0 /\ PaymentStatus(p) \in {"Initiated", "Failed"}

NeedWaitAttempts(p) ==
    /\ PaymentStatus(p) = "InFlight"
    /\ RemainingAmt(p) # 0 => HasSettledHTLC(p) \/ PaymentFailed(p)

-----------------------------------------------------------------------------
(* What the database transactions check of a payment and make of it.       *)

\* Faulty: the amount of the new attempt is compared alone.
CanRegisterUnsummed(p, amt, mpp) ==
    /\ Registrable(p)
    /\ \A a \in InFlightHTLCs(p) : p.htlcs[a].mpp = mpp
    /\ mpp = NoMpp => amt = p.value
    /\ amt <= p.value

\* Faulty: an attempt with MPP record is not compared with the others.
CanRegisterAnyMpp(p, amt, mpp) ==
    /\ Registrable(p)
    /\ mpp = NoMpp => amt = p.value
    /\ SentAmt(p) + amt <= p.value

\* RegisterAttempt: the payment is registrable, the MPP options agree with
\* those of every attempt in flight, and the amount fits.
CanRegister(p, amt, mpp) ==
    /\ Registrable(p)
    /\ \A a \in InFlightHTLCs(p) : p.htlcs[a].mpp = mpp
    /\ mpp = NoMpp => amt = p.value
    /\ SentAmt(p) + amt <= p.value

WithAttempt(p, a, amt, mpp) ==
    [p EXCEPT !.htlcs[a] = [amt |-> amt, mpp |-> mpp,
                            settle |-> FALSE, failure |-> FALSE]]

\* updateHtlcKey
CanUpdateHtlc(p, a) ==
    /\ Updatable(PaymentStatus(p))
    /\ a \in HTLCs(p)
    /\ ~p.htlcs[a].failure
    /\ ~p.htlcs[a].settle

WithSettle(p, a)  == [p EXCEPT !.htlcs[a].settle = TRUE]
WithFailure(p, a) == [p EXCEPT !.htlcs[a].failure = TRUE]

\* Fail writes the reason whatever the status and overwrites an earlier one.
WithReason(p, reason) == [p EXCEPT !.reason = reason]

\* DeletePayment and DeletePayments with failedHtlcsOnly.
WithoutFailedHTLCs(p) ==
    [p EXCEPT !.htlcs = [a \in AttemptIds |->
                            IF a \in FailedHTLCs(p) THEN NoHtlc
                                                    ELSE p.htlcs[a]]]
=============================================================================
