----------------------- MODULE PaymentLifecycleProofs -----------------------
(***************************************************************************)
(* Theorems about PaymentLifecycle, for any number of attempts, resumed    *)
(* lifecycles and crashes: the variables stay well typed; and, when        *)
(* SendPayment is called once for the hash, the database never calls       *)
(* failed what the network may still claim (RecordsTrue), the caller is    *)
(* told the truth (OutcomeTrue), a lifecycle that waits is woken           *)
(* (WaitHasCollector), the receiver never obtains more than the value      *)
(* (NoOverpay), and sending a payment implements IdealPayment.             *)
(*                                                                         *)
(* One call is needed: a payment deleted while its lifecycle runs and sent *)
(* again is resumed with attempts that its shard tracker does not know,    *)
(* and these are failed although they are under way.                       *)
(*                                                                         *)
(* The amounts enter by one door, the check of RegisterAttempt against     *)
(* what the database counts as sent.  That what can still be claimed is    *)
(* counted there (Placed) follows from the invariant of the lifecycle; the *)
(* rest is about sums.                                                     *)
(***************************************************************************)
EXTENDS PaymentLifecycle, PaymentControlProofs

-----------------------------------------------------------------------------
(* Typing.                                                                 *)

\* What the database keeps for the hash after a lifecycle failed the payment.
LEMMA FailPaymentType ==
    ASSUME LifecycleTypeOK, NEW l \in Lifecycles, NEW reason \in Reasons, NEW next \in PC,
           FailPayment(l, reason, next)
    PROVE  /\ payment' \in Payment \cup {NoPayment}
           /\ pc' \in [Lifecycles -> PC]
           /\ payment' = NoPayment <=> payment = NoPayment
  <1>1. CASE payment = NoPayment
    BY <1>1 DEF FailPayment, Goto, LifecycleTypeOK, PC, Final
  <1>2. CASE payment # NoPayment
    <2>1. WithReason(payment, reason) \in Payment
      BY <1>2, WithReasonType DEF LifecycleTypeOK
    <2> QED
      BY <1>2, <2>1, PaymentLifecycleAssumption DEF FailPayment, Goto, LifecycleTypeOK
  <1> QED
    BY <1>1, <1>2

\* A collector's step keeps the collectors well typed.
LEMMA CollectorGotoType ==
    ASSUME LifecycleTypeOK, NEW l \in Lifecycles, NEW a \in AttemptIds, NEW at \in CollectorPC,
           CollectorGoto(l, a, at)
    PROVE  collector' \in [Lifecycles -> [AttemptIds -> CollectorPC]]
  <1>1. [collector[l] EXCEPT ![a] = at] \in [AttemptIds -> CollectorPC]
    BY DEF LifecycleTypeOK
  <1>2. collector' = [collector EXCEPT ![l] = [collector[l] EXCEPT ![a] = at]]
    BY DEF CollectorGoto, LifecycleTypeOK
  <1> QED
    BY <1>1, <1>2 DEF LifecycleTypeOK

\* Every step keeps the variables well typed.
LEMMA TypeStep == LifecycleTypeOK /\ [LifecycleNext]_lifecycleVars => LifecycleTypeOK'
  <1> SUFFICES ASSUME LifecycleTypeOK, [LifecycleNext]_lifecycleVars PROVE LifecycleTypeOK'
    OBVIOUS
  <1>0. /\ {"idle", "resume", "fetch", "check", "decide", "route", "send", "failpayment",
             "failattempt", "wait", "finish", "killed", "succeeded", "failed",
             "aborted"} = PC
        /\ Mpp \in Mpps \cup {NoMpp} /\ Value \in Nat \ {0}
        /\ {FailureReasonTimeout, FailureReasonNoRoute, FailureReasonError} \subseteq Reasons
        /\ NoPayment \notin Payment
    BY PaymentLifecycleAssumption DEF PC, Final
  <1>1. ASSUME NEW l \in Lifecycles, SendPayment(l) PROVE LifecycleTypeOK'
    <2>1. NewPayment(Value) \in Payment
      BY <1>0, NewPaymentType
    <2> QED
      BY <1>0, <1>1, <2>1 DEF SendPayment, Goto, LifecycleTypeOK, switchVars, collVars
  <1>2. ASSUME NEW l \in Lifecycles, Lifecycle(l) PROVE LifecycleTypeOK'
    <2>1. ASSUME Resume(l) PROVE LifecycleTypeOK'
      <3> DEFINE looking == [a \in AttemptIds |-> IF a \in InFlightHTLCs(payment)
                                                    THEN "lookup" ELSE "none"]
      <3>1. looking \in [AttemptIds -> CollectorPC]
        BY DEF CollectorPC
      <3>2. collector' \in [Lifecycles -> [AttemptIds -> CollectorPC]]
        <4>1. collector' = collector \/ collector' = [collector EXCEPT ![l] = looking]
          BY <2>1 DEF Resume
        <4> HIDE DEF looking
        <4> QED
          BY <3>1, <4>1 DEF LifecycleTypeOK
      <3>3. pc' \in [Lifecycles -> PC]
        BY <1>0, <2>1 DEF Resume, Goto, LifecycleTypeOK
      <3>4. UNCHANGED <<payment, switchVars, routerUp, snap, cur, tracker, session,
                        resultCollected, amt, crashes>>
        BY <2>1 DEF Resume
      <3> QED
        BY <3>2, <3>3, <3>4 DEF LifecycleTypeOK, switchVars
    <2>2. ASSUME Fetch(l) PROVE LifecycleTypeOK'
      BY <1>0, <2>2 DEF Fetch, Goto, LifecycleTypeOK, switchVars, collVars
    <2>3. ASSUME CheckContextDone(l) PROVE LifecycleTypeOK'
      <3>1. payment' \in Payment \cup {NoPayment} /\ pc' \in [Lifecycles -> PC]
        BY <1>0, <2>3, FailPaymentType DEF CheckContextDone
      <3> QED
        BY <2>3, <3>1 DEF CheckContextDone, LifecycleTypeOK, switchVars, collVars
    <2>4. ASSUME DecideNextStep(l) PROVE LifecycleTypeOK'
      BY <1>0, <2>4 DEF DecideNextStep, Goto, LifecycleTypeOK, switchVars, collVars
    <2>5. ASSUME WaitResult(l) PROVE LifecycleTypeOK'
      BY <1>0, <2>5 DEF WaitResult, Goto, LifecycleTypeOK, switchVars
    <2>6. ASSUME NoRoute(l) PROVE LifecycleTypeOK'
      <3>1. payment' \in Payment \cup {NoPayment} /\ pc' \in [Lifecycles -> PC]
        BY <1>0, <2>6, FailPaymentType DEF NoRoute
      <3> QED
        BY <2>6, <3>1 DEF NoRoute, LifecycleTypeOK, switchVars, collVars
    <2>7. ASSUME RouteError(l) PROVE LifecycleTypeOK'
      BY <1>0, <2>7 DEF RouteError, Goto, LifecycleTypeOK, switchVars, collVars
    <2>8. ASSUME NEW a \in AttemptIds, NEW amount \in 1 .. Value, RegisterNewAttempt(l, a, amount)
          PROVE  LifecycleTypeOK'
      <3>1. amount \in Nat \ {0} /\ amount \in 0 .. Value
        BY <1>0
      <3>2. /\ htlc' \in [AttemptIds -> HtlcState]
            /\ amt' \in [AttemptIds -> 0 .. Value]
            /\ tracker' \in [Lifecycles -> SUBSET AttemptIds]
        <4>1. "allocated" \in HtlcState
          BY DEF HtlcState
        <4>2. tracker[l] \cup {a} \in SUBSET AttemptIds
          BY DEF LifecycleTypeOK
        <4> QED
          BY <2>8, <3>1, <4>1, <4>2 DEF RegisterNewAttempt, NewAttempt, LifecycleTypeOK
      <3>3. CASE payment # NoPayment /\ CanRegister(payment, amount, Mpp)
        <4>1. WithAttempt(payment, a, amount, Mpp) \in Payment
          BY <1>0, <3>1, <3>3, WithAttemptType DEF LifecycleTypeOK
        <4>2. payment' \in Payment /\ cur' \in [Lifecycles -> SUBSET AttemptIds]
          <5>1. payment' = WithAttempt(payment, a, amount, Mpp) /\ cur' = [cur EXCEPT ![l] = {a}]
            BY <2>8, <3>3 DEF RegisterNewAttempt
          <5>2. {a} \in SUBSET AttemptIds
            OBVIOUS
          <5> QED
            BY <4>1, <5>1, <5>2 DEF LifecycleTypeOK
        <4>3. pc' \in [Lifecycles -> PC]
          BY <1>0, <2>8, <3>3 DEF RegisterNewAttempt, Goto, LifecycleTypeOK
        <4> QED
          BY <2>8, <3>2, <4>2, <4>3 DEF RegisterNewAttempt, LifecycleTypeOK, collVars
      <3>4. CASE ~(payment # NoPayment /\ CanRegister(payment, amount, Mpp))
        BY <1>0, <2>8, <3>2, <3>4 DEF RegisterNewAttempt, Goto, LifecycleTypeOK, collVars
      <3> QED
        BY <3>3, <3>4
    <2>9. ASSUME NEW a \in AttemptIds, SendHTLC(l, a) PROVE LifecycleTypeOK'
      <3>1. /\ htlc' \in [AttemptIds -> HtlcState]
            /\ packet' \in [AttemptIds -> PacketState]
        BY <2>9 DEF SendHTLC, LifecycleTypeOK, HtlcState, PacketState
      <3>2. collector' \in [Lifecycles -> [AttemptIds -> CollectorPC]]
        BY <2>9, CollectorGotoType DEF SendHTLC, CollectorGoto, CollectorPC
      <3> QED
        BY <1>0, <2>9, <3>1, <3>2 DEF SendHTLC, Goto, LifecycleTypeOK
    <2>10. ASSUME NEW a \in AttemptIds, SendHTLCError(l, a) PROVE LifecycleTypeOK'
      BY <1>0, <2>10 DEF SendHTLCError, Goto, LifecycleTypeOK, switchVars, collVars
    <2>11. ASSUME NEW a \in AttemptIds, FailLastAttempt(l, a) PROVE LifecycleTypeOK'
      <3>1. /\ tracker' \in [Lifecycles -> SUBSET AttemptIds]
            /\ cur' \in [Lifecycles -> SUBSET AttemptIds]
        BY <2>11 DEF FailLastAttempt, LifecycleTypeOK
      <3>2. CASE payment # NoPayment /\ CanUpdateHtlc(payment, a)
        <4>1. WithFailure(payment, a) \in Payment
          BY <3>2, WithOutcomeType DEF LifecycleTypeOK, CanUpdateHtlc
        <4> QED
          BY <1>0, <2>11, <3>1, <3>2, <4>1 DEF FailLastAttempt, Goto, LifecycleTypeOK,
             switchVars, collVars
      <3>3. CASE ~(payment # NoPayment /\ CanUpdateHtlc(payment, a))
        BY <1>0, <2>11, <3>1, <3>3 DEF FailLastAttempt, Goto, LifecycleTypeOK, switchVars, collVars
      <3> QED
        BY <3>2, <3>3
    <2>12. ASSUME FailPaymentFirst(l) PROVE LifecycleTypeOK'
      <3>1. payment' \in Payment \cup {NoPayment} /\ pc' \in [Lifecycles -> PC]
        BY <1>0, <2>12, FailPaymentType DEF FailPaymentFirst
      <3> QED
        BY <2>12, <3>1 DEF FailPaymentFirst, LifecycleTypeOK, switchVars, collVars
    <2>13. ASSUME Finish(l) PROVE LifecycleTypeOK'
      <3>1. payment # NoPayment => WithoutFailedHTLCs(payment) \in Payment
        BY WithoutFailedType DEF LifecycleTypeOK
      <3>2. payment' \in Payment \cup {NoPayment} /\ pc' \in [Lifecycles -> PC]
        BY <1>0, <2>13, <3>1 DEF Finish, Goto, LifecycleTypeOK
      <3> QED
        BY <2>13, <3>2 DEF Finish, LifecycleTypeOK, switchVars, collVars
    <2> QED
      BY <1>2, <2>1, <2>2, <2>3, <2>4, <2>5, <2>6, <2>7, <2>8, <2>9, <2>10, <2>11, <2>12,
         <2>13 DEF Lifecycle
  <1>3. ASSUME NEW l \in Lifecycles, NEW a \in AttemptIds, Collector(l, a) PROVE LifecycleTypeOK'
    <2>1. ASSUME LookupCircuit(l, a) \/ GetResult(l, a) \/ ReceiveResult(l, a) \/ QuitWaiting(l, a)
          PROVE  LifecycleTypeOK'
      <3>1. \E at \in CollectorPC : CollectorGoto(l, a, at)
        BY <2>1 DEF LookupCircuit, GetResult, ReceiveResult, QuitWaiting, HandleResult, CollectorPC
      <3>2. collector' \in [Lifecycles -> [AttemptIds -> CollectorPC]]
        BY <3>1, CollectorGotoType
      <3>3. UNCHANGED <<payment, switchVars, routerUp, lifeVars, resultCollected, amt, crashes>>
        BY <2>1 DEF LookupCircuit, GetResult, ReceiveResult, QuitWaiting
      <3> QED
        BY <3>2, <3>3 DEF LifecycleTypeOK, switchVars, lifeVars
    <2>2. ASSUME CollectorFailPayment(l, a) PROVE LifecycleTypeOK'
      <3>1. payment # NoPayment => WithReason(payment, FailureReasonError) \in Payment
        BY <1>0, WithReasonType DEF LifecycleTypeOK
      <3>2. payment' \in Payment \cup {NoPayment}
            /\ \E at \in CollectorPC : CollectorGoto(l, a, at)
        BY <2>2, <3>1 DEF CollectorFailPayment, LifecycleTypeOK, CollectorPC
      <3>3. collector' \in [Lifecycles -> [AttemptIds -> CollectorPC]]
        BY <3>2, CollectorGotoType
      <3> QED
        BY <2>2, <3>2, <3>3 DEF CollectorFailPayment, LifecycleTypeOK, switchVars, lifeVars
    <2>3. ASSUME CollectorFailAttempt(l, a) PROVE LifecycleTypeOK'
      <3>1. payment # NoPayment /\ CanUpdateHtlc(payment, a) => WithFailure(payment, a) \in Payment
        BY WithOutcomeType DEF LifecycleTypeOK, CanUpdateHtlc
      <3>2. payment' \in Payment \cup {NoPayment}
            /\ \E at \in CollectorPC : CollectorGoto(l, a, at)
        BY <2>3, <3>1 DEF CollectorFailAttempt, Record, LifecycleTypeOK, CollectorPC
      <3>3. collector' \in [Lifecycles -> [AttemptIds -> CollectorPC]]
        BY <3>2, CollectorGotoType
      <3>4. tracker' \in [Lifecycles -> SUBSET AttemptIds]
        BY <2>3 DEF CollectorFailAttempt, LifecycleTypeOK
      <3> QED
        BY <2>3, <3>2, <3>3, <3>4 DEF CollectorFailAttempt, LifecycleTypeOK, switchVars
    <2>4. ASSUME CollectorSettleAttempt(l, a) PROVE LifecycleTypeOK'
      <3>1. payment # NoPayment /\ CanUpdateHtlc(payment, a) => WithSettle(payment, a) \in Payment
        BY WithOutcomeType DEF LifecycleTypeOK, CanUpdateHtlc
      <3>2. payment' \in Payment \cup {NoPayment}
            /\ \E at \in CollectorPC : CollectorGoto(l, a, at)
        BY <2>4, <3>1 DEF CollectorSettleAttempt, Record, LifecycleTypeOK, CollectorPC
      <3>3. collector' \in [Lifecycles -> [AttemptIds -> CollectorPC]]
        BY <3>2, CollectorGotoType
      <3> QED
        BY <2>4, <3>2, <3>3 DEF CollectorSettleAttempt, LifecycleTypeOK, switchVars, lifeVars
    <2>5. ASSUME Signal(l, a) PROVE LifecycleTypeOK'
      <3>1. collector' \in [Lifecycles -> [AttemptIds -> CollectorPC]]
        BY <2>5, CollectorGotoType DEF Signal, CollectorPC
      <3>2. resultCollected' \in [Lifecycles -> {"empty", "nil", "err"}]
        BY <2>5 DEF Signal, LifecycleTypeOK
      <3> QED
        BY <2>5, <3>1, <3>2 DEF Signal, LifecycleTypeOK, switchVars, lifeVars
    <2> QED
      BY <1>3, <2>1, <2>2, <2>3, <2>4, <2>5 DEF Collector
  <1>4. ASSUME NEW a \in AttemptIds, Link(a) \/ Network(a) \/ Switch(a) PROVE LifecycleTypeOK'
    <2>1. /\ \A s \in {"out", "answered", "acked", "gone"} : s \in HtlcState
          /\ \A s \in {"none", "fail", "closed", "stored"} : s \in PacketState
      BY DEF HtlcState, PacketState
    <2>2. ASSUME LinkAdd(a) PROVE LifecycleTypeOK'
      BY <2>1, <2>2 DEF LinkAdd, LifecycleTypeOK, switchOnly, lifeVars, collVars
    <2>7. ASSUME LinkFail(a) PROVE LifecycleTypeOK'
      BY <2>1, <2>7 DEF LinkFail, LifecycleTypeOK, switchOnly, lifeVars, collVars
    <2>3. ASSUME Network(a) PROVE LifecycleTypeOK'
      BY <2>1, <2>3 DEF Network, NetworkAnswer, LifecycleTypeOK, switchOnly, lifeVars, collVars
    <2>4. ASSUME CloseCircuit(a) PROVE LifecycleTypeOK'
      BY <2>1, <2>4 DEF CloseCircuit, LifecycleTypeOK, switchOnly, lifeVars, collVars
    <2>5. ASSUME StoreResult(a) PROVE LifecycleTypeOK'
      BY <2>1, <2>5 DEF StoreResult, LifecycleTypeOK, switchOnly, lifeVars, collVars
    <2>6. ASSUME AckSettleFail(a) \/ TeardownCircuit(a) PROVE LifecycleTypeOK'
      BY <2>1, <2>6 DEF AckSettleFail, TeardownCircuit, LifecycleTypeOK, switchOnly, lifeVars,
         collVars
    <2> QED
      BY <1>4, <2>2, <2>3, <2>4, <2>5, <2>6, <2>7 DEF Link, Switch
  <1>6. ASSUME CallDeletePayment PROVE LifecycleTypeOK'
    BY <1>6 DEF CallDeletePayment, LifecycleTypeOK, switchVars, lifeVars, collVars
  <1>7. ASSUME Crash PROVE LifecycleTypeOK'
    <2>1. crashes' \in 0 .. MaxCrashes
      BY <1>7, PaymentLifecycleAssumption DEF Crash, LifecycleTypeOK
    <2> QED
      BY <1>0, <1>7, <2>1 DEF Crash, LifecycleTypeOK, PacketState, CollectorPC
  <1>8. ASSUME StartRouter PROVE LifecycleTypeOK'
    <2>2. result' \in [AttemptIds -> {"none", "settle", "fail"}]
      BY <1>8 DEF StartRouter, LifecycleTypeOK
    <2>3. /\ pc' \in [Lifecycles -> PC]
          /\ tracker' \in [Lifecycles -> SUBSET AttemptIds]
          /\ session' \in [Lifecycles -> {"routes", "empty"}]
      <3>1. CASE payment = NoPayment \/ Terminated(payment)
        BY <1>8, <3>1 DEF StartRouter, LifecycleTypeOK
      <3>2. CASE ~(payment = NoPayment \/ Terminated(payment))
        <4>1. HTLCs(payment) \in SUBSET AttemptIds
          BY AttemptSets
        <4>2. "resume" \in PC
          BY <1>0
        <4>3. PICK l \in Lifecycles :
                 /\ Goto(l, "resume")
                 /\ tracker' = [tracker EXCEPT ![l] = HTLCs(payment)]
                 /\ session' = [session EXCEPT ![l] = "empty"]
          BY <1>8, <3>2 DEF StartRouter, NextLifecycle
        <4> QED
          BY <4>1, <4>2, <4>3 DEF LifecycleTypeOK, Goto
      <3> QED
        BY <3>1, <3>2
    <2> QED
      BY <1>8, <2>2, <2>3 DEF StartRouter, LifecycleTypeOK, collVars
  <1>9. CASE UNCHANGED lifecycleVars
    BY <1>9 DEF lifecycleVars, LifecycleTypeOK
  <1> QED
    BY <1>1, <1>2, <1>3, <1>4, <1>6, <1>7, <1>8, <1>9 DEF LifecycleNext

\* The payment, the switch and the goroutines stay well typed, for any number
\* of callers, lifecycles, attempts and crashes.
THEOREM LifecycleTyping == LifecycleSpec => []LifecycleTypeOK
  <1>1. LifecycleInit => LifecycleTypeOK
    BY PaymentLifecycleAssumption
    DEF LifecycleInit, LifecycleTypeOK, HtlcState, PacketState, PC, CollectorPC
  <1> QED
    BY <1>1, TypeStep, PTL DEF LifecycleSpec

-----------------------------------------------------------------------------
(* The inductive invariant.                                                *)

\* A lifecycle that may still act, by itself or through a collector.
Active(l) == Running(l) \/ Collecting(l)

\* What a collector does before it has written its outcome.
Busy == {"lookup", "get", "wait", "failpayment", "failattempt", "settle"}

\* The lifecycle that registered the attempt is about to hand it to the switch.
Sending(a) == \E l \in Lifecycles : pc[l] = "send" /\ a \in cur[l]

\* The attempt can never be claimed.
Dead(a) ==
    /\ htlc[a] \notin {"unused", "out"}
    /\ packet[a] # "add" /\ answer[a] # "settle"
    /\ ~Sending(a)

\* The database holds the attempt as one in flight.
Open(a) == payment # NoPayment /\ a \in InFlightHTLCs(payment)

\* What a payment records is what became of its attempts, and an attempt it does
\* not record, or records as failed, can never be claimed.
Agrees(p) ==
    \A a \in AttemptIds :
        /\ a \in HTLCs(p) => htlc[a] # "unused"
        /\ a \in FailedHTLCs(p) => Dead(a)
        /\ a \in SettledHTLCs(p) => answer[a] = "settle"
        /\ htlc[a] # "unused" => Dead(a) \/ a \in HTLCs(p) \ FailedHTLCs(p)

\* One call of SendPayment: its lifecycle and those that resume it take turns.
OneSender ==
    /\ IsFiniteSet(Sends)
    /\ Sends = {} => /\ payment = NoPayment
                     /\ \A l \in Lifecycles : pc[l] = "idle" /\ session[l] = "routes"
                     /\ \A a \in AttemptIds : htlc[a] = "unused"
    /\ \A l, k \in Lifecycles : Active(l) /\ Active(k) => l = k
    /\ ~routerUp => \A l \in Lifecycles : ~Active(l)
    /\ \A l, k \in Lifecycles :
           Active(l) /\ session[l] = "routes" /\ k # l => pc[k] = "idle"
    /\ \A l \in Lifecycles :
           pc[l] \in {"idle", "resume", "killed"} => ~Collecting(l)

\* The packet, the circuit and the answer of an attempt go together.
SwitchInv ==
    \A a \in AttemptIds :
        /\ htlc[a] \in {"unused", "allocated", "out", "gone"} => packet[a] = "none"
        /\ htlc[a] = "answered" => packet[a] \in {"none", "closed", "stored"}
        /\ htlc[a] = "acked" => packet[a] \in {"none", "stored"}
        /\ htlc[a] \in {"unused", "allocated", "half", "out"} => answer[a] = "none"
        /\ htlc[a] \in {"answered", "acked"} => answer[a] # "none"

\* A stored result is the answer, and no result is missing that a collector of an
\* attempt in flight would ask for.
ResultInv ==
    \A a \in AttemptIds :
        /\ result[a] = "settle" => answer[a] = "settle"
        /\ result[a] = "fail" => Dead(a)
        /\ Open(a) /\ (htlc[a] \in {"acked", "gone"} \/ packet[a] = "stored")
               => result[a] # "none"

\* The attempt a lifecycle holds is in flight, not yet sent, and nobody collects it.
CurInv ==
    \A l \in Lifecycles : \A a \in cur[l] :
        /\ cur[l] = {a}
        /\ pc[l] \in {"send", "failpayment", "failattempt"}
        /\ htlc[a] = "allocated"
        /\ Open(a)
        /\ a \in tracker[l]
        /\ \A k \in Lifecycles : collector[k][a] = "none"

\* What a collector is about to write is true, and nobody has written before it.
CollInv ==
    \A l \in Lifecycles, a \in AttemptIds :
        /\ collector[l][a] # "none" => htlc[a] # "unused"
        /\ collector[l][a] \in Busy => Open(a)
        /\ collector[l][a] = "lookup" => a \in tracker[l]
        /\ collector[l][a] = "get" => htlc[a] \in {"allocated", "gone"}
        /\ collector[l][a] \in {"failpayment", "failattempt"} => Dead(a)
        /\ collector[l][a] = "settle" => answer[a] = "settle"

\* A resumed lifecycle tracks every attempt of the payment.
ResumeInv ==
    \A l \in Lifecycles :
        pc[l] = "resume" /\ payment # NoPayment => HTLCs(payment) \subseteq tracker[l]

\* The current payment agrees with the network.
RecordInv == payment # NoPayment => Agrees(payment)

\* So does the one a lifecycle fetched, however old, and the outcome taken from it.
SnapInv ==
    \A l \in Lifecycles :
        /\ pc[l] \in {"check", "decide", "route", "wait", "finish"} =>
               snap[l] # NoPayment /\ Agrees(snap[l])
        /\ pc[l] = "finish" => InFlightHTLCs(snap[l]) = {}
        /\ pc[l] = "failed" => \A a \in AttemptIds : htlc[a] = "unused" \/ Dead(a)
        /\ pc[l] = "succeeded" => Paid # {}

\* The inductive invariant.
Inv == /\ LifecycleTypeOK /\ OneSender /\ SwitchInv /\ ResultInv /\ CurInv /\ CollInv
       /\ ResumeInv /\ RecordInv /\ SnapInv

-----------------------------------------------------------------------------
(* What a step leaves alone.                                               *)

\* The payment q differs from p at most in its reason and in dropped failures.
Keeps(p, q) ==
    /\ HTLCs(q) \subseteq HTLCs(p)
    /\ FailedHTLCs(q) \subseteq FailedHTLCs(p)
    /\ SettledHTLCs(q) \subseteq SettledHTLCs(p)
    /\ HTLCs(q) \ FailedHTLCs(q) = HTLCs(p) \ FailedHTLCs(p)
    /\ InFlightHTLCs(q) = InFlightHTLCs(p)

\* The step does no more than that to the payment of the hash.
SamePayment ==
    \/ payment' = payment
    \/ payment # NoPayment /\ payment' # NoPayment /\ Keeps(payment, payment')

\* Failing the payment writes a reason and nothing else.
LEMMA FailPaymentKeeps ==
    ASSUME LifecycleTypeOK, NEW l \in Lifecycles, NEW reason \in Reasons, NEW next,
           FailPayment(l, reason, next)
    PROVE  SamePayment
  <1>1. CASE payment = NoPayment
    BY <1>1 DEF FailPayment, SamePayment
  <1>2. CASE payment # NoPayment
    <2>1. payment \in Payment /\ payment' = WithReason(payment, reason)
      BY <1>2 DEF FailPayment, LifecycleTypeOK
    <2>2. payment' # NoPayment
      BY <2>1, WithReasonType, PaymentLifecycleAssumption
    <2> QED
      BY <1>2, <2>1, <2>2, WithReasonSets DEF SamePayment, Keeps
  <1> QED
    BY <1>1, <1>2

\* Steps of a lifecycle that touch neither an attempt nor a collector.
Plans(l) ==
    \/ Fetch(l) \/ CheckContextDone(l) \/ DecideNextStep(l) \/ WaitResult(l)
    \/ NoRoute(l) \/ RouteError(l) \/ FailPaymentFirst(l) \/ Finish(l)
    \/ \E a \in AttemptIds : SendHTLCError(l, a)

\* Such a step changes its own lifecycle and at most the reason of the payment.
LEMMA PlansEffect ==
    ASSUME LifecycleTypeOK, NEW l \in Lifecycles, Plans(l)
    PROVE  /\ UNCHANGED <<switchVars, routerUp, cur, tracker, session, collector, amt, crashes>>
           /\ SamePayment
           /\ pc[l] \notin Final \cup {"idle", "killed", "resume"}
           /\ pc'[l] \notin {"idle", "killed", "resume"}
           /\ pc'[l] \in {"send", "failpayment", "failattempt"} =>
                  pc[l] \in {"send", "failpayment", "failattempt"}
           /\ pc[l] \in {"send", "failpayment"} /\ payment # NoPayment =>
                  pc'[l] \in {"failpayment", "failattempt"}
           /\ pc[l] # "failattempt" /\ pc'[l] # "send"
           /\ \A k \in Lifecycles \ {l} : pc'[k] = pc[k] /\ snap'[k] = snap[k]
  <1>0. {FailureReasonTimeout, FailureReasonNoRoute, FailureReasonError} \subseteq Reasons
    BY PaymentLifecycleAssumption
  <1>1. ASSUME Fetch(l) PROVE UNCHANGED <<switchVars, routerUp, cur, tracker, session, collector, amt, crashes>> /\ SamePayment
    BY <1>1 DEF Fetch, SamePayment, collVars
  <1>2. ASSUME CheckContextDone(l) PROVE UNCHANGED <<switchVars, routerUp, cur, tracker, session, collector, amt, crashes>> /\ SamePayment
    BY <1>0, <1>2, FailPaymentKeeps DEF CheckContextDone, collVars
  <1>3. ASSUME NoRoute(l) \/ FailPaymentFirst(l)
        PROVE  UNCHANGED <<switchVars, routerUp, cur, tracker, session, collector, amt, crashes>> /\ SamePayment
    BY <1>0, <1>3, FailPaymentKeeps DEF NoRoute, FailPaymentFirst, collVars
  <1>4. ASSUME DecideNextStep(l) \/ WaitResult(l) \/ RouteError(l) \/ \E a \in AttemptIds : SendHTLCError(l, a)
        PROVE  UNCHANGED <<switchVars, routerUp, cur, tracker, session, collector, amt, crashes>> /\ SamePayment
    BY <1>4 DEF DecideNextStep, WaitResult, RouteError, SendHTLCError, SamePayment, collVars
  <1>5. ASSUME Finish(l) PROVE UNCHANGED <<switchVars, routerUp, cur, tracker, session, collector, amt, crashes>> /\ SamePayment
    <2>1. payment # NoPayment /\ payment' = WithoutFailedHTLCs(payment) => SamePayment
      <3> SUFFICES ASSUME payment # NoPayment, payment' = WithoutFailedHTLCs(payment)
                   PROVE  SamePayment
        OBVIOUS
      <3>1. payment \in Payment /\ payment' # NoPayment
        BY WithoutFailedType, PaymentLifecycleAssumption DEF LifecycleTypeOK
      <3> QED
        BY <3>1, WithoutFailedSets, AttemptSets DEF SamePayment, Keeps
    <2> QED
      BY <1>5, <2>1 DEF Finish, SamePayment, collVars
  <1>6. /\ UNCHANGED <<switchVars, routerUp, cur, tracker, session, collector, amt, crashes>>
        /\ SamePayment
    BY <1>1, <1>2, <1>3, <1>4, <1>5 DEF Plans
  <1>7. /\ pc[l] \notin Final \cup {"idle", "killed", "resume"}
        /\ pc'[l] \notin {"idle", "killed", "resume"}
        /\ pc'[l] \in {"send", "failpayment", "failattempt"} =>
                  pc[l] \in {"send", "failpayment", "failattempt"}
        /\ pc[l] \in {"send", "failpayment"} /\ payment # NoPayment =>
               pc'[l] \in {"failpayment", "failattempt"}
        /\ pc[l] # "failattempt" /\ pc'[l] # "send"
        /\ \A k \in Lifecycles \ {l} : pc'[k] = pc[k]
    BY DEF Plans, Fetch, CheckContextDone, DecideNextStep, WaitResult, NoRoute, RouteError,
           FailPaymentFirst, Finish, SendHTLCError, FailPayment, Goto, LifecycleTypeOK, Final
  <1>8. \A k \in Lifecycles \ {l} : snap'[k] = snap[k]
    BY DEF Plans, Fetch, CheckContextDone, DecideNextStep, WaitResult, NoRoute, RouteError,
           FailPaymentFirst, Finish, SendHTLCError, LifecycleTypeOK
  <1> QED
    BY <1>6, <1>7, <1>8

\* The step revives no attempt, forgets no claim and uses no identifier.
Persists ==
    \A a \in AttemptIds :
        /\ Dead(a) => Dead(a)'
        /\ htlc'[a] = "unused" <=> htlc[a] = "unused"
        /\ answer[a] = "settle" => answer'[a] = "settle"

\* Agrees(p) after the step, for a payment p of the state before it.
AgreesAfter(p) ==
    \A a \in AttemptIds :
        /\ a \in HTLCs(p) => htlc'[a] # "unused"
        /\ a \in FailedHTLCs(p) => Dead(a)'
        /\ a \in SettledHTLCs(p) => answer'[a] = "settle"
        /\ htlc'[a] # "unused" => Dead(a)' \/ a \in HTLCs(p) \ FailedHTLCs(p)

\* A payment that agreed with the network still does.
LEMMA AgreesKept ==
    ASSUME Persists, NEW p, NEW q, Keeps(p, q), Agrees(p)
    PROVE  AgreesAfter(q)
  BY DEF Persists, Keeps, Agrees, AgreesAfter

\* An unchanged payment is a case of Keeps.
LEMMA KeepsItself == \A p : Keeps(p, p)
  BY DEF Keeps

\* RecordInv survives a step that writes no outcome and uses no identifier.
LEMMA RecordKept ==
    ASSUME Persists, SamePayment, RecordInv
    PROVE  RecordInv'
  <1> SUFFICES ASSUME payment' # NoPayment PROVE AgreesAfter(payment')
    BY DEF RecordInv, Agrees, AgreesAfter
  <1> QED
    BY AgreesKept, KeepsItself DEF RecordInv, SamePayment

\* OneSender survives a step that starts no lifecycle.
LEMMA OneSenderKept ==
    ASSUME OneSender, session' = session,
           \A l \in Lifecycles : pc'[l] = "idle" <=> pc[l] = "idle",
           \A l \in Lifecycles : Active(l)' => Active(l),
           routerUp' = routerUp \/ \A l \in Lifecycles : ~Active(l)',
           payment = NoPayment => payment' = NoPayment,
           \A a \in AttemptIds : Sends = {} /\ htlc[a] = "unused" => htlc'[a] = "unused",
           \A l \in Lifecycles :
               pc'[l] \in {"idle", "resume", "killed"} => ~Collecting(l)'
    PROVE  OneSender'
  <1>1. Sends' = Sends
    BY DEF Sends
  <1>2. IsFiniteSet(Sends)'
    BY <1>1 DEF OneSender
  <1> QED
    BY <1>1, <1>2 DEF OneSender

\* SwitchInv is about the switch alone.
LEMMA SwitchKept ==
    ASSUME SwitchInv, UNCHANGED <<htlc, packet, answer>>
    PROVE  SwitchInv'
  BY DEF SwitchInv

\* Such a step changes nothing about what is in flight.
LEMMA OpenKept ==
    ASSUME SamePayment, NEW a
    PROVE  Open(a)' <=> Open(a)
  BY DEF SamePayment, Open, Keeps

\* ResultInv survives a step outside the switch that registers nothing.
LEMMA ResultKept ==
    ASSUME ResultInv, Persists, UNCHANGED switchVars, \A a \in AttemptIds : Open(a)' => Open(a)
    PROVE  ResultInv'
  BY DEF ResultInv, Persists, switchVars

\* What SnapInv says of one lifecycle after the step.
SnapAfter(l) ==
    /\ pc'[l] \in {"check", "decide", "route", "wait", "finish"} =>
           snap'[l] # NoPayment /\ AgreesAfter(snap'[l])
    /\ pc'[l] = "finish" => InFlightHTLCs(snap'[l]) = {}
    /\ pc'[l] = "failed" => \A a \in AttemptIds : htlc'[a] = "unused" \/ Dead(a)'
    /\ pc'[l] = "succeeded" => Paid' # {}

\* SnapInv is SnapAfter of every lifecycle.
LEMMA SnapAfterAll ==
    ASSUME \A l \in Lifecycles : SnapAfter(l)
    PROVE  SnapInv'
  BY DEF SnapInv, SnapAfter, Agrees, AgreesAfter

\* A lifecycle that did not move keeps its part of SnapInv.
LEMMA SnapAfterSame ==
    ASSUME Persists, SnapInv, NEW l \in Lifecycles, pc'[l] = pc[l], snap'[l] = snap[l]
    PROVE  SnapAfter(l)
  <1>1. Paid \subseteq Paid'
    BY DEF Persists, Paid
  <1>2. pc'[l] = "failed" => \A a \in AttemptIds : htlc'[a] = "unused" \/ Dead(a)'
    BY DEF Persists, SnapInv
  <1>3. pc'[l] \in {"check", "decide", "route", "wait", "finish"} =>
            snap'[l] # NoPayment /\ AgreesAfter(snap'[l])
    BY AgreesKept, KeepsItself DEF SnapInv
  <1> QED
    BY <1>1, <1>2, <1>3 DEF SnapInv, SnapAfter

\* A lifecycle finishes only when no attempt of the payment it fetched is in flight.
LEMMA NothingLeft ==
    ASSUME NEW p, ~AllowMoreAttempts(p), ~NeedWaitAttempts(p)
    PROVE  InFlightHTLCs(p) = {}
  <1>1. PaymentStatus(p) # "InFlight"
    BY DEF AllowMoreAttempts, NeedWaitAttempts, Registrable, Updatable
  <1> QED
    BY <1>1 DEF PaymentStatus

\* The outcome that a lifecycle reports is the one its attempts had.
LEMMA FinishOutcome ==
    ASSUME Inv, Persists, NEW l \in Lifecycles, Finish(l)
    PROVE  SnapAfter(l)
  <1>1. Agrees(snap[l]) /\ InFlightHTLCs(snap[l]) = {}
    BY DEF Inv, SnapInv, Finish
  <1>2. pc'[l] = IF HasSettledHTLC(snap[l]) THEN "succeeded" ELSE "failed"
    BY DEF Finish, Goto, Inv, LifecycleTypeOK
  <1>3. ASSUME HasSettledHTLC(snap[l]) PROVE Paid' # {}
    <2>1. PICK a : a \in SettledHTLCs(snap[l])
      BY <1>3 DEF HasSettledHTLC
    <2>2. a \in AttemptIds /\ answer[a] = "settle"
      BY <1>1, <2>1, AttemptSets DEF Agrees
    <2> QED
      BY <2>2 DEF Persists, Paid
  <1>4. ASSUME ~HasSettledHTLC(snap[l])
        PROVE  \A a \in AttemptIds : htlc'[a] = "unused" \/ Dead(a)'
    <2>1. HTLCs(snap[l]) \ FailedHTLCs(snap[l]) = {}
      BY <1>1, <1>4, AttemptSets DEF HasSettledHTLC
    <2> QED
      BY <1>1, <2>1 DEF Agrees, Persists
  <1> QED
    BY <1>2, <1>3, <1>4 DEF SnapAfter

\* Fetching, deciding, waiting and finishing keep the invariant.
LEMMA PlansStep ==
    ASSUME Inv, NEW l \in Lifecycles, Plans(l), LifecycleTypeOK'
    PROVE  Inv'
  <1>1. Persists
    BY PlansEffect DEF Inv, Persists, Dead, Sending, switchVars
  <1>2. SamePayment /\ RecordInv'
    BY <1>1, PlansEffect, RecordKept DEF Inv
  <1>3. OneSender'
    <2>1. \A k \in Lifecycles : pc'[k] = "idle" <=> pc[k] = "idle"
      BY PlansEffect DEF Inv
    <2>2. \A k \in Lifecycles : Collecting(k)' <=> Collecting(k)
      BY PlansEffect DEF Inv, Collecting
    <2>3. \A k \in Lifecycles : Active(k)' => Active(k)
      BY <2>2, PlansEffect DEF Inv, Active, Running
    <2>4. \A k \in Lifecycles : pc'[k] \in {"idle", "resume", "killed"} => ~Collecting(k)'
      BY <2>2, PlansEffect DEF Inv, OneSender
    <2> QED
      BY <1>2, <2>1, <2>3, <2>4, PlansEffect, OneSenderKept DEF Inv, switchVars, SamePayment
  <1>4. SwitchInv' /\ ResultInv'
    BY <1>1, <1>2, PlansEffect, SwitchKept, ResultKept, OpenKept DEF Inv, switchVars
  <1>5. CurInv'
    <2>1. \A a \in AttemptIds : Open(a)' <=> Open(a)
      BY <1>2, OpenKept
    <2>2. \A k \in Lifecycles : cur[k] \subseteq AttemptIds
      BY DEF Inv, LifecycleTypeOK
    <2>3. \A k \in Lifecycles : \A a \in cur[k] : pc'[k] \in {"send", "failpayment", "failattempt"}
      BY PlansEffect DEF Inv, CurInv, Open
    <2> QED
      BY <2>1, <2>2, <2>3, PlansEffect DEF Inv, CurInv, switchVars
  <1>6. CollInv'
    BY <1>1, <1>2, OpenKept, PlansEffect DEF Inv, CollInv, Persists, switchVars
  <1>7. ResumeInv'
    BY <1>2, PlansEffect DEF Inv, ResumeInv, SamePayment, Keeps
  <1>8. SnapInv'
    <2>1. ASSUME NEW k \in Lifecycles \ {l} PROVE SnapAfter(k)
      BY <1>1, PlansEffect, SnapAfterSame DEF Inv
    <2>2. ASSUME Fetch(l) PROVE SnapAfter(l)
      <3>1. \/ pc'[l] = "aborted"
            \/ pc'[l] = "check" /\ payment # NoPayment /\ snap'[l] = payment
        BY <2>2 DEF Fetch, Goto, Inv, LifecycleTypeOK
      <3>2. payment # NoPayment => AgreesAfter(payment)
        BY <1>1, AgreesKept, KeepsItself DEF Inv, RecordInv
      <3> QED
        BY <3>1, <3>2 DEF SnapAfter
    <2>3. ASSUME CheckContextDone(l) PROVE SnapAfter(l)
      <3>1. /\ pc[l] = "check" /\ pc'[l] \in {"decide", "aborted"}
            /\ snap'[l] = snap[l]
        BY <2>3 DEF CheckContextDone, FailPayment, Goto, Inv, LifecycleTypeOK
      <3>2. snap[l] # NoPayment /\ AgreesAfter(snap[l])
        BY <1>1, <3>1, AgreesKept, KeepsItself DEF Inv, SnapInv
      <3> QED
        BY <3>1, <3>2 DEF SnapAfter
    <2>4. ASSUME DecideNextStep(l) PROVE SnapAfter(l)
      <3>1. /\ pc[l] \in {"check", "decide"} /\ snap'[l] = snap[l]
            /\ pc'[l] \in {"aborted", "route", "wait", "finish"}
            /\ pc'[l] = "finish" => /\ ~AllowMoreAttempts(snap[l])
                                    /\ ~NeedWaitAttempts(snap[l])
        BY <2>4 DEF DecideNextStep, Goto, Inv, LifecycleTypeOK
      <3>2. snap[l] # NoPayment /\ AgreesAfter(snap[l])
        BY <1>1, <3>1, AgreesKept, KeepsItself DEF Inv, SnapInv
      <3> QED
        BY <3>1, <3>2, NothingLeft DEF SnapAfter
    <2>5. ASSUME WaitResult(l) \/ NoRoute(l) \/ RouteError(l) \/ FailPaymentFirst(l)
                   \/ \E a \in AttemptIds : SendHTLCError(l, a)
          PROVE  SnapAfter(l)
      <3>1. pc'[l] \in {"fetch", "aborted", "failpayment", "failattempt"}
        BY <2>5 DEF WaitResult, NoRoute, RouteError, FailPaymentFirst, SendHTLCError,
                    FailPayment, Goto, Inv, LifecycleTypeOK
      <3> QED
        BY <3>1 DEF SnapAfter
    <2>6. SnapAfter(l)
      BY <1>1, <2>2, <2>3, <2>4, <2>5, FinishOutcome DEF Plans
    <2> QED
      BY <2>1, <2>6, SnapAfterAll
  <1> QED
    BY <1>2, <1>3, <1>4, <1>5, <1>6, <1>7, <1>8 DEF Inv

\* While one lifecycle runs no other one holds an attempt.
LEMMA OthersHoldNothing ==
    ASSUME Inv, NEW l \in Lifecycles, Active(l)
    PROVE  \A k \in Lifecycles \ {l} : /\ cur[k] = {}
                                       /\ pc[k] \notin {"send", "resume"}
                                       /\ ~Active(k)
  <1>1. \A k \in Lifecycles \ {l} : ~Active(k)
    BY DEF Inv, OneSender
  <1>2. \A k \in Lifecycles : pc[k] \in {"send", "resume", "failpayment", "failattempt"} => Active(k)
    BY DEF Active, Running, Final
  <1> QED
    BY <1>1, <1>2 DEF Inv, CurInv

\* Resuming keeps it: the collectors started are those of tracked attempts in flight.
LEMMA ResumeStep ==
    ASSUME Inv, NEW l \in Lifecycles, Resume(l), LifecycleTypeOK'
    PROVE  Inv'
  <1>1. /\ UNCHANGED <<payment, switchVars, routerUp, snap, cur, tracker, session>>
        /\ pc[l] = "resume" /\ pc'[l] \in {"aborted", "fetch"}
        /\ \A k \in Lifecycles \ {l} : pc'[k] = pc[k] /\ collector'[k] = collector[k]
        /\ \A a \in AttemptIds :
               collector'[l][a] # "none" => /\ collector'[l][a] = "lookup"
                                            /\ Open(a)
    <2>1. ~Collecting(l) /\ pc[l] = "resume"
      BY DEF Resume, Inv, OneSender
    <2> QED
      BY <2>1 DEF Resume, Goto, Inv, LifecycleTypeOK, Collecting, Open
  <1>2. /\ Active(l)
        /\ \A k \in Lifecycles : cur[k] = {}
    BY <1>1, OthersHoldNothing DEF Active, Running, Final, Inv, CurInv
  <1>3. Persists /\ SamePayment
    BY <1>1 DEF Persists, Dead, Sending, switchVars, SamePayment
  <1>4. OneSender'
    <2>1. \A k \in Lifecycles : pc'[k] = "idle" <=> pc[k] = "idle"
      BY <1>1
    <2>2. \A k \in Lifecycles \ {l} : Collecting(k)' <=> Collecting(k)
      BY <1>1 DEF Collecting
    <2>3. \A k \in Lifecycles : Active(k)' => Active(k)
      BY <1>1, <1>2, <2>2 DEF Active, Running
    <2>4. \A k \in Lifecycles : pc'[k] \in {"idle", "resume", "killed"} => ~Collecting(k)'
      BY <1>1, <2>2 DEF Inv, OneSender
    <2> QED
      BY <1>1, <2>1, <2>3, <2>4, OneSenderKept DEF Inv, switchVars
  <1>5. SwitchInv' /\ ResultInv' /\ RecordInv'
    BY <1>1, <1>3, SwitchKept, ResultKept, OpenKept, RecordKept DEF Inv, switchVars
  <1>6. CurInv'
    BY <1>1, <1>2 DEF CurInv
  <1>7. CollInv'
    <2>1. \A a \in AttemptIds : Open(a)' <=> Open(a)
      BY <1>3, OpenKept
    <2>2. \A a \in AttemptIds : Open(a) => a \in tracker[l] /\ htlc[a] # "unused"
      BY <1>1, AttemptSets DEF Open, Inv, ResumeInv, RecordInv, Agrees
    <2>3. \A a \in AttemptIds :
             /\ collector'[l][a] # "none" => htlc'[a] # "unused"
             /\ collector'[l][a] \in Busy => Open(a)'
             /\ collector'[l][a] = "lookup" => a \in tracker'[l]
             /\ collector'[l][a] = "get" => htlc'[a] \in {"allocated", "gone"}
             /\ collector'[l][a] \in {"failpayment", "failattempt"} => Dead(a)'
             /\ collector'[l][a] = "settle" => answer'[a] = "settle"
      BY <1>1, <2>1, <2>2 DEF switchVars, Busy
    <2>4. \A k \in Lifecycles \ {l} : collector'[k] = collector[k] /\ tracker'[k] = tracker[k]
      BY <1>1
    <2> QED
      BY <1>1, <1>3, <2>1, <2>3, <2>4 DEF Inv, CollInv, Persists, switchVars
  <1>8. ResumeInv'
    BY <1>1 DEF Inv, ResumeInv
  <1>9. SnapInv'
    <2>1. SnapAfter(l)
      BY <1>1 DEF SnapAfter
    <2> QED
      BY <1>1, <1>3, <2>1, SnapAfterSame, SnapAfterAll DEF Inv
  <1> QED
    BY <1>4, <1>5, <1>6, <1>7, <1>8, <1>9 DEF Inv

\* Handing the attempt to the switch keeps it.
LEMMA SendHTLCStep ==
    ASSUME Inv, NEW l \in Lifecycles, NEW a \in AttemptIds, SendHTLC(l, a), LifecycleTypeOK'
    PROVE  Inv'
  <1>1. /\ UNCHANGED <<payment, answer, result, routerUp, snap, tracker, session>>
        /\ pc[l] = "send" /\ pc'[l] = "fetch" /\ cur'[l] = {}
        /\ a \in cur[l]
        /\ \A k \in Lifecycles \ {l} :
               pc'[k] = pc[k] /\ collector'[k] = collector[k] /\ cur'[k] = cur[k]
        /\ collector'[l][a] = "lookup" /\ htlc'[a] = "half" /\ packet'[a] = "add"
        /\ \A b \in AttemptIds \ {a} : /\ collector'[l][b] = collector[l][b]
                                       /\ htlc'[b] = htlc[b] /\ packet'[b] = packet[b]
    BY DEF SendHTLC, Goto, Inv, LifecycleTypeOK
  <1>2. /\ htlc[a] = "allocated" /\ Open(a) /\ a \in tracker[l] /\ Sending(a)
    BY <1>1 DEF Inv, CurInv, Sending
  <1>3. Active(l) /\ \A k \in Lifecycles \ {l} : cur[k] = {}
    BY <1>1, OthersHoldNothing DEF Active, Running, Final
  <1>4. Persists /\ SamePayment
    <2>1. \A b \in AttemptIds : Sending(b)' => Sending(b)
      BY <1>1 DEF Sending
    <2>2. SamePayment
      BY <1>1 DEF SamePayment
    <2> QED
      BY <1>1, <1>2, <2>1, <2>2 DEF Persists, Dead
  <1>5. OneSender'
    <2>1. \A k \in Lifecycles : pc'[k] = "idle" <=> pc[k] = "idle"
      BY <1>1
    <2>2. \A k \in Lifecycles \ {l} : Collecting(k)' <=> Collecting(k)
      BY <1>1 DEF Collecting
    <2>3. \A k \in Lifecycles : Active(k)' => Active(k)
      BY <1>1, <1>3, <2>2 DEF Active, Running
    <2>4. \A k \in Lifecycles : pc'[k] \in {"idle", "resume", "killed"} => ~Collecting(k)'
      BY <1>1, <2>2 DEF Inv, OneSender
    <2> QED
      BY <1>1, <1>2, <2>1, <2>3, <2>4, OneSenderKept DEF Inv
  <1>6. SwitchInv'
    BY <1>1, <1>2 DEF Inv, SwitchInv
  <1>7. ResultInv'
    <2>1. \A b \in AttemptIds : Open(b)' <=> Open(b)
      BY <1>4, OpenKept
    <2> QED
      BY <1>1, <1>4, <2>1 DEF Inv, ResultInv, Persists
  <1>8. RecordInv'
    BY <1>4, RecordKept DEF Inv
  <1>9. CurInv'
    BY <1>1, <1>3 DEF CurInv
  <1>10. CollInv'
    <2>1. \A b \in AttemptIds : Open(b)' <=> Open(b)
      BY <1>4, OpenKept
    <2>2. ASSUME NEW k \in Lifecycles, NEW b \in AttemptIds, k # l \/ b # a
          PROVE  collector'[k][b] = collector[k][b]
      <3>1. CASE k # l
        BY <1>1, <3>1
      <3>2. CASE k = l
        BY <1>1, <2>2, <3>2
      <3> QED
        BY <3>1, <3>2
    <2>3. \A k \in Lifecycles : collector[k][a] = "none"
      BY <1>1 DEF Inv, CurInv
    <2> QED
      BY <1>1, <1>2, <1>4, <2>1, <2>2, <2>3 DEF Inv, CollInv, Persists, Busy
  <1>11. ResumeInv'
    BY <1>1 DEF Inv, ResumeInv
  <1>12. SnapInv'
    <2>1. SnapAfter(l)
      BY <1>1 DEF SnapAfter
    <2> QED
      BY <1>1, <1>4, <2>1, SnapAfterSame, SnapAfterAll DEF Inv
  <1> QED
    BY <1>5, <1>6, <1>7, <1>8, <1>9, <1>10, <1>11, <1>12 DEF Inv

\* An attempt in flight can be failed or settled.
LEMMA OpenUpdatable ==
    ASSUME NEW a, Open(a)
    PROVE  CanUpdateHtlc(payment, a)
  BY DEF Open, CanUpdateHtlc, Updatable, PaymentStatus, InFlightHTLCs

\* What a written outcome makes of the payment.
LEMMA OutcomeWritten ==
    ASSUME LifecycleTypeOK, NEW a \in AttemptIds, Open(a),
           payment' = WithFailure(payment, a) \/ payment' = WithSettle(payment, a)
    PROVE  /\ payment' # NoPayment
           /\ HTLCs(payment') = HTLCs(payment)
           /\ FailedHTLCs(payment') = IF payment' = WithFailure(payment, a)
                                        THEN FailedHTLCs(payment) \cup {a}
                                        ELSE FailedHTLCs(payment)
           /\ SettledHTLCs(payment') \subseteq SettledHTLCs(payment) \cup {a}
           /\ payment' = WithFailure(payment, a) =>
                  SettledHTLCs(payment') = SettledHTLCs(payment)
           /\ \A b \in AttemptIds : Open(b)' <=> Open(b) /\ b # a
  <1>1. payment \in Payment /\ a \in HTLCs(payment)
    BY AttemptSets DEF Open, LifecycleTypeOK
  <1>2. payment' # NoPayment
    BY <1>1, WithOutcomeType, PaymentLifecycleAssumption
  <1>3. /\ HTLCs(payment') = HTLCs(payment)
        /\ FailedHTLCs(payment') \cup SettledHTLCs(payment') =
               FailedHTLCs(payment) \cup SettledHTLCs(payment) \cup {a}
        /\ SettledHTLCs(payment') \subseteq SettledHTLCs(payment) \cup {a}
        /\ payment' = WithFailure(payment, a) =>
                  SettledHTLCs(payment') = SettledHTLCs(payment)
        /\ FailedHTLCs(payment') = IF payment' = WithFailure(payment, a)
                                        THEN FailedHTLCs(payment) \cup {a}
                                        ELSE FailedHTLCs(payment)
    BY <1>1, HTLCsAfterOutcome, WithOutcomeSets
  <1>4. InFlightHTLCs(payment') = InFlightHTLCs(payment) \ {a}
    BY <1>3, AttemptSets
  <1> QED
    BY <1>2, <1>3, <1>4 DEF Open

\* Failing an attempt that the switch refused keeps it.
LEMMA FailAttemptStep ==
    ASSUME Inv, NEW l \in Lifecycles, NEW a \in AttemptIds, FailLastAttempt(l, a), LifecycleTypeOK'
    PROVE  Inv'
  <1>1. a \in cur[l] /\ Open(a) /\ CanUpdateHtlc(payment, a)
    BY OpenUpdatable DEF FailLastAttempt, Inv, CurInv
  <1>2. /\ UNCHANGED <<switchVars, routerUp, snap, session, collector>>
        /\ payment' = WithFailure(payment, a)
        /\ pc[l] = "failattempt" /\ pc'[l] = "fetch" /\ cur'[l] = {}
        /\ \A k \in Lifecycles \ {l} :
               pc'[k] = pc[k] /\ cur'[k] = cur[k] /\ tracker'[k] = tracker[k]
        /\ tracker'[l] = tracker[l] \ {a}
    BY <1>1 DEF FailLastAttempt, Goto, Inv, LifecycleTypeOK, Open, collVars
  <1>3. Active(l) /\ \A k \in Lifecycles \ {l} : cur[k] = {} /\ pc[k] # "resume"
    BY <1>2, OthersHoldNothing DEF Active, Running, Final
  <1>4. Dead(a) /\ htlc[a] = "allocated" /\ \A k \in Lifecycles : collector[k][a] = "none"
    BY <1>1, <1>2, <1>3 DEF Dead, Sending, Inv, CurInv, SwitchInv
  <1>5. Persists
    BY <1>2 DEF Persists, Dead, Sending, switchVars
  <1>6. OneSender'
    <2>1. \A k \in Lifecycles : pc'[k] = "idle" <=> pc[k] = "idle"
      BY <1>2
    <2>2. \A k \in Lifecycles : Collecting(k)' <=> Collecting(k)
      BY <1>2 DEF Collecting
    <2>3. \A k \in Lifecycles : Active(k)' => Active(k)
      BY <1>2, <1>3, <2>2 DEF Active, Running
    <2>4. \A k \in Lifecycles : pc'[k] \in {"idle", "resume", "killed"} => ~Collecting(k)'
      BY <1>2, <2>2 DEF Inv, OneSender
    <2> QED
      BY <1>1, <1>2, <2>1, <2>3, <2>4, OneSenderKept DEF Inv, switchVars, Open
  <1>7. \A b \in AttemptIds : Open(b)' <=> Open(b) /\ b # a
    BY <1>1, <1>2, OutcomeWritten DEF Inv
  <1>8. SwitchInv' /\ ResultInv'
    BY <1>2, <1>5, <1>7, SwitchKept, ResultKept DEF Inv, switchVars
  <1>9. RecordInv'
    <2>1. Agrees(payment)
      BY <1>1 DEF Inv, RecordInv, Open
    <2>2. AgreesAfter(payment')
      BY <1>1, <1>2, <1>4, <1>5, <2>1, OutcomeWritten DEF Inv, Agrees, AgreesAfter, Persists
    <2> QED
      BY <2>2 DEF RecordInv, Agrees, AgreesAfter
  <1>10. CurInv'
    BY <1>2, <1>3 DEF CurInv
  <1>11. CollInv'
    BY <1>2, <1>4, <1>5, <1>7 DEF Inv, CollInv, Persists, switchVars, Busy
  <1>12. ResumeInv'
    BY <1>2, <1>3 DEF ResumeInv
  <1>13. SnapInv'
    <2>1. SnapAfter(l)
      BY <1>2 DEF SnapAfter
    <2> QED
      BY <1>2, <1>5, <2>1, SnapAfterSame, SnapAfterAll DEF Inv
  <1> QED
    BY <1>6, <1>8, <1>9, <1>10, <1>11, <1>12, <1>13 DEF Inv

\* Registering an attempt keeps it, refused or not.
LEMMA RegisterStep ==
    ASSUME Inv, NEW l \in Lifecycles, NEW a \in AttemptIds, NEW amount \in 1 .. Value,
           RegisterNewAttempt(l, a, amount), LifecycleTypeOK'
    PROVE  Inv'
  <1>1. /\ UNCHANGED <<answer, result, packet, routerUp, snap, session, collector>>
        /\ pc[l] = "route" /\ session[l] = "routes"
        /\ htlc[a] = "unused" /\ htlc'[a] = "allocated"
        /\ \A b \in AttemptIds \ {a} : htlc'[b] = htlc[b]
        /\ \A k \in Lifecycles \ {l} :
               pc'[k] = pc[k] /\ cur'[k] = cur[k] /\ tracker'[k] = tracker[k]
        /\ tracker'[l] = tracker[l] \cup {a}
    BY DEF RegisterNewAttempt, NewAttempt, NextAttemptID, Goto, Inv, LifecycleTypeOK, collVars
  <1>2. /\ Active(l)
        /\ \A k \in Lifecycles : cur[k] = {}
        /\ \A k \in Lifecycles \ {l} : pc[k] = "idle"
    BY <1>1, OthersHoldNothing DEF Active, Running, Final, Inv, OneSender, CurInv
  <1>3. /\ packet[a] = "none" /\ answer[a] = "none"
        /\ ~Dead(a)
        /\ \A k \in Lifecycles : collector[k][a] = "none"
        /\ payment # NoPayment => a \notin HTLCs(payment)
    BY <1>1 DEF Inv, SwitchInv, Dead, CollInv, RecordInv, Agrees
  <1>4. \/ /\ pc'[l] = "send" /\ cur'[l] = {a}
           /\ payment # NoPayment /\ payment' # NoPayment
           /\ HTLCs(payment') = HTLCs(payment) \cup {a}
           /\ FailedHTLCs(payment') = FailedHTLCs(payment)
           /\ SettledHTLCs(payment') = SettledHTLCs(payment)
           /\ InFlightHTLCs(payment') = InFlightHTLCs(payment) \cup {a}
        \/ pc'[l] = "aborted" /\ cur'[l] = {} /\ payment' = payment
    <2>1. CASE payment # NoPayment /\ CanRegister(payment, amount, Mpp)
      <3>1. /\ payment \in Payment /\ a \in AttemptIds \ HTLCs(payment)
            /\ amount \in Nat \ {0} /\ Mpp \in Mpps \cup {NoMpp} /\ NoPayment \notin Payment
        BY <1>3, <2>1, PaymentLifecycleAssumption DEF Inv, LifecycleTypeOK
      <3>2. /\ payment' = WithAttempt(payment, a, amount, Mpp)
            /\ pc'[l] = "send" /\ cur'[l] = {a}
        BY <2>1 DEF RegisterNewAttempt, Goto, Inv, LifecycleTypeOK
      <3>3. payment' # NoPayment
        BY <3>1, <3>2, WithAttemptType
      <3> QED
        BY <2>1, <3>1, <3>2, <3>3, WithAttemptSets
    <2>2. CASE ~(payment # NoPayment /\ CanRegister(payment, amount, Mpp))
      BY <1>2, <2>2 DEF RegisterNewAttempt, Goto, Inv, LifecycleTypeOK
    <2> QED
      BY <2>1, <2>2
  <1>5. /\ \A b \in AttemptIds \ {a} : ~Sending(b)'
        /\ pc'[l] = "aborted" => ~Sending(a)'
    BY <1>1, <1>2, <1>4 DEF Sending
  <1>6. /\ \A b \in AttemptIds : Dead(b) => Dead(b)'
        /\ pc'[l] = "aborted" => Dead(a)'
    BY <1>1, <1>3, <1>5 DEF Dead
  <1>7. \A b \in AttemptIds : Open(b)' <=> Open(b) \/ (pc'[l] = "send" /\ b = a)
    BY <1>4 DEF Open
  <1>8. OneSender'
    <2>1. \A k \in Lifecycles : pc'[k] = "idle" <=> pc[k] = "idle"
      BY <1>1, <1>4
    <2>2. \A k \in Lifecycles : Collecting(k)' <=> Collecting(k)
      BY <1>1 DEF Collecting
    <2>3. \A k \in Lifecycles : Active(k)' => Active(k)
      BY <1>1, <1>2, <2>2 DEF Active, Running
    <2>4. \A k \in Lifecycles : pc'[k] \in {"idle", "resume", "killed"} => ~Collecting(k)'
      BY <1>1, <1>4, <2>2 DEF Inv, OneSender
    <2>5. Sends # {}
      BY <1>1 DEF Sends
    <2> QED
      BY <1>1, <1>4, <2>1, <2>3, <2>4, <2>5, OneSenderKept DEF Inv
  <1>9. SwitchInv'
    BY <1>1, <1>3 DEF Inv, SwitchInv
  <1>10. ResultInv'
    BY <1>1, <1>3, <1>6, <1>7 DEF Inv, ResultInv
  <1>11. CurInv'
    BY <1>1, <1>2, <1>3, <1>4, <1>7 DEF CurInv
  <1>12. CollInv'
    BY <1>1, <1>3, <1>6, <1>7 DEF Inv, CollInv
  <1>13. ResumeInv'
    BY <1>1, <1>2, <1>4 DEF ResumeInv
  <1>14. RecordInv'
    <2>1. ASSUME payment' # NoPayment PROVE AgreesAfter(payment')
      <3>1. Agrees(payment)
        BY <1>4, <2>1 DEF Inv, RecordInv
      <3> QED
        BY <1>1, <1>3, <1>4, <1>6, <3>1 DEF Agrees, AgreesAfter
    <2> QED
      BY <2>1 DEF RecordInv, Agrees, AgreesAfter
  <1>15. SnapInv'
    <2>1. \A k \in Lifecycles : pc'[k] \in {"send", "aborted", "idle"}
      BY <1>1, <1>2, <1>4
    <2> QED
      BY <2>1, SnapAfterAll DEF SnapAfter
  <1> QED
    BY <1>8, <1>9, <1>10, <1>11, <1>12, <1>13, <1>14, <1>15 DEF Inv

-----------------------------------------------------------------------------

\* Steps of a collector that do not write an outcome.
Collects(l, a) ==
    \/ LookupCircuit(l, a) \/ GetResult(l, a) \/ ReceiveResult(l, a)
    \/ QuitWaiting(l, a) \/ CollectorFailPayment(l, a) \/ Signal(l, a)

\* What CollInv says of one collector after the step.
CollAfter(l, a) ==
    /\ collector'[l][a] # "none" => htlc'[a] # "unused"
    /\ collector'[l][a] \in Busy => Open(a)'
    /\ collector'[l][a] = "lookup" => a \in tracker'[l]
    /\ collector'[l][a] = "get" => htlc'[a] \in {"allocated", "gone"}
    /\ collector'[l][a] \in {"failpayment", "failattempt"} => Dead(a)'
    /\ collector'[l][a] = "settle" => answer'[a] = "settle"

\* The collector's step changes its own entry only.
LEMMA CollectorFrame ==
    ASSUME LifecycleTypeOK, NEW l \in Lifecycles, NEW a \in AttemptIds, NEW at, CollectorGoto(l,
           a, at)
    PROVE  /\ collector'[l][a] = at
           /\ \A k \in Lifecycles, b \in AttemptIds :
                  k # l \/ b # a => collector'[k][b] = collector[k][b]
  BY DEF CollectorGoto, LifecycleTypeOK

\* A collector's step starts no lifecycle, and belongs to the one that acts.
LEMMA CollectorOneSender ==
    ASSUME Inv, NEW l \in Lifecycles, NEW a \in AttemptIds, collector[l][a] # "none",
           UNCHANGED <<switchVars, routerUp, pc, session>>,
           payment = NoPayment => payment' = NoPayment,
           \A k \in Lifecycles, b \in AttemptIds :
               k # l \/ b # a => collector'[k][b] = collector[k][b]
    PROVE  OneSender' /\ Active(l) /\ pc[l] \notin {"idle", "resume", "killed"}
  <1>1. Collecting(l)
    BY DEF Collecting
  <1>2. \A k \in Lifecycles : Collecting(k)' => Collecting(k)
    BY <1>1 DEF Collecting
  <1>3. \A k \in Lifecycles : Active(k)' => Active(k)
    BY <1>2 DEF Active, Running
  <1>4. \A k \in Lifecycles : pc'[k] \in {"idle", "resume", "killed"} => ~Collecting(k)'
    BY <1>2 DEF Inv, OneSender
  <1>5. OneSender'
    BY <1>3, <1>4, OneSenderKept DEF Inv, switchVars
  <1> QED
    BY <1>1, <1>5 DEF Active, Inv, OneSender

\* A collector that looks up, receives, gives up or signals keeps the invariant.
LEMMA CollectsStep ==
    ASSUME Inv, NEW l \in Lifecycles, NEW a \in AttemptIds, Collects(l, a), LifecycleTypeOK'
    PROVE  Inv'
  <1>1. /\ UNCHANGED <<switchVars, routerUp, lifeVars>>
        /\ collector[l][a] # "none"
        /\ \E at : CollectorGoto(l, a, at)
    BY DEF Collects, LookupCircuit, GetResult, ReceiveResult, QuitWaiting, HandleResult,
           CollectorFailPayment, Signal
  <1>2. SamePayment
    <2>1. ASSUME CollectorFailPayment(l, a), payment # NoPayment PROVE SamePayment
      <3>1. payment \in Payment /\ payment' = WithReason(payment, FailureReasonError)
            /\ FailureReasonError \in Reasons /\ NoPayment \notin Payment
        BY <2>1, PaymentLifecycleAssumption DEF CollectorFailPayment, Inv, LifecycleTypeOK
      <3> QED
        BY <2>1, <3>1, WithReasonType, WithReasonSets DEF SamePayment, Keeps
    <2>2. CollectorFailPayment(l, a) /\ payment = NoPayment => SamePayment
      BY DEF CollectorFailPayment, SamePayment
    <2> QED
      BY <2>1, <2>2 DEF Collects, LookupCircuit, GetResult, ReceiveResult, QuitWaiting, Signal,
                        SamePayment
  <1>3. \A k \in Lifecycles, b \in AttemptIds :
            k # l \/ b # a => collector'[k][b] = collector[k][b]
    BY <1>1, CollectorFrame DEF Inv
  <1>4. Persists
    BY <1>1 DEF Persists, Dead, Sending, switchVars, lifeVars
  <1>5. OneSender'
    BY <1>1, <1>2, <1>3, CollectorOneSender DEF lifeVars, SamePayment
  <1>6. SwitchInv' /\ ResultInv' /\ RecordInv'
    BY <1>1, <1>2, <1>4, SwitchKept, ResultKept, OpenKept, RecordKept DEF Inv, switchVars
  <1>7. \A b \in AttemptIds : Open(b)' <=> Open(b)
    BY <1>2, OpenKept
  <1>8. CurInv'
    <2>1. \A k \in Lifecycles : a \notin cur[k]
      BY <1>1 DEF Inv, CurInv
    <2>2. \A k \in Lifecycles : cur[k] \subseteq AttemptIds
      BY DEF Inv, LifecycleTypeOK
    <2> QED
      BY <1>1, <1>3, <1>7, <2>1, <2>2 DEF Inv, CurInv, switchVars, lifeVars
  <1>9. CollInv'
    <2>1. ASSUME LookupCircuit(l, a) PROVE CollAfter(l, a)
      <3>1. /\ collector[l][a] = "lookup"
            /\ collector'[l][a] = IF a \notin tracker[l] THEN "failattempt"
                                  ELSE IF CircuitExists(a) THEN "wait" ELSE "get"
        BY <2>1, CollectorFrame DEF LookupCircuit, Inv
      <3>2. /\ a \in tracker[l] /\ Open(a) /\ htlc[a] # "unused" /\ htlc[a] \in HtlcState
        BY <3>1 DEF Inv, CollInv, Busy, LifecycleTypeOK
      <3>3. CASE CircuitExists(a)
        BY <1>1, <1>7, <3>1, <3>2, <3>3 DEF CollAfter, switchVars
      <3>4. CASE ~CircuitExists(a)
        <4>1. htlc[a] \in {"allocated", "gone"}
          BY <3>2, <3>4 DEF CircuitExists, HtlcState
        <4> QED
          BY <1>1, <1>7, <3>1, <3>2, <3>4, <4>1 DEF CollAfter, switchVars
      <3> QED
        BY <3>3, <3>4
    <2>2. ASSUME collector[l][a] \in Busy, HandleResult(l, a) PROVE CollAfter(l, a)
      <3>1. /\ Open(a) /\ htlc[a] # "unused"
            /\ \/ result[a] = "settle" /\ collector'[l][a] = "settle"
               \/ result[a] = "fail" /\ collector'[l][a] \in {"failpayment", "failattempt"}
        BY <2>2, CollectorFrame DEF HandleResult, Inv, CollInv, Busy
      <3>2. result[a] = "fail" => Dead(a)'
        BY <1>4 DEF Inv, ResultInv, Persists
      <3>3. result[a] = "settle" => answer[a] = "settle"
        BY DEF Inv, ResultInv
      <3> QED
        BY <1>1, <1>7, <3>1, <3>2, <3>3 DEF CollAfter, switchVars
    <2>3. ASSUME GetResult(l, a), result[a] = "none" PROVE CollAfter(l, a)
      <3>1. collector[l][a] = "get" /\ collector'[l][a] = "failattempt"
        BY <2>3, CollectorFrame DEF GetResult, HandleResult, Inv
      <3>2. Open(a) /\ htlc[a] \in {"allocated", "gone"}
        BY <3>1 DEF Inv, CollInv, Busy
      <3>3. htlc[a] = "allocated"
        BY <2>3, <3>2 DEF Inv, ResultInv
      <3>4. ~Sending(a)
        BY <1>1 DEF Sending, Inv, CurInv
      <3>5. Dead(a)
        BY <3>3, <3>4 DEF Dead, Inv, SwitchInv
      <3> QED
        BY <1>1, <1>4, <1>7, <3>1, <3>2, <3>3, <3>5 DEF CollAfter, Persists, switchVars
    <2>4. ASSUME QuitWaiting(l, a) \/ Signal(l, a) PROVE CollAfter(l, a)
      <3>1. collector'[l][a] \in {"err", "none"}
        BY <2>4, CollectorFrame DEF QuitWaiting, Signal, Inv
      <3> QED
        BY <1>1, <3>1 DEF CollAfter, Busy, Inv, CollInv, switchVars
    <2>5. ASSUME CollectorFailPayment(l, a) PROVE CollAfter(l, a)
      <3>1. collector[l][a] = "failpayment" /\ collector'[l][a] \in {"err", "failattempt"}
        BY <2>5, CollectorFrame DEF CollectorFailPayment, Inv
      <3> QED
        BY <1>1, <1>4, <1>7, <3>1 DEF CollAfter, Busy, Inv, CollInv, Persists, switchVars
    <2>6. CollAfter(l, a)
      BY <2>1, <2>2, <2>3, <2>4, <2>5 DEF Collects, GetResult, ReceiveResult, Busy
    <2>7. ASSUME NEW k \in Lifecycles, NEW b \in AttemptIds, k # l \/ b # a PROVE CollAfter(k, b)
      <3>1. collector'[k][b] = collector[k][b]
        BY <1>3, <2>7
      <3> QED
        BY <1>1, <1>4, <1>7, <3>1 DEF CollAfter, Inv, CollInv, Persists, switchVars, lifeVars
    <2> QED
      BY <2>6, <2>7 DEF CollInv, CollAfter
  <1>10. ResumeInv'
    BY <1>1, <1>2 DEF Inv, ResumeInv, SamePayment, Keeps, lifeVars
  <1>11. SnapInv'
    BY <1>1, <1>4, SnapAfterSame, SnapAfterAll DEF Inv, lifeVars
  <1> QED
    BY <1>5, <1>6, <1>8, <1>9, <1>10, <1>11 DEF Inv

\* So does one that writes the outcome of its attempt.
LEMMA OutcomeStep ==
    ASSUME Inv, NEW l \in Lifecycles, NEW a \in AttemptIds, LifecycleTypeOK',
           CollectorFailAttempt(l, a) \/ CollectorSettleAttempt(l, a)
    PROVE  Inv'
  <1>1. /\ UNCHANGED <<switchVars, routerUp, pc, snap, cur, session>>
        /\ Open(a)
        /\ \/ collector[l][a] = "failattempt" /\ payment' = WithFailure(payment, a) /\ Dead(a)
           \/ collector[l][a] = "settle" /\ payment' = WithSettle(payment, a) /\ answer[a] = "settle"
        /\ collector'[l][a] = "nil"
        /\ \A k \in Lifecycles, b \in AttemptIds :
               k # l \/ b # a => collector'[k][b] = collector[k][b]
    <2>1. Open(a) /\ CanUpdateHtlc(payment, a) /\ payment # NoPayment
      BY OpenUpdatable DEF CollectorFailAttempt, CollectorSettleAttempt, Inv, CollInv, Busy, Open
    <2>2. CollectorGoto(l, a, "nil")
      BY <2>1 DEF CollectorFailAttempt, CollectorSettleAttempt, Record
    <2>3. /\ collector'[l][a] = "nil"
          /\ \A k \in Lifecycles, b \in AttemptIds :
                 k # l \/ b # a => collector'[k][b] = collector[k][b]
      BY <2>2, CollectorFrame DEF Inv
    <2> QED
      BY <2>1, <2>3 DEF CollectorFailAttempt, CollectorSettleAttempt, Record, Inv, CollInv, lifeVars
  <1>2. \A k \in Lifecycles, b \in AttemptIds : b # a => (b \in tracker'[k] <=> b \in tracker[k])
    <2>1. tracker' = tracker \/ tracker' = [tracker EXCEPT ![l] = @ \ {a}]
      BY DEF CollectorFailAttempt, CollectorSettleAttempt, lifeVars
    <2>2. \A k \in Lifecycles : tracker'[k] \in {tracker[k], tracker[k] \ {a}}
      BY <2>1 DEF Inv, LifecycleTypeOK
    <2> QED
      BY <2>2
  <1>3. Persists
    BY <1>1 DEF Persists, Dead, Sending, switchVars
  <1>4. OneSender' /\ Active(l) /\ pc[l] \notin {"idle", "resume", "killed"}
    BY <1>1, CollectorOneSender DEF Open
  <1>5. /\ \A b \in AttemptIds : Open(b)' <=> Open(b) /\ b # a
        /\ payment # NoPayment /\ payment' # NoPayment
    BY <1>1, OutcomeWritten DEF Inv, Open
  <1>6. SwitchInv' /\ ResultInv'
    BY <1>1, <1>3, <1>5, SwitchKept, ResultKept DEF Inv, switchVars
  <1>7. RecordInv'
    <2>1. Agrees(payment)
      BY <1>5 DEF Inv, RecordInv
    <2>2. /\ HTLCs(payment') = HTLCs(payment)
          /\ FailedHTLCs(payment) \subseteq FailedHTLCs(payment')
          /\ \A b \in FailedHTLCs(payment') : b \in FailedHTLCs(payment) \/ (b = a /\ Dead(a))
          /\ \A b \in SettledHTLCs(payment') :
                 b \in SettledHTLCs(payment) \/ (b = a /\ answer[a] = "settle")
      <3>1. CASE payment' = WithFailure(payment, a) /\ Dead(a)
        BY <1>1, <3>1, OutcomeWritten DEF Inv
      <3>2. CASE payment' = WithSettle(payment, a) /\ answer[a] = "settle"
        <4>1. /\ HTLCs(payment') = HTLCs(payment)
              /\ SettledHTLCs(payment') = SettledHTLCs(payment) \cup {a}
              /\ FailedHTLCs(payment') = FailedHTLCs(payment)
          <5>1. payment \in Payment /\ a \in HTLCs(payment)
            BY <1>1, AttemptSets DEF Open, Inv, LifecycleTypeOK
          <5> QED
            BY <3>2, <5>1, HTLCsAfterOutcome, WithOutcomeSets
        <4> QED
          BY <3>2, <4>1
      <3> QED
        BY <1>1, <3>1, <3>2
    <2>4. AgreesAfter(payment')
      BY <1>3, <2>1, <2>2 DEF Agrees, AgreesAfter, Persists
    <2> QED
      BY <2>4 DEF RecordInv, Agrees, AgreesAfter
  <1>8. CurInv'
    <2>1. \A k \in Lifecycles : cur[k] \subseteq AttemptIds /\ a \notin cur[k]
      BY <1>1 DEF Inv, CurInv, LifecycleTypeOK
    <2> QED
      BY <1>1, <1>2, <1>5, <2>1 DEF Inv, CurInv, switchVars
  <1>9. CollInv'
    <2>1. CollAfter(l, a)
      BY <1>1 DEF CollAfter, Busy, Inv, CollInv, switchVars
    <2>2. ASSUME NEW k \in Lifecycles, NEW b \in AttemptIds, b # a PROVE CollAfter(k, b)
      BY <1>1, <1>2, <1>3, <1>5, <2>2 DEF CollAfter, Inv, CollInv, Persists, switchVars
    <2>3. ASSUME NEW k \in Lifecycles \ {l} PROVE CollAfter(k, a)
      <3>1. collector[k][a] = "none"
        BY <1>4, OthersHoldNothing DEF Active, Collecting
      <3> QED
        BY <1>1, <3>1 DEF CollAfter, Busy
    <2> QED
      BY <2>1, <2>2, <2>3 DEF CollInv, CollAfter
  <1>10. ResumeInv'
    BY <1>1, <1>4, OthersHoldNothing DEF ResumeInv
  <1>11. SnapInv'
    BY <1>1, <1>3, SnapAfterSame, SnapAfterAll DEF Inv
  <1> QED
    BY <1>4, <1>6, <1>7, <1>8, <1>9, <1>10, <1>11 DEF Inv

-----------------------------------------------------------------------------

\* A step of the link, the network or the switch moves one HTLC.
LEMMA EnvironmentStep ==
    ASSUME Inv, NEW a \in AttemptIds, Link(a) \/ Network(a) \/ Switch(a), LifecycleTypeOK'
    PROVE  Inv'
  <1>1. /\ UNCHANGED switchOnly
        /\ \A b \in AttemptIds \ {a} :
               /\ htlc'[b] = htlc[b] /\ packet'[b] = packet[b]
               /\ answer'[b] = answer[b] /\ result'[b] = result[b]
    BY DEF Link, LinkAdd, LinkFail, Network, NetworkAnswer, Switch, CloseCircuit, StoreResult,
           AckSettleFail, TeardownCircuit, Inv, LifecycleTypeOK
  <1>2. /\ htlc[a] \notin {"unused", "allocated", "gone"} /\ htlc'[a] \notin {"unused", "allocated"}
        /\ Dead(a) => htlc'[a] # "out" /\ packet'[a] # "add" /\ answer'[a] # "settle"
        /\ answer[a] = "settle" => answer'[a] = "settle"
    <2>1. htlc[a] \in HtlcState
      BY DEF Inv, LifecycleTypeOK
    <2> QED
      BY <2>1 DEF Link, LinkAdd, LinkFail, Network, NetworkAnswer, Switch, CloseCircuit, StoreResult,
           AckSettleFail, TeardownCircuit, Inv, LifecycleTypeOK, SwitchInv, Dead, HtlcState
  <1>3. Persists /\ SamePayment
    BY <1>1, <1>2 DEF Persists, Dead, Sending, SamePayment, switchOnly, lifeVars
  <1>4. OneSender'
    <2>1. \A k \in Lifecycles : Collecting(k)' <=> Collecting(k)
      BY <1>1 DEF Collecting, switchOnly, collVars
    <2>2. \A k \in Lifecycles : Active(k)' => Active(k)
      BY <1>1, <2>1 DEF Active, Running, switchOnly, lifeVars
    <2>3. \A k \in Lifecycles : pc'[k] \in {"idle", "resume", "killed"} => ~Collecting(k)'
      BY <1>1, <2>1 DEF Inv, OneSender, switchOnly, lifeVars
    <2> QED
      BY <1>1, <1>3, <2>2, <2>3, OneSenderKept DEF Inv, Persists, switchOnly, lifeVars
  <1>5. SwitchInv'
    <2>1. /\ htlc'[a] \in {"unused", "allocated", "out", "gone"} => packet'[a] = "none"
          /\ htlc'[a] = "answered" => packet'[a] \in {"none", "closed", "stored"}
          /\ htlc'[a] = "acked" => packet'[a] \in {"none", "stored"}
          /\ htlc'[a] \in {"unused", "allocated", "half", "out"} => answer'[a] = "none"
          /\ htlc'[a] \in {"answered", "acked"} => answer'[a] # "none"
      <3>1. htlc[a] \in HtlcState
        BY DEF Inv, LifecycleTypeOK
      <3> QED
        BY <3>1 DEF Link, LinkAdd, LinkFail, Network, NetworkAnswer, Switch, CloseCircuit,
             StoreResult, AckSettleFail, TeardownCircuit, Inv, LifecycleTypeOK, SwitchInv, HtlcState
    <2> QED
      BY <1>1, <2>1 DEF Inv, SwitchInv
  <1>6. \A b \in AttemptIds : Open(b)' <=> Open(b)
    BY <1>3, OpenKept
  <1>7. ResultInv'
    <2>1. ASSUME StoreResult(a)
          PROVE  /\ result'[a] = "settle" => answer'[a] = "settle"
                 /\ result'[a] = "fail" => Dead(a)'
                 /\ result'[a] # "none"
      <3>1. htlc[a] \in {"half", "answered"} /\ packet[a] = "closed" /\ UNCHANGED <<htlc, answer>>
            /\ result'[a] = IF htlc[a] = "half" THEN "fail" ELSE answer[a]
        <4>1. htlc[a] \in HtlcState
          BY DEF Inv, LifecycleTypeOK
        <4> QED
          <5>1. packet[a] = "closed" /\ UNCHANGED <<htlc, answer>>
            BY <2>1 DEF StoreResult
          <5>2. htlc[a] \in {"half", "answered"}
            BY <4>1, <5>1 DEF Inv, SwitchInv, HtlcState
          <5>3. result'[a] = IF htlc[a] = "half" THEN "fail" ELSE answer[a]
            BY <2>1 DEF StoreResult, Inv, LifecycleTypeOK
          <5> QED
            BY <5>1, <5>2, <5>3
      <3>2. htlc[a] = "half" => answer[a] = "none"
        BY DEF Inv, SwitchInv
      <3>3. htlc[a] = "answered" => answer[a] \in {"settle", "fail"}
        BY DEF Inv, SwitchInv, LifecycleTypeOK
      <3>4. ~Sending(a)
        BY <3>1 DEF Sending, Inv, CurInv
      <3>5. answer[a] # "settle" => Dead(a)
        BY <3>1, <3>4 DEF Dead
      <3> QED
        BY <1>3, <3>1, <3>2, <3>3, <3>5 DEF Persists
    <2>2. ASSUME ~StoreResult(a)
          PROVE  /\ result'[a] = result[a]
                 /\ htlc'[a] \in {"acked", "gone"} \/ packet'[a] = "stored" =>
                        htlc[a] \in {"acked", "gone"} \/ packet[a] = "stored"
      BY <2>2 DEF Link, LinkAdd, LinkFail, Network, NetworkAnswer, Switch, CloseCircuit,
             AckSettleFail, TeardownCircuit, Inv, LifecycleTypeOK
    <2>3. /\ result'[a] = "settle" => answer'[a] = "settle"
          /\ result'[a] = "fail" => Dead(a)'
          /\ Open(a)' /\ (htlc'[a] \in {"acked", "gone"} \/ packet'[a] = "stored")
                 => result'[a] # "none"
      BY <1>3, <1>6, <2>1, <2>2 DEF Inv, ResultInv, Persists
    <2> QED
      BY <1>1, <1>3, <1>6, <2>3 DEF Inv, ResultInv, Persists
  <1>8. RecordInv'
    BY <1>3, RecordKept DEF Inv
  <1>9. CurInv'
    <2>1. \A k \in Lifecycles : cur[k] \subseteq AttemptIds
      BY DEF Inv, LifecycleTypeOK
    <2> QED
      BY <1>1, <1>2, <1>6, <2>1 DEF Inv, CurInv, switchOnly, lifeVars, collVars
  <1>10. CollInv'
    BY <1>1, <1>2, <1>3, <1>6 DEF Inv, CollInv, Persists, switchOnly, lifeVars, collVars
  <1>11. ResumeInv'
    BY <1>1 DEF Inv, ResumeInv, switchOnly, lifeVars
  <1>12. SnapInv'
    BY <1>1, <1>3, SnapAfterSame, SnapAfterAll DEF Inv, switchOnly, lifeVars
  <1> QED
    BY <1>4, <1>5, <1>7, <1>8, <1>9, <1>10, <1>11, <1>12 DEF Inv

\* With one call of SendPayment allowed, none came before it.
LEMMA FirstSend ==
    ASSUME MaxInits <= 1, OneSender, NEW l \in Lifecycles, SendPayment(l)
    PROVE  Sends = {}
  <1>1. Cardinality(Sends) \in Nat /\ Cardinality(Sends) < MaxInits /\ MaxInits \in Nat
    BY FS_CardinalityType, PaymentLifecycleAssumption DEF OneSender, SendPayment
  <1>2. Cardinality(Sends) = 0
    BY <1>1
  <1> QED
    BY <1>2, FS_EmptySet DEF OneSender

\* The only SendPayment finds nothing used and nothing recorded.
LEMMA SendPaymentStep ==
    ASSUME MaxInits <= 1, Inv, NEW l \in Lifecycles, SendPayment(l), LifecycleTypeOK'
    PROVE  Inv'
  <1>1. /\ \A k \in Lifecycles : pc[k] = "idle" /\ session[k] = "routes"
        /\ \A a \in AttemptIds : htlc[a] = "unused"
        /\ payment = NoPayment
    BY FirstSend DEF Inv, OneSender
  <1>2. /\ UNCHANGED <<switchVars, snap, cur, tracker, session, collector>>
        /\ routerUp' = TRUE
        /\ pc'[l] = "resume" /\ \A k \in Lifecycles \ {l} : pc'[k] = "idle"
        /\ payment' = NewPayment(Value)
    BY <1>1 DEF SendPayment, Goto, Inv, LifecycleTypeOK, collVars
  <1>3. payment' # NoPayment /\ HTLCs(payment') = {}
    BY <1>2, NewPaymentType, NewPaymentSets, PaymentLifecycleAssumption
  <1>4. /\ \A k \in Lifecycles : cur[k] = {}
        /\ \A k \in Lifecycles : ~Collecting(k)
    BY <1>1 DEF Inv, CurInv, OneSender
  <1>5. Persists
    BY <1>1, <1>2, <1>4 DEF Persists, Dead, switchVars
  <1>6. /\ FailedHTLCs(payment') = {} /\ SettledHTLCs(payment') = {}
        /\ InFlightHTLCs(payment') = {}
    BY <1>3, AttemptSets
  <1>7. OneSender'
    <2>1. Sends' = {l}
      BY <1>1, <1>2 DEF Sends
    <2>2. IsFiniteSet(Sends)'
      BY <2>1, FS_Singleton
    <2>3. \A k \in Lifecycles : ~Collecting(k)'
      BY <1>2, <1>4 DEF Collecting
    <2>4. \A k \in Lifecycles : Active(k)' => k = l
      BY <1>2, <2>3 DEF Active, Running
    <2> QED
      BY <1>2, <2>1, <2>2, <2>3, <2>4 DEF OneSender
  <1>8. SwitchInv' /\ ResultInv'
    BY <1>2, <1>5, <1>6, SwitchKept, ResultKept DEF Inv, switchVars, Open
  <1>9. CurInv'
    BY <1>2, <1>4 DEF CurInv
  <1>10. CollInv'
    <2>1. \A k \in Lifecycles, a \in AttemptIds : collector'[k][a] = "none"
      BY <1>2, <1>4 DEF Collecting
    <2> QED
      BY <2>1 DEF CollInv, Busy
  <1>11. ResumeInv'
    BY <1>3 DEF ResumeInv
  <1>12. RecordInv'
    BY <1>1, <1>2, <1>3, <1>6 DEF RecordInv, Agrees, switchVars
  <1>13. SnapInv'
    <2>1. \A k \in Lifecycles : pc'[k] \in {"idle", "resume"}
      BY <1>2
    <2> QED
      BY <2>1 DEF SnapInv
  <1> QED
    BY <1>7, <1>8, <1>9, <1>10, <1>11, <1>12, <1>13 DEF Inv

\* A payment is deleted only when nothing of it is in flight.
LEMMA DeletePaymentStep ==
    ASSUME Inv, CallDeletePayment, LifecycleTypeOK'
    PROVE  Inv'
  <1>1. /\ UNCHANGED <<switchVars, routerUp, lifeVars, collVars>>
        /\ payment' = NoPayment
        /\ \A a \in AttemptIds : ~Open(a) /\ ~Open(a)'
    BY NothingInFlight DEF CallDeletePayment, Open
  <1>2. Persists
    BY <1>1 DEF Persists, Dead, Sending, switchVars, lifeVars
  <1>3. OneSender'
    <2>1. \A k \in Lifecycles : Collecting(k)' <=> Collecting(k)
      BY <1>1 DEF Collecting, collVars
    <2>2. \A k \in Lifecycles : Active(k)' => Active(k)
      BY <1>1, <2>1 DEF Active, Running, lifeVars
    <2>3. \A k \in Lifecycles : pc'[k] \in {"idle", "resume", "killed"} => ~Collecting(k)'
      BY <1>1, <2>1 DEF Inv, OneSender, lifeVars
    <2> QED
      BY <1>1, <2>2, <2>3, OneSenderKept DEF Inv, switchVars, lifeVars
  <1>4. SwitchInv' /\ ResultInv'
    BY <1>1, <1>2, SwitchKept, ResultKept DEF Inv, switchVars
  <1>5. CurInv'
    <2>1. \A k \in Lifecycles : cur[k] \subseteq AttemptIds
      BY DEF Inv, LifecycleTypeOK
    <2> QED
      BY <1>1, <2>1 DEF Inv, CurInv, lifeVars
  <1>6. CollInv'
    BY <1>1, <1>2 DEF Inv, CollInv, Persists, Busy, switchVars, lifeVars, collVars
  <1>7. ResumeInv' /\ RecordInv'
    BY <1>1 DEF ResumeInv, RecordInv
  <1>8. SnapInv'
    BY <1>1, <1>2, SnapAfterSame, SnapAfterAll DEF Inv, lifeVars
  <1> QED
    BY <1>3, <1>4, <1>5, <1>6, <1>7, <1>8 DEF Inv

\* A crash loses packets, collectors and lifecycles, and no record.
LEMMA CrashStep ==
    ASSUME Inv, Crash, LifecycleTypeOK'
    PROVE  Inv'
  <1>1. /\ UNCHANGED <<payment, htlc, answer, result, session>>
        /\ \A a \in AttemptIds : packet'[a] = "none"
        /\ \A l \in Lifecycles : /\ cur'[l] = {}
                                 /\ \A a \in AttemptIds : collector'[l][a] = "none"
                                 /\ \/ pc[l] \in Final \cup {"idle"} /\ pc'[l] = pc[l]
                                    \/ pc[l] \notin Final \cup {"idle"} /\ pc'[l] = "killed"
    BY DEF Crash
  <1>2. Persists /\ SamePayment
    BY <1>1 DEF Persists, Dead, Sending, SamePayment
  <1>3. OneSender'
    <2>1. \A l \in Lifecycles : ~Active(l)' /\ ~Collecting(l)'
      BY <1>1 DEF Active, Running, Collecting
    <2>2. \A l \in Lifecycles : pc'[l] = "idle" <=> pc[l] = "idle"
      BY <1>1
    <2> QED
      BY <1>1, <2>1, <2>2, OneSenderKept DEF Inv
  <1>4. SwitchInv'
    BY <1>1 DEF Inv, SwitchInv
  <1>5. ResultInv'
    <2>1. \A b \in AttemptIds : Open(b)' <=> Open(b)
      BY <1>2, OpenKept
    <2> QED
      BY <1>1, <1>2, <2>1 DEF Inv, ResultInv, Persists
  <1>6. CurInv' /\ CollInv'
    BY <1>1 DEF CurInv, CollInv, Busy
  <1>7. ResumeInv'
    BY <1>1 DEF ResumeInv, Final
  <1>8. RecordInv'
    BY <1>2, RecordKept DEF Inv
  <1>9. SnapInv'
    <2>1. ASSUME NEW l \in Lifecycles PROVE SnapAfter(l)
      <3>1. Paid' = Paid
        BY <1>1 DEF Paid
      <3> QED
        BY <1>1, <1>2, <3>1 DEF SnapAfter, Final, Inv, SnapInv, Persists
    <2> QED
      BY <2>1, SnapAfterAll
  <1> QED
    BY <1>3, <1>4, <1>5, <1>6, <1>7, <1>8, <1>9 DEF Inv

\* The result store is cleaned of nothing that a resumed lifecycle asks for.
LEMMA StartRouterStep ==
    ASSUME Inv, StartRouter, LifecycleTypeOK'
    PROVE  Inv'
  <1>1. UNCHANGED <<payment, htlc, answer, packet, snap, cur, collector>> /\ routerUp' = TRUE
    BY DEF StartRouter, collVars
  <1>2. /\ \A l \in Lifecycles : ~Active(l) /\ ~Collecting(l)
        /\ \A l \in Lifecycles : pc[l] \notin {"send", "resume", "failpayment", "failattempt"}
    BY DEF StartRouter, Inv, OneSender, Active, Running, Final
  <1>3. /\ \A l \in Lifecycles : cur[l] = {}
        /\ \A l \in Lifecycles, a \in AttemptIds : collector[l][a] = "none"
    BY <1>2 DEF Collecting, Inv, CurInv
  <1>4. Persists /\ SamePayment
    BY <1>1, <1>3 DEF Persists, Dead, Sending, SamePayment
  <1>5. \A a \in AttemptIds : /\ result'[a] \in {"none", result[a]}
                              /\ Open(a) => result'[a] = result[a]
    <2>1. ASSUME NEW a \in AttemptIds, Open(a)
          PROVE  ~(payment = NoPayment \/ Terminated(payment)) /\ a \in HTLCs(payment)
      BY <2>1, AttemptSets DEF Open, Terminated, Updatable, PaymentStatus
    <2> QED
      BY <2>1 DEF StartRouter
  <1>6. \/ UNCHANGED <<pc, tracker, session>>
        \/ /\ payment # NoPayment
           /\ \E l \in Lifecycles :
                 /\ pc[l] = "idle" /\ pc'[l] = "resume"
                 /\ tracker'[l] = HTLCs(payment) /\ session'[l] = "empty"
                 /\ \A k \in Lifecycles \ {l} : pc'[k] = pc[k] /\ session'[k] = session[k]
    <2>1. CASE payment = NoPayment \/ Terminated(payment)
      BY <2>1 DEF StartRouter
    <2>2. CASE ~(payment = NoPayment \/ Terminated(payment))
      <3>1. PICK l \in NextLifecycle :
               /\ Goto(l, "resume")
               /\ tracker' = [tracker EXCEPT ![l] = HTLCs(payment)]
               /\ session' = [session EXCEPT ![l] = "empty"]
        BY <2>2 DEF StartRouter
      <3>2. l \in Lifecycles /\ pc[l] = "idle"
        BY DEF NextLifecycle
      <3> QED
        BY <2>2, <3>1, <3>2 DEF Goto, Inv, LifecycleTypeOK
    <2> QED
      BY <2>1, <2>2
  <1>7. OneSender'
    <2>1. \A k \in Lifecycles : ~Collecting(k)'
      BY <1>1, <1>2 DEF Collecting
    <2>2. CASE UNCHANGED <<pc, tracker, session>>
      <3>1. \A k \in Lifecycles : ~Active(k)'
        BY <1>2, <2>1, <2>2 DEF Active, Running
      <3> QED
        BY <1>1, <2>1, <2>2, <3>1, OneSenderKept DEF Inv
    <2>3. ASSUME payment # NoPayment, NEW l \in Lifecycles,
                 pc[l] = "idle", pc'[l] = "resume", session'[l] = "empty",
                 \A k \in Lifecycles \ {l} : pc'[k] = pc[k] /\ session'[k] = session[k]
          PROVE  OneSender'
      <3>1. Sends' = Sends
        BY <2>3 DEF Sends
      <3>2. Sends # {} /\ IsFiniteSet(Sends)'
        BY <2>3, <3>1 DEF Inv, OneSender
      <3>3. \A k \in Lifecycles : Active(k)' => k = l
        BY <1>2, <2>1, <2>3 DEF Active, Running
      <3> QED
        BY <1>1, <2>1, <2>3, <3>1, <3>2, <3>3 DEF OneSender
    <2> QED
      BY <1>6, <2>2, <2>3
  <1>8. SwitchInv'
    BY <1>1, SwitchKept DEF Inv
  <1>9. ResultInv'
    <2>1. \A b \in AttemptIds : Open(b)' <=> Open(b)
      BY <1>4, OpenKept
    <2> QED
      BY <1>1, <1>4, <1>5, <2>1 DEF Inv, ResultInv, Persists
  <1>10. CurInv' /\ CollInv'
    BY <1>1, <1>3 DEF CurInv, CollInv, Busy
  <1>11. ResumeInv'
    <2>1. \A k \in Lifecycles : pc'[k] = "resume" => tracker'[k] = HTLCs(payment)
      BY <1>2, <1>6
    <2> QED
      BY <1>1, <2>1 DEF ResumeInv
  <1>12. RecordInv'
    BY <1>4, RecordKept DEF Inv
  <1>13. SnapInv'
    <2>1. ASSUME NEW k \in Lifecycles PROVE SnapAfter(k)
      <3>1. pc'[k] = pc[k] \/ pc'[k] = "resume"
        BY <1>6
      <3>2. CASE pc'[k] = "resume"
        BY <3>2 DEF SnapAfter
      <3>3. CASE pc'[k] = pc[k]
        BY <1>1, <1>4, <3>3, SnapAfterSame DEF Inv
      <3> QED
        BY <3>1, <3>2, <3>3
    <2> QED
      BY <2>1, SnapAfterAll
  <1> QED
    BY <1>7, <1>8, <1>9, <1>10, <1>11, <1>12, <1>13 DEF Inv

\* Nothing changes.
LEMMA StutterStep ==
    ASSUME Inv, UNCHANGED lifecycleVars
    PROVE  Inv'
  BY DEF Inv, LifecycleTypeOK, OneSender, SwitchInv, ResultInv, CurInv, CollInv, ResumeInv,
     RecordInv,
         SnapInv, lifecycleVars, Sends, Active, Running, Collecting, Dead, Sending, Open, Agrees,
         Paid

\* The invariant holds at first.
LEMMA InvInit == LifecycleInit => Inv
  <1> SUFFICES ASSUME LifecycleInit PROVE Inv
    OBVIOUS
  <1>1. LifecycleTypeOK
    BY PaymentLifecycleAssumption DEF LifecycleInit, LifecycleTypeOK, HtlcState, PacketState, PC,
       CollectorPC
  <1>2. Sends = {}
    BY DEF LifecycleInit, Sends
  <1>3. OneSender
    BY <1>2, FS_EmptySet DEF LifecycleInit, OneSender, Active, Running, Collecting
  <1> QED
    BY <1>1, <1>3 DEF LifecycleInit, Inv, SwitchInv, ResultInv, CurInv, CollInv, ResumeInv,
       RecordInv,
                      SnapInv, Open, Busy

\* Every step keeps it when SendPayment is called once.
LEMMA InvStep ==
    ASSUME MaxInits <= 1, Inv, [LifecycleNext]_lifecycleVars
    PROVE  Inv'
  <1>1. LifecycleTypeOK'
    BY TypeStep DEF Inv
  <1>2. ASSUME NEW l \in Lifecycles, Lifecycle(l) PROVE Inv'
    BY <1>1, <1>2, PlansStep, ResumeStep, RegisterStep, SendHTLCStep, FailAttemptStep
    DEF Lifecycle, Plans
  <1>3. ASSUME NEW l \in Lifecycles, NEW a \in AttemptIds, Collector(l, a) PROVE Inv'
    BY <1>1, <1>3, CollectsStep, OutcomeStep DEF Collector, Collects
  <1> QED
    BY <1>1, <1>2, <1>3, SendPaymentStep, DeletePaymentStep, EnvironmentStep, CrashStep,
       StartRouterStep, StutterStep DEF LifecycleNext

\* It implies what is wanted.
LEMMA InvRecords == Inv => RecordsTrue /\ OutcomeTrue
  <1> SUFFICES ASSUME Inv PROVE RecordsTrue /\ OutcomeTrue
    OBVIOUS
  <1>1. \A a \in AttemptIds : Dead(a) => a \notin Live \cup Paid
    BY DEF Dead, Sending, Live, Paid
  <1>2. \A a \in AttemptIds : htlc[a] = "unused" => a \notin Live \cup Paid
    BY DEF Live, Paid, Inv, SwitchInv, CurInv
  <1>3. RecordsTrue
    BY <1>1, AttemptSets DEF RecordsTrue, Paid, Inv, RecordInv, Agrees
  <1>4. OutcomeTrue
    BY <1>1, <1>2 DEF OutcomeTrue, Live, Paid, Inv, SnapInv
  <1> QED
    BY <1>3, <1>4

\* The database agrees with the network at all times: what it calls failed can
\* never be claimed, what it calls settled was claimed.
THEOREM RecordsSafety ==
    ASSUME MaxInits <= 1
    PROVE  LifecycleSpec => []RecordsTrue
  <1>1. Inv /\ [LifecycleNext]_lifecycleVars => Inv'
    BY InvStep
  <1> QED
    BY <1>1, InvInit, InvRecords, PTL DEF LifecycleSpec

\* The caller of a lifecycle is told the truth.
THEOREM OutcomeSafety ==
    ASSUME MaxInits <= 1
    PROVE  LifecycleSpec => []OutcomeTrue
  <1>1. Inv /\ [LifecycleNext]_lifecycleVars => Inv'
    BY InvStep
  <1> QED
    BY <1>1, InvInit, InvRecords, PTL DEF LifecycleSpec

-----------------------------------------------------------------------------
(* Waiting.  The signals of the collectors of a lifecycle share a channel  *)
(* with room for one, and a collector that finds it full stays.            *)

\* A lifecycle in its loop.
Working == {"fetch", "check", "decide", "route", "send", "failpayment", "failattempt", "wait"}

\* A lifecycle in its loop has a collector, or holds in its hands, every attempt in flight;
\* what it has fetched as in flight has a collector still or has been signalled.
WaitInv ==
    \A l \in Lifecycles :
        /\ pc[l] \in Working => \A a \in AttemptIds :
               Open(a) => a \in cur[l] \/ collector[l][a] \in Busy
        /\ pc[l] \in {"check", "decide", "wait"} => \A a \in InFlightHTLCs(snap[l]) :
               collector[l][a] # "none" \/ resultCollected[l] # "empty"
        /\ pc[l] = "wait" => InFlightHTLCs(snap[l]) # {}

\* What WaitInv says of one lifecycle after the step.
WaitAfter(l) ==
    /\ pc'[l] \in Working => \A a \in AttemptIds :
           Open(a)' => a \in cur'[l] \/ collector'[l][a] \in Busy
    /\ pc'[l] \in {"check", "decide", "wait"} => \A a \in InFlightHTLCs(snap'[l]) :
           collector'[l][a] # "none" \/ resultCollected'[l] # "empty"
    /\ pc'[l] = "wait" => InFlightHTLCs(snap'[l]) # {}

\* WaitInv is WaitAfter of every lifecycle.
LEMMA WaitAfterAll ==
    ASSUME \A l \in Lifecycles : WaitAfter(l)
    PROVE  WaitInv'
  BY DEF WaitInv, WaitAfter

\* A lifecycle that did not move, with its collectors, keeps its part.
LEMMA WaitAfterSame ==
    ASSUME WaitInv, NEW l \in Lifecycles, \A a \in AttemptIds : Open(a)' => Open(a),
           pc'[l] = pc[l], snap'[l] = snap[l], cur'[l] = cur[l], collector'[l] = collector[l],
           resultCollected'[l] = resultCollected[l]
    PROVE  WaitAfter(l)
  BY DEF WaitInv, WaitAfter

\* A lifecycle that goes to wait has found an attempt in flight.
LEMMA SomethingToWaitFor ==
    ASSUME NEW p \in Payment, NeedWaitAttempts(p), FailedHTLCs(p) \cap SettledHTLCs(p) = {}
    PROVE  InFlightHTLCs(p) # {}
  <1> SUFFICES ASSUME InFlightHTLCs(p) = {} PROVE FALSE
    OBVIOUS
  <1>1. PaymentStatus(p) = "InFlight" /\ (RemainingAmt(p) # 0 => HasSettledHTLC(p) \/ PaymentFailed(p))
    BY DEF NeedWaitAttempts
  <1>2. SettledHTLCs(p) \ FailedHTLCs(p) = {} /\ p.reason = NoReason
    BY <1>1 DEF PaymentStatus
  <1>3. SettledHTLCs(p) = {} /\ HTLCs(p) \ FailedHTLCs(p) = {}
    BY <1>2, AttemptSets
  <1>4. SentAmt(p) = 0
    BY <1>3, NothingSent
  <1>5. p.value \in Nat \ {0}
    BY DEF Payment
  <1>6. RemainingAmt(p) # 0
    BY <1>4, <1>5 DEF RemainingAmt
  <1>7. ~HasSettledHTLC(p) /\ ~PaymentFailed(p)
    BY <1>2, <1>3 DEF HasSettledHTLC, PaymentFailed
  <1> QED
    BY <1>1, <1>6, <1>7

\* A step of the loop keeps WaitInv: what was fetched as in flight is being collected.
LEMMA PlansWait ==
    ASSUME Inv, WaitInv, NEW l \in Lifecycles, Plans(l)
    PROVE  WaitInv'
  <1>1. \A a \in AttemptIds : Open(a)' <=> Open(a)
    BY PlansEffect, OpenKept DEF Inv
  <1>2. /\ pc'[l] \in Working => pc[l] \in Working
        /\ \A k \in Lifecycles \ {l} : resultCollected'[k] = resultCollected[k]
    BY DEF Plans, Fetch, CheckContextDone, DecideNextStep, WaitResult, NoRoute, RouteError,
           FailPaymentFirst, Finish, SendHTLCError, FailPayment, Goto, Inv, LifecycleTypeOK,
           Working,
           collVars
  <1>3. ASSUME NEW k \in Lifecycles \ {l} PROVE WaitAfter(k)
    BY <1>1, <1>2, PlansEffect, WaitAfterSame DEF Inv
  <1>4. pc'[l] \in Working => \A a \in AttemptIds :
           Open(a)' => a \in cur'[l] \/ collector'[l][a] \in Busy
    BY <1>1, <1>2, PlansEffect DEF Inv, WaitInv
  <1>5. ASSUME Fetch(l) PROVE WaitAfter(l)
    <2>1. /\ pc[l] = "fetch"
          /\ \/ pc'[l] = "aborted"
             \/ pc'[l] = "check" /\ payment # NoPayment /\ snap'[l] = payment
      BY <1>5 DEF Fetch, Goto, Inv, LifecycleTypeOK
    <2>2. cur[l] = {}
      BY <2>1 DEF Inv, CurInv
    <2>3. payment # NoPayment => \A a \in InFlightHTLCs(payment) : collector[l][a] # "none"
      BY <2>1, <2>2, AttemptSets DEF WaitInv, Working, Open, Busy
    <2> QED
      BY <1>4, <2>1, <2>3, PlansEffect DEF WaitAfter, Inv
  <1>6. ASSUME CheckContextDone(l) PROVE WaitAfter(l)
    <2>1. /\ pc[l] = "check" /\ pc'[l] \in {"decide", "aborted"}
          /\ snap'[l] = snap[l] /\ resultCollected'[l] = resultCollected[l]
          /\ collector'[l] = collector[l]
      BY <1>6 DEF CheckContextDone, FailPayment, Goto, Inv, LifecycleTypeOK, collVars
    <2> QED
      BY <1>4, <2>1 DEF WaitAfter, WaitInv
  <1>7. ASSUME DecideNextStep(l) PROVE WaitAfter(l)
    <2>1. /\ pc[l] \in {"check", "decide"} /\ snap'[l] = snap[l]
          /\ resultCollected'[l] = resultCollected[l] /\ collector'[l] = collector[l]
          /\ pc'[l] \in {"aborted", "route", "wait", "finish"}
          /\ pc'[l] = "wait" => NeedWaitAttempts(snap[l])
      BY <1>7 DEF DecideNextStep, Goto, Inv, LifecycleTypeOK, collVars
    <2>2. snap[l] \in Payment /\ Agrees(snap[l])
      BY <2>1 DEF Inv, LifecycleTypeOK, SnapInv
    <2>3. FailedHTLCs(snap[l]) \cap SettledHTLCs(snap[l]) = {}
      BY <2>2, AttemptSets DEF Agrees, Dead
    <2>4. pc'[l] = "wait" => InFlightHTLCs(snap[l]) # {}
      BY <2>1, <2>2, <2>3, SomethingToWaitFor
    <2> QED
      BY <1>4, <2>1, <2>4 DEF WaitAfter, WaitInv
  <1>8. ASSUME WaitResult(l) \/ NoRoute(l) \/ RouteError(l) \/ FailPaymentFirst(l) \/ Finish(l)
                   \/ \E a \in AttemptIds : SendHTLCError(l, a)
        PROVE  WaitAfter(l)
    <2>1. pc'[l] \notin {"check", "decide", "wait"}
      BY <1>8 DEF WaitResult, NoRoute, RouteError, FailPaymentFirst, SendHTLCError, Finish,
                    FailPayment, Goto, Inv, LifecycleTypeOK
    <2> QED
      BY <1>4, <2>1 DEF WaitAfter
  <1> QED
    BY <1>3, <1>5, <1>6, <1>7, <1>8, WaitAfterAll DEF Plans

\* A collector leaves only after it signalled, or after its lifecycle stopped.
LEMMA CollectorWait ==
    ASSUME Inv, WaitInv, NEW l \in Lifecycles, NEW a \in AttemptIds, Collector(l, a)
    PROVE  WaitInv'
  <1>1. /\ UNCHANGED <<pc, snap, cur>>
        /\ \A b \in AttemptIds : Open(b)' => Open(b)
    <2>1. ASSUME CollectorFailAttempt(l, a) \/ CollectorSettleAttempt(l, a)
          PROVE  \A b \in AttemptIds : Open(b)' => Open(b)
      <3>1. Open(a) /\ CanUpdateHtlc(payment, a) /\ payment # NoPayment
        BY <2>1, OpenUpdatable DEF CollectorFailAttempt, CollectorSettleAttempt, Inv, CollInv,
                                   Busy, Open
      <3>2. payment' = WithFailure(payment, a) \/ payment' = WithSettle(payment, a)
        BY <2>1, <3>1 DEF CollectorFailAttempt, CollectorSettleAttempt, Record
      <3> QED
        BY <3>1, <3>2, OutcomeWritten DEF Inv
    <2>2. ASSUME CollectorFailPayment(l, a)
          PROVE  \A b \in AttemptIds : Open(b)' => Open(b)
      BY <2>2, WithReasonSets DEF CollectorFailPayment, Open, Inv, LifecycleTypeOK
    <2>3. ASSUME LookupCircuit(l, a) \/ GetResult(l, a) \/ ReceiveResult(l, a)
                     \/ QuitWaiting(l, a) \/ Signal(l, a)
          PROVE  payment' = payment
      BY <2>3 DEF LookupCircuit, GetResult, ReceiveResult, QuitWaiting, Signal
    <2>4. \A b \in AttemptIds : Open(b)' => Open(b)
      BY <2>1, <2>2, <2>3 DEF Collector, Open
    <2>5. UNCHANGED <<pc, snap, cur>>
      BY DEF Collector, LookupCircuit, GetResult, ReceiveResult, QuitWaiting, Signal,
             CollectorFailPayment, CollectorFailAttempt, CollectorSettleAttempt, lifeVars
    <2> QED
      BY <2>4, <2>5
  <1>2. PICK at : CollectorGoto(l, a, at)
    BY DEF Collector, LookupCircuit, GetResult, ReceiveResult, QuitWaiting, Signal, HandleResult,
           CollectorFailPayment, CollectorFailAttempt, CollectorSettleAttempt, Record
  <1>3. /\ collector'[l][a] = at
        /\ \A k \in Lifecycles, b \in AttemptIds :
               k # l \/ b # a => collector'[k][b] = collector[k][b]
    BY <1>2, CollectorFrame DEF Inv
  <1>4. /\ \A k \in Lifecycles \ {l} : resultCollected'[k] = resultCollected[k]
        /\ resultCollected[l] # "empty" => resultCollected'[l] # "empty"
    BY DEF Collector, LookupCircuit, GetResult, ReceiveResult, QuitWaiting, Signal,
           CollectorFailPayment, CollectorFailAttempt, CollectorSettleAttempt, Inv, LifecycleTypeOK
  <1>5. ASSUME collector[l][a] \in Busy, pc[l] \in Working, Open(a)'
        PROVE  collector'[l][a] \in Busy
    <2>1. Open(a) /\ payment # NoPayment /\ pc[l] \notin Final
      BY <1>1, <1>5 DEF Open, Working, Final
    <2>2. ~CollectorFailAttempt(l, a) /\ ~CollectorSettleAttempt(l, a)
      <3> SUFFICES ASSUME CollectorFailAttempt(l, a) \/ CollectorSettleAttempt(l, a) PROVE FALSE
        OBVIOUS
      <3>1. payment' = WithFailure(payment, a) \/ payment' = WithSettle(payment, a)
        BY <2>1, OpenUpdatable DEF CollectorFailAttempt, CollectorSettleAttempt, Record
      <3> QED
        BY <1>5, <2>1, <3>1, OutcomeWritten DEF Inv
    <2>3. ASSUME CollectorFailPayment(l, a) PROVE collector'[l][a] \in Busy
      BY <2>1, <2>3, CollectorFrame DEF CollectorFailPayment, Busy, Inv
    <2>4. ASSUME LookupCircuit(l, a) \/ GetResult(l, a) \/ ReceiveResult(l, a)
          PROVE  collector'[l][a] \in Busy
      BY <2>4, CollectorFrame DEF LookupCircuit, GetResult, ReceiveResult, HandleResult, Busy, Inv
    <2>5. ~QuitWaiting(l, a) /\ ~Signal(l, a)
      BY <1>5, <2>1 DEF QuitWaiting, Signal, Stopped, Busy
    <2> QED
      BY <2>2, <2>3, <2>4, <2>5 DEF Collector
  <1>6. ASSUME collector[l][a] # "none", pc[l] \in {"check", "decide", "wait"}
        PROVE  collector'[l][a] # "none" \/ resultCollected'[l] # "empty"
    <2>1. ASSUME Signal(l, a) PROVE resultCollected'[l] # "empty"
      BY <1>6, <2>1 DEF Signal, Stopped, Final, Inv, LifecycleTypeOK
    <2>2. ASSUME ~Signal(l, a) PROVE collector'[l][a] # "none"
      <3>1. \E new \in Busy \cup {"nil", "err"} : CollectorGoto(l, a, new)
        BY <2>2 DEF Collector, LookupCircuit, GetResult, ReceiveResult, QuitWaiting, HandleResult,
             CollectorFailPayment, CollectorFailAttempt, CollectorSettleAttempt, Record, Busy
      <3> QED
        BY <3>1, CollectorFrame DEF Inv, Busy
    <2> QED
      BY <2>1, <2>2
  <1>7. ASSUME NEW k \in Lifecycles PROVE WaitAfter(k)
    <2>1. \A b \in AttemptIds :
             /\ pc[k] \in Working /\ Open(b)' /\ collector[k][b] \in Busy => collector'[k][b] \in Busy
             /\ collector[k][b] # "none" /\ pc[k] \in {"check", "decide", "wait"} =>
                    collector'[k][b] # "none" \/ resultCollected'[k] # "empty"
      BY <1>3, <1>5, <1>6
    <2>2. InFlightHTLCs(snap[k]) \subseteq AttemptIds
      BY AttemptSets
    <2> QED
      BY <1>1, <1>4, <2>1, <2>2 DEF WaitInv, WaitAfter
  <1> QED
    BY <1>7, WaitAfterAll

\* Every step keeps WaitInv when SendPayment is called once.
LEMMA WaitStep ==
    ASSUME MaxInits <= 1, Inv, WaitInv, [LifecycleNext]_lifecycleVars
    PROVE  WaitInv'
  <1>1. ASSUME NEW l \in Lifecycles, Resume(l) PROVE WaitInv'
    <2>1. /\ UNCHANGED <<payment, snap, cur, resultCollected>> /\ pc[l] = "resume"
          /\ \A k \in Lifecycles \ {l} : pc'[k] = pc[k] /\ collector'[k] = collector[k]
          /\ \/ pc'[l] = "aborted"
             \/ /\ pc'[l] = "fetch"
                /\ \A a \in InFlightHTLCs(payment) \cap AttemptIds : collector'[l][a] = "lookup"
      BY <1>1 DEF Resume, Goto, Inv, LifecycleTypeOK
    <2>2. \A a : Open(a)' <=> Open(a)
      BY <2>1 DEF Open
    <2>3. WaitAfter(l)
      BY <2>1, <2>2 DEF WaitAfter, Working, Busy, Open
    <2> QED
      BY <2>1, <2>2, <2>3, WaitAfterSame, WaitAfterAll
  <1>2. ASSUME NEW l \in Lifecycles, NEW a \in AttemptIds, NEW amount \in 1 .. Value,
               RegisterNewAttempt(l, a, amount)
        PROVE  WaitInv'
    <2>1. /\ pc[l] = "route" /\ session[l] = "routes"
          /\ pc'[l] \in {"send", "aborted"} /\ UNCHANGED <<snap, collector, resultCollected>>
          /\ \A k \in Lifecycles \ {l} : pc'[k] = pc[k]
          /\ pc'[l] = "send" =>
                 /\ payment # NoPayment /\ payment' = WithAttempt(payment, a, amount, Mpp)
                 /\ cur'[l] = {a}
      BY <1>2 DEF RegisterNewAttempt, NewAttempt, Goto, Inv, LifecycleTypeOK, collVars
    <2>2. \A k \in Lifecycles \ {l} : pc[k] = "idle"
      BY <2>1 DEF Inv, OneSender, Active, Running, Final
    <2>3. \A k \in Lifecycles \ {l} : WaitAfter(k)
      BY <2>1, <2>2 DEF WaitAfter, Working
    <2>4. ASSUME pc'[l] = "send", NEW b \in AttemptIds, Open(b)'
          PROVE  b \in cur'[l] \/ collector'[l][b] \in Busy
      <3>1. payment \in Payment /\ amount \in Nat \ {0} /\ Mpp \in Mpps \cup {NoMpp}
        BY <2>1, <2>4, PaymentLifecycleAssumption DEF Inv, LifecycleTypeOK
      <3>2. htlc[a] = "unused" /\ a \notin HTLCs(payment)
        BY <1>2, <2>1, <2>4 DEF RegisterNewAttempt, NewAttempt, NextAttemptID, Inv, RecordInv,
           Agrees
      <3>3. InFlightHTLCs(payment') = InFlightHTLCs(payment) \cup {a}
        BY <2>1, <2>4, <3>1, <3>2, WithAttemptSets
      <3>4. cur[l] = {}
        BY <2>1 DEF Inv, CurInv
      <3> QED
        BY <2>1, <2>4, <3>3, <3>4 DEF Open, WaitInv, Working
    <2>5. WaitAfter(l)
      BY <2>1, <2>4 DEF WaitAfter, Working
    <2> QED
      BY <2>3, <2>5, WaitAfterAll
  <1>3. ASSUME NEW l \in Lifecycles, NEW a \in AttemptIds, SendHTLC(l, a) PROVE WaitInv'
    <2>1. /\ UNCHANGED <<payment, snap, resultCollected>>
          /\ pc[l] = "send" /\ pc'[l] = "fetch" /\ a \in cur[l] /\ cur'[l] = {}
          /\ \A k \in Lifecycles \ {l} :
                 pc'[k] = pc[k] /\ collector'[k] = collector[k] /\ cur'[k] = cur[k]
          /\ collector'[l][a] = "lookup"
          /\ \A b \in AttemptIds \ {a} : collector'[l][b] = collector[l][b]
      BY <1>3 DEF SendHTLC, Goto, Inv, LifecycleTypeOK
    <2>2. \A b : Open(b)' <=> Open(b)
      BY <2>1 DEF Open
    <2>3. cur[l] = {a}
      BY <2>1 DEF Inv, CurInv
    <2>4. WaitAfter(l)
      BY <2>1, <2>2, <2>3 DEF WaitAfter, WaitInv, Working, Busy
    <2> QED
      BY <2>1, <2>2, <2>4, WaitAfterSame, WaitAfterAll
  <1>4. ASSUME NEW l \in Lifecycles, NEW a \in AttemptIds, FailLastAttempt(l, a) PROVE WaitInv'
    <2>1. Open(a) /\ CanUpdateHtlc(payment, a)
      BY <1>4, OpenUpdatable DEF FailLastAttempt, Inv, CurInv
    <2>2. /\ UNCHANGED <<snap, collector, resultCollected>>
          /\ payment' = WithFailure(payment, a)
          /\ pc[l] = "failattempt" /\ pc'[l] = "fetch" /\ cur'[l] = {}
          /\ \A k \in Lifecycles \ {l} : pc'[k] = pc[k] /\ cur'[k] = cur[k]
      BY <1>4, <2>1 DEF FailLastAttempt, Goto, Inv, LifecycleTypeOK, Open, collVars
    <2>3. \A b \in AttemptIds : Open(b)' <=> Open(b) /\ b # a
      BY <2>1, <2>2, OutcomeWritten DEF Inv
    <2>4. cur[l] = {a}
      BY <1>4 DEF FailLastAttempt, Inv, CurInv
    <2>5. WaitAfter(l)
      BY <2>2, <2>3, <2>4 DEF WaitAfter, WaitInv, Working
    <2> QED
      BY <2>2, <2>3, <2>5, WaitAfterSame, WaitAfterAll
  <1>5. ASSUME NEW l \in Lifecycles, SendPayment(l) PROVE WaitInv'
    <2>1. \A k \in Lifecycles : pc'[k] \in {"idle", "resume"}
      BY <1>5, FirstSend DEF Inv, OneSender, SendPayment, Goto, LifecycleTypeOK
    <2> QED
      BY <2>1 DEF WaitInv, Working
  <1>6. ASSUME CallDeletePayment PROVE WaitInv'
    <2>1. payment' = NoPayment /\ UNCHANGED <<lifeVars, collVars>>
      BY <1>6 DEF CallDeletePayment
    <2> QED
      BY <2>1, WaitAfterSame, WaitAfterAll DEF Open, lifeVars, collVars
  <1>7. ASSUME NEW a \in AttemptIds, Link(a) \/ Network(a) \/ Switch(a) PROVE WaitInv'
    <2>1. UNCHANGED switchOnly
      BY <1>7 DEF Link, LinkAdd, LinkFail, Network, NetworkAnswer, Switch, CloseCircuit,
                  StoreResult, AckSettleFail, TeardownCircuit
    <2> QED
      BY <2>1, WaitAfterSame, WaitAfterAll DEF Open, switchOnly, lifeVars, collVars
  <1>8. ASSUME Crash PROVE WaitInv'
    BY <1>8 DEF Crash, WaitInv, Working, Final
  <1>9. ASSUME StartRouter PROVE WaitInv'
    <2>1. \A l \in Lifecycles : pc[l] \notin Working
      BY <1>9 DEF StartRouter, Inv, OneSender, Active, Running, Working, Final
    <2>2. \A l \in Lifecycles : pc'[l] = pc[l] \/ pc'[l] = "resume"
      <3>1. pc' = pc \/ \E l \in Lifecycles : Goto(l, "resume")
        BY <1>9 DEF StartRouter, NextLifecycle
      <3> QED
        BY <3>1 DEF Goto, Inv, LifecycleTypeOK
    <2> QED
      BY <2>1, <2>2 DEF WaitInv, Working
  <1>10. ASSUME UNCHANGED lifecycleVars PROVE WaitInv'
    BY <1>10 DEF lifecycleVars, WaitInv, Open
  <1>11. ASSUME NEW l \in Lifecycles, Lifecycle(l) PROVE WaitInv'
    BY <1>1, <1>2, <1>3, <1>4, <1>11, PlansWait DEF Lifecycle, Plans
  <1> QED
    BY <1>5, <1>6, <1>7, <1>8, <1>9, <1>10, <1>11, CollectorWait DEF LifecycleNext

\* A lifecycle that waits for a result has been signalled or will be: some collector
\* of its has not delivered yet.
THEOREM WaitSafety ==
    ASSUME MaxInits <= 1
    PROVE  LifecycleSpec => []WaitHasCollector
  <1>1. LifecycleInit => Inv /\ WaitInv
    BY InvInit DEF LifecycleInit, WaitInv, Working
  <1>2. Inv /\ WaitInv /\ [LifecycleNext]_lifecycleVars => Inv' /\ WaitInv'
    BY InvStep, WaitStep
  <1>3. WaitInv => WaitHasCollector
    BY AttemptSets DEF WaitInv, WaitHasCollector
  <1> QED
    BY <1>1, <1>2, <1>3, PTL DEF LifecycleSpec

-----------------------------------------------------------------------------
(* What the invariant says of the HTLCs that count.                        *)

\* What may still be claimed is in flight for the database, what was claimed is
\* settled or in flight, and nothing is both.
Placed ==
    /\ Live \cap Paid = {}
    /\ \A a \in Live \cup Paid : htlc[a] # "unused"
    /\ payment # NoPayment => /\ Live \cup Paid \subseteq Sent(payment)
                              /\ Live \subseteq InFlightHTLCs(payment)
                              /\ SettledHTLCs(payment) \subseteq Paid

\* The invariant of the lifecycle implies it.
LEMMA InvPlaced == Inv => Placed
  <1> SUFFICES ASSUME Inv PROVE Placed
    OBVIOUS
  <1>1. \A a \in Live : answer[a] = "none" /\ htlc[a] # "unused"
    <2>1. \A a \in Live : htlc[a] \in {"allocated", "half", "out"}
      <3>1. \A a \in AttemptIds : packet[a] = "add" => htlc[a] = "half"
        BY DEF Inv, LifecycleTypeOK, HtlcState, SwitchInv
      <3>2. \A l \in Lifecycles, a \in AttemptIds :
                a \in cur[l] => htlc[a] = "allocated"
        BY DEF Inv, CurInv
      <3> QED
        BY <3>1, <3>2 DEF Live
    <2> QED
      BY <2>1 DEF Live, Inv, SwitchInv
  <1>2. \A a \in Paid : htlc[a] # "unused"
    BY DEF Paid, Inv, SwitchInv
  <1>3. Live \cap Paid = {}
    BY <1>1 DEF Paid
  <1>4. \A a \in Live \cup Paid : ~Dead(a) /\ a \in AttemptIds
    BY DEF Dead, Sending, Live, Paid
  <1>5. ASSUME payment # NoPayment
        PROVE  /\ Live \cup Paid \subseteq Sent(payment)
               /\ SettledHTLCs(payment) \subseteq Paid
               /\ Live \subseteq InFlightHTLCs(payment)
    <2>1. Agrees(payment)
      BY <1>5 DEF Inv, RecordInv
    <2>2. Live \cup Paid \subseteq Sent(payment)
      BY <1>1, <1>2, <1>4, <2>1 DEF Agrees, Sent
    <2>3. SettledHTLCs(payment) \subseteq Paid
      BY <2>1, AttemptSets DEF Agrees, Paid
    <2> QED
      BY <1>3, <2>2, <2>3, AttemptSets DEF Sent
  <1> QED
    BY <1>1, <1>2, <1>3, <1>5 DEF Placed

-----------------------------------------------------------------------------
(* The kinds of steps, by what they do to the payment and to the HTLCs     *)
(* that count.                                                             *)

\* The amount of an attempt is drawn once.
Kept == \A a \in AttemptIds : htlc[a] # "unused" => amt'[a] = amt[a]

\* Nothing changes.
Same == payment' = payment /\ Live' = Live /\ Paid' = Paid

\* HTLCs can no longer be claimed.
Returns == payment' = payment /\ Live' \subseteq Live /\ Paid' = Paid

\* One is claimed.
Claims ==
    /\ payment' = payment
    /\ \E a \in Live : Live' = Live \ {a} /\ Paid' = Paid \cup {a}

\* The record is updated.
Writes ==
    /\ payment # NoPayment
    /\ \/ \E reason \in Reasons : payment' = WithReason(payment, reason)
       \/ Removable(PaymentStatus(payment)) /\ payment' = WithoutFailedHTLCs(payment)
       \/ \E a \in HTLCs(payment) :
              /\ CanUpdateHtlc(payment, a)
              /\ payment' \in {WithSettle(payment, a), WithFailure(payment, a)}
    /\ Live' = Live /\ Paid' = Paid

\* An attempt is added.
Offers ==
    /\ payment # NoPayment
    /\ \E a \in AttemptIds, amount \in 1 .. Value :
          /\ htlc[a] = "unused"
          /\ CanRegister(payment, amount, Mpp)
          /\ payment' = WithAttempt(payment, a, amount, Mpp)
          /\ amt'[a] = amount
          /\ Live' = Live \cup {a}
    /\ Paid' = Paid

\* The payment is created, the first one of the hash.
Begins ==
    /\ payment = NoPayment /\ payment' = NewPayment(Value)
    /\ Live \cup Paid = {} /\ Live' \cup Paid' = {}

\* It is deleted.
Deletes ==
    /\ payment # NoPayment /\ Removable(PaymentStatus(payment))
    /\ payment' = NoPayment
    /\ Live' = Live /\ Paid' = Paid

Kinds == Same \/ Returns \/ Claims \/ Writes \/ Offers \/ Begins \/ Deletes

\* The step hands no attempt to the switch and takes none from it.
SameHTLCs ==
    /\ \A k \in Lifecycles, a \in AttemptIds :
           pc'[k] = "send" /\ a \in cur'[k] <=> pc[k] = "send" /\ a \in cur[k]
    /\ \A a \in AttemptIds : /\ packet'[a] = "add" <=> packet[a] = "add"
                             /\ htlc'[a] = "out" <=> htlc[a] = "out"
                             /\ answer'[a] = "settle" <=> answer[a] = "settle"

\* Then the same HTLCs count.
LEMMA SameLive ==
    ASSUME SameHTLCs
    PROVE  Live' = Live /\ Paid' = Paid
  BY DEF SameHTLCs, Live, Paid

\* A step of a lifecycle that has no attempt at hand.
LEMMA PlansKinds ==
    ASSUME LifecycleTypeOK, NEW l \in Lifecycles, Plans(l) \/ Resume(l)
    PROVE  Kinds /\ Kept
  <1>0. {FailureReasonTimeout, FailureReasonNoRoute, FailureReasonError} \subseteq Reasons
    BY PaymentLifecycleAssumption
  <1>1. ASSUME Fetch(l) \/ DecideNextStep(l) \/ WaitResult(l) \/ RouteError(l) \/ Resume(l)
        PROVE  Kinds /\ Kept
    <2>1. /\ UNCHANGED <<payment, htlc, packet, answer, cur, amt>>
          /\ pc[l] # "send" /\ pc'[l] # "send"
          /\ \A k \in Lifecycles \ {l} : pc'[k] = pc[k]
      BY <1>1 DEF Fetch, DecideNextStep, WaitResult, RouteError, Resume, Goto, LifecycleTypeOK,
                  switchVars, collVars
    <2>2. SameHTLCs
      BY <2>1 DEF SameHTLCs
    <2> QED
      BY <2>1, <2>2, SameLive DEF Kinds, Same, Kept
  <1>2. ASSUME CheckContextDone(l) \/ NoRoute(l) \/ FailPaymentFirst(l)
        PROVE  Kinds /\ Kept
    <2>1. /\ UNCHANGED <<htlc, packet, answer, cur, amt>>
          /\ pc[l] # "send" /\ pc'[l] # "send"
          /\ \A k \in Lifecycles \ {l} : pc'[k] = pc[k]
          /\ \/ payment' = payment
             \/ /\ payment # NoPayment
                /\ \E reason \in Reasons : payment' = WithReason(payment, reason)
      BY <1>0, <1>2 DEF CheckContextDone, NoRoute, FailPaymentFirst, FailPayment, Goto,
         LifecycleTypeOK,
                  switchVars, collVars
    <2>2. SameHTLCs
      BY <2>1 DEF SameHTLCs
    <2> QED
      BY <2>1, <2>2, SameLive DEF Kinds, Same, Writes, Kept
  <1>3. ASSUME Finish(l) PROVE Kinds /\ Kept
    <2>1. /\ UNCHANGED <<htlc, packet, answer, cur, amt>>
          /\ pc[l] # "send" /\ pc'[l] # "send"
          /\ \A k \in Lifecycles \ {l} : pc'[k] = pc[k]
          /\ \/ payment' = payment
             \/ /\ payment # NoPayment /\ Removable(PaymentStatus(payment))
                /\ payment' = WithoutFailedHTLCs(payment)
      BY <1>3 DEF Finish, Goto, LifecycleTypeOK, switchVars, collVars
    <2>2. SameHTLCs
      BY <2>1 DEF SameHTLCs
    <2> QED
      BY <2>1, <2>2, SameLive DEF Kinds, Same, Writes, Kept
  <1>4. ASSUME NEW a \in AttemptIds, SendHTLCError(l, a) PROVE Kinds /\ Kept
    <2>1. /\ UNCHANGED <<payment, htlc, packet, answer, cur, amt>>
          /\ pc'[l] # "send"
          /\ \A k \in Lifecycles \ {l} : pc'[k] = pc[k]
      BY <1>4 DEF SendHTLCError, Goto, LifecycleTypeOK, switchVars, collVars
    <2>2. Live' \subseteq Live /\ Paid' = Paid
      BY <2>1 DEF Live, Paid
    <2> QED
      BY <2>1, <2>2 DEF Kinds, Returns, Kept
  <1> QED
    BY <1>1, <1>2, <1>3, <1>4 DEF Plans

\* A step of a lifecycle with an attempt at hand.
LEMMA AttemptKinds ==
    ASSUME Inv, NEW l \in Lifecycles, NEW a \in AttemptIds,
           \/ \E amount \in 1 .. Value : RegisterNewAttempt(l, a, amount)
           \/ SendHTLC(l, a) \/ FailLastAttempt(l, a)
    PROVE  Kinds /\ Kept
  <1>1. ASSUME NEW amount \in 1 .. Value, RegisterNewAttempt(l, a, amount)
        PROVE  Kinds /\ Kept
    <2>1. /\ UNCHANGED <<packet, answer>>
          /\ htlc[a] = "unused" /\ pc[l] = "route"
          /\ htlc'[a] = "allocated" /\ \A b \in AttemptIds \ {a} : htlc'[b] = htlc[b]
          /\ amt'[a] = amount /\ \A b \in AttemptIds \ {a} : amt'[b] = amt[b]
          /\ \A k \in Lifecycles \ {l} : pc'[k] = pc[k]
      BY <1>1 DEF RegisterNewAttempt, NewAttempt, NextAttemptID, Goto, Inv, LifecycleTypeOK
    <2>2. Kept
      BY <2>1 DEF Kept
    <2>3. CASE payment # NoPayment /\ CanRegister(payment, amount, Mpp)
      <3>1. /\ payment' = WithAttempt(payment, a, amount, Mpp)
            /\ cur'[l] = {a} /\ pc'[l] = "send"
            /\ \A k \in Lifecycles \ {l} : cur'[k] = cur[k]
        BY <1>1, <2>3 DEF RegisterNewAttempt, Goto, Inv, LifecycleTypeOK
      <3>2. Live' = Live \cup {a} /\ Paid' = Paid
        BY <2>1, <3>1 DEF Live, Paid
      <3> QED
        BY <2>1, <2>2, <2>3, <3>1, <3>2 DEF Kinds, Offers
    <2>4. CASE ~(payment # NoPayment /\ CanRegister(payment, amount, Mpp))
      <3>1. UNCHANGED <<payment, cur>> /\ pc'[l] = "aborted"
        BY <1>1, <2>4 DEF RegisterNewAttempt, Goto, Inv, LifecycleTypeOK
      <3>2. SameHTLCs
        BY <2>1, <3>1 DEF SameHTLCs
      <3> QED
        BY <2>2, <3>1, <3>2, SameLive DEF Kinds, Same
    <2> QED
      BY <2>3, <2>4
  <1>2. ASSUME SendHTLC(l, a) PROVE Kinds /\ Kept
    <2>1. /\ UNCHANGED <<payment, answer, amt>>
          /\ pc[l] = "send" /\ a \in cur[l] /\ pc'[l] = "fetch"
          /\ \A k \in Lifecycles \ {l} : pc'[k] = pc[k] /\ cur'[k] = cur[k]
          /\ htlc'[a] = "half" /\ \A b \in AttemptIds \ {a} : htlc'[b] = htlc[b]
          /\ packet'[a] = "add" /\ \A b \in AttemptIds \ {a} : packet'[b] = packet[b]
      BY <1>2 DEF SendHTLC, Goto, Inv, LifecycleTypeOK
    <2>2. cur[l] = {a}
      BY <2>1 DEF Inv, CurInv
    <2>3. Live' = Live /\ Paid' = Paid
      BY <2>1, <2>2 DEF Live, Paid
    <2> QED
      BY <2>1, <2>3 DEF Kinds, Same, Kept
  <1>3. ASSUME FailLastAttempt(l, a) PROVE Kinds /\ Kept
    <2>1. /\ UNCHANGED <<htlc, packet, answer, amt>>
          /\ pc[l] # "send" /\ pc'[l] # "send"
          /\ \A k \in Lifecycles \ {l} : pc'[k] = pc[k] /\ cur'[k] = cur[k]
          /\ \/ payment' = payment
             \/ /\ payment # NoPayment /\ CanUpdateHtlc(payment, a)
                /\ payment' = WithFailure(payment, a)
      BY <1>3 DEF FailLastAttempt, Goto, Inv, LifecycleTypeOK, switchVars, collVars
    <2>2. SameHTLCs
      BY <2>1 DEF SameHTLCs
    <2> QED
      BY <2>1, <2>2, SameLive DEF Kinds, Same, Writes, Kept, CanUpdateHtlc
  <1> QED
    BY <1>1, <1>2, <1>3

\* A step of a collector.
LEMMA CollectorKinds ==
    ASSUME NEW l \in Lifecycles, NEW a \in AttemptIds, Collector(l, a)
    PROVE  Kinds /\ Kept
  <1>0. FailureReasonError \in Reasons
    BY PaymentLifecycleAssumption
  <1>1. /\ UNCHANGED <<htlc, packet, answer, pc, cur, amt>>
        /\ \/ payment' = payment
           \/ payment # NoPayment /\ payment' = WithReason(payment, FailureReasonError)
           \/ /\ payment # NoPayment /\ CanUpdateHtlc(payment, a)
              /\ payment' \in {WithSettle(payment, a), WithFailure(payment, a)}
    BY DEF Collector, LookupCircuit, GetResult, ReceiveResult, QuitWaiting,
           CollectorFailPayment, CollectorFailAttempt, CollectorSettleAttempt, Signal, Record,
           switchVars, lifeVars
  <1>2. SameHTLCs
    BY <1>1 DEF SameHTLCs
  <1> QED
    BY <1>0, <1>1, <1>2, SameLive DEF Kinds, Same, Writes, Kept, CanUpdateHtlc

\* A step of the link, the network or the switch.
LEMMA SwitchKinds ==
    ASSUME Inv, NEW a \in AttemptIds, Link(a) \/ Network(a) \/ Switch(a)
    PROVE  Kinds /\ Kept
  <1>0. LifecycleTypeOK
    BY DEF Inv
  <1>1. UNCHANGED <<payment, pc, cur, amt>>
    BY DEF Link, LinkAdd, LinkFail, Network, NetworkAnswer, Switch, CloseCircuit, StoreResult,
           AckSettleFail, TeardownCircuit, switchOnly, lifeVars
  <1>2. Kept
    BY <1>1 DEF Kept
  <1>3. ASSUME LinkAdd(a) PROVE Kinds
    <2>1. /\ UNCHANGED answer
          /\ packet[a] = "add" /\ packet'[a] = "none" /\ htlc'[a] = "out"
          /\ \A b \in AttemptIds \ {a} : packet'[b] = packet[b] /\ htlc'[b] = htlc[b]
      BY <1>0, <1>3 DEF LinkAdd, LifecycleTypeOK
    <2>2. Live' = Live /\ Paid' = Paid
      BY <1>1, <2>1 DEF Live, Paid
    <2> QED
      BY <1>1, <2>2 DEF Kinds, Same
  <1>4. ASSUME LinkFail(a) PROVE Kinds
    <2>1. /\ UNCHANGED <<answer, htlc>>
          /\ \A b \in AttemptIds : packet'[b] = "add" => packet[b] = "add"
      BY <1>0, <1>4 DEF LinkFail, LifecycleTypeOK
    <2>2. Live' \subseteq Live /\ Paid' = Paid
      BY <1>1, <2>1 DEF Live, Paid
    <2> QED
      BY <1>1, <2>2 DEF Kinds, Returns
  <1>5. ASSUME Switch(a) PROVE Kinds
    <2>1. /\ UNCHANGED answer
          /\ \A b \in AttemptIds : /\ packet'[b] = "add" <=> packet[b] = "add"
                                   /\ htlc'[b] = "out" <=> htlc[b] = "out"
      BY <1>0, <1>5 DEF Switch, CloseCircuit, StoreResult, AckSettleFail, TeardownCircuit,
         LifecycleTypeOK
    <2>2. SameHTLCs
      BY <1>1, <2>1 DEF SameHTLCs
    <2> QED
      BY <1>1, <2>2, SameLive DEF Kinds, Same
  <1>6. ASSUME NEW msg \in {"settle", "fail"}, NetworkAnswer(a, msg) PROVE Kinds
    <2>1. /\ UNCHANGED packet
          /\ htlc[a] = "out" /\ htlc'[a] = "answered" /\ answer'[a] = msg
          /\ \A b \in AttemptIds \ {a} : htlc'[b] = htlc[b] /\ answer'[b] = answer[b]
      BY <1>0, <1>6 DEF NetworkAnswer, LifecycleTypeOK
    <2>2. packet[a] # "add" /\ answer[a] = "none" /\ \A k \in Lifecycles : a \notin cur[k]
      BY <2>1 DEF Inv, SwitchInv, CurInv
    <2>3. a \in Live /\ a \notin Paid
      BY <2>1, <2>2 DEF Live, Paid
    <2>4. Live' = Live \ {a}
      BY <1>1, <2>1, <2>2 DEF Live
    <2>5. CASE msg = "settle"
      <3>1. Paid' = Paid \cup {a}
        BY <2>1, <2>5 DEF Paid
      <3> QED
        BY <1>1, <2>3, <2>4, <3>1 DEF Kinds, Claims
    <2>6. CASE msg = "fail"
      <3>1. Paid' = Paid
        BY <2>1, <2>2, <2>6 DEF Paid
      <3> QED
        BY <1>1, <2>4, <3>1 DEF Kinds, Returns
    <2> QED
      BY <2>5, <2>6
  <1> QED
    BY <1>2, <1>3, <1>4, <1>5, <1>6 DEF Link, Network

\* Every step is of one of these kinds, when SendPayment is called once.
LEMMA StepKinds ==
    ASSUME MaxInits <= 1, Inv, [LifecycleNext]_lifecycleVars
    PROVE  Kinds /\ Kept
  <1>0. LifecycleTypeOK
    BY DEF Inv
  <1>1. ASSUME NEW l \in Lifecycles, SendPayment(l) PROVE Kinds /\ Kept
    <2>1. /\ payment = NoPayment /\ \A a \in AttemptIds : htlc[a] = "unused"
          /\ \A k \in Lifecycles : pc[k] = "idle"
      BY <1>1, FirstSend DEF Inv, OneSender
    <2>2. /\ payment' = NewPayment(Value) /\ UNCHANGED <<htlc, packet, answer, cur, amt>>
          /\ \A k \in Lifecycles : pc'[k] # "send"
      BY <1>0, <1>1, <2>1 DEF SendPayment, Goto, LifecycleTypeOK, switchVars
    <2>3. \A a \in AttemptIds : packet[a] = "none" /\ answer[a] = "none"
      BY <2>1 DEF Inv, SwitchInv
    <2>4. Live \cup Paid = {} /\ Live' \cup Paid' = {}
      BY <2>1, <2>2, <2>3 DEF Live, Paid
    <2> QED
      BY <2>1, <2>2, <2>4 DEF Kinds, Begins, Kept
  <1>2. ASSUME CallDeletePayment PROVE Kinds /\ Kept
    <2>1. UNCHANGED <<htlc, packet, answer, pc, cur, amt>>
      BY <1>2 DEF CallDeletePayment, switchVars, lifeVars
    <2>2. SameHTLCs
      BY <2>1 DEF SameHTLCs
    <2> QED
      BY <1>2, <2>1, <2>2, SameLive DEF CallDeletePayment, Kinds, Deletes, Kept
  <1>3. ASSUME Crash PROVE Kinds /\ Kept
    <2>1. /\ UNCHANGED <<payment, htlc, answer, amt>>
          /\ \A a \in AttemptIds : packet'[a] = "none"
          /\ \A k \in Lifecycles : pc'[k] # "send"
      BY <1>3 DEF Crash, Final
    <2>2. Live' \subseteq Live /\ Paid' = Paid
      BY <2>1 DEF Live, Paid
    <2> QED
      BY <2>1, <2>2 DEF Kinds, Returns, Kept
  <1>4. ASSUME StartRouter PROVE Kinds /\ Kept
    <2>1. UNCHANGED <<payment, htlc, packet, answer, cur, amt>>
      BY <1>4 DEF StartRouter
    <2>2. \A k \in Lifecycles : pc'[k] = pc[k] \/ (pc[k] = "idle" /\ pc'[k] = "resume")
      <3>1. pc' = pc \/ (\E l \in Lifecycles : pc[l] = "idle" /\ Goto(l, "resume"))
        BY <1>4 DEF StartRouter, NextLifecycle
      <3> QED
        BY <1>0, <3>1 DEF Goto, LifecycleTypeOK
    <2>3. SameHTLCs
      BY <2>1, <2>2 DEF SameHTLCs
    <2> QED
      BY <2>1, <2>3, SameLive DEF Kinds, Same, Kept
  <1>5. ASSUME UNCHANGED lifecycleVars PROVE Kinds /\ Kept
    <2>1. UNCHANGED <<payment, htlc, packet, answer, pc, cur, amt>>
      BY <1>5 DEF lifecycleVars
    <2>2. SameHTLCs
      BY <2>1 DEF SameHTLCs
    <2> QED
      BY <2>1, <2>2, SameLive DEF Kinds, Same, Kept
  <1>6. ASSUME NEW l \in Lifecycles, Lifecycle(l) PROVE Kinds /\ Kept
    BY <1>0, <1>6, PlansKinds, AttemptKinds DEF Lifecycle, Plans
  <1> QED
    BY <1>1, <1>2, <1>3, <1>4, <1>5, <1>6, CollectorKinds, SwitchKinds DEF LifecycleNext
-----------------------------------------------------------------------------
(* The ledger.                                                             *)

\* The record counts no more than the value, and the amounts it counts are the
\* amounts of the attempts.
Ledger ==
    payment # NoPayment =>
        /\ Covered(payment)
        /\ payment.value = Value
        /\ \A a \in HTLCs(payment) : payment.htlcs[a].amt = amt[a]

\* The attempts of the set were drawn within the value.
Within(S) ==
    /\ IsFiniteSet(S)
    /\ \A a \in S : amt[a] \in Nat \ {0}
    /\ Sum(amt, S) <= Value

\* Without a record nothing can be claimed, and what was claimed is within the
\* value.
Spent == payment = NoPayment => Live = {} /\ Within(Paid)

\* A record that counts the amounts keeps what counts within the value.
LEMMA LedgerWithin ==
    ASSUME LifecycleTypeOK, Placed, Ledger, payment # NoPayment
    PROVE  Within(Live \cup Paid)
  <1> DEFINE U == Live \cup Paid
             p == payment
  <1>1. p \in Payment /\ IsFiniteSet(HTLCs(p)) /\ SentAmt(p) <= Value
    BY DEF LifecycleTypeOK, Ledger, Covered
  <1>2. /\ SentAmt(p) = Sum(Amts(p), Sent(p)) /\ IsFiniteSet(Sent(p))
        /\ \A a \in HTLCs(p) : Amts(p)[a] \in Nat \ {0}
    BY <1>1, SentSum
  <1>3. \A a \in Sent(p) : amt[a] = Amts(p)[a] /\ amt[a] \in Nat \ {0}
    BY <1>2 DEF Ledger, Amts, Sent
  <1>4. U \in SUBSET Sent(p)
    BY DEF Placed
  <1>5. Sum(Amts(p), Sent(p)) = Sum(amt, Sent(p))
    BY <1>2, <1>3, SumSame
  <1> HIDE DEF U, p
  <1>6. /\ Sum(amt, U) \in Nat /\ Sum(amt, U) <= Sum(amt, Sent(p))
        /\ Sum(amt, Sent(p)) \in Nat
    BY <1>2, <1>3, <1>4, SumMonotone, SumElement
  <1>7. Sum(amt, U) <= Value
    BY <1>1, <1>2, <1>5, <1>6, PaymentLifecycleAssumption
  <1>8. IsFiniteSet(U)
    BY <1>2, <1>4, FS_Subset
  <1> QED
    BY <1>3, <1>4, <1>7, <1>8 DEF Within, U

\* Every step keeps the ledger.
LEMMA LedgerStep ==
    ASSUME Inv, Ledger, Kinds, Kept
    PROVE  Ledger'
  <1>1. ASSUME payment # NoPayment
        PROVE  /\ payment \in Payment /\ Covered(payment) /\ payment.value = Value
               /\ IsFiniteSet(HTLCs(payment))
               /\ \A a \in HTLCs(payment) : /\ payment.htlcs[a].amt = amt[a]
                                            /\ amt'[a] = amt[a]
                                            /\ htlc[a] # "unused"
    <2>1. /\ payment \in Payment
          /\ \A a \in HTLCs(payment) : a \in AttemptIds /\ htlc[a] # "unused"
      BY <1>1, AttemptSets DEF Inv, LifecycleTypeOK, RecordInv, Agrees
    <2> QED
      BY <1>1, <2>1 DEF Ledger, Covered, Kept
  <1>2. CASE payment' = payment
    BY <1>1, <1>2 DEF Ledger
  <1>3. CASE Writes
    <2>1. ASSUME NEW q, q \in Payment, q.value = Value, HTLCs(q) \subseteq HTLCs(payment),
                 SentAmt(q) <= SentAmt(payment), IsFiniteSet(HTLCs(q)), payment' = q,
                 \A a \in HTLCs(q) : q.htlcs[a].amt = payment.htlcs[a].amt
          PROVE  Ledger'
      <3>1. payment # NoPayment
        BY <1>3 DEF Writes
      <3>2. SentAmt(q) \in Nat /\ SentAmt(payment) \in Nat /\ SentAmt(payment) <= Value
        BY <1>1, <2>1, <3>1, SentBounds DEF Covered
      <3>3. Covered(q)
        BY <2>1, <3>2, PaymentLifecycleAssumption DEF Covered
      <3> QED
        BY <1>1, <2>1, <3>1, <3>3 DEF Ledger
    <2>2. ASSUME NEW reason \in Reasons, payment' = WithReason(payment, reason)
          PROVE  Ledger'
      <3> DEFINE q == WithReason(payment, reason)
      <3>1. payment # NoPayment
        BY <1>3 DEF Writes
      <3>2. q \in Payment /\ q.value = Value /\ q.htlcs = payment.htlcs
        BY <1>1, <3>1, WithReasonType DEF WithReason, Payment
      <3>3. HTLCs(q) = HTLCs(payment) /\ SentAmt(q) = SentAmt(payment)
        BY <1>1, <3>1, WithReasonSets, SentOtherwise
      <3> HIDE DEF q
      <3>4. SentAmt(q) <= SentAmt(payment)
        BY <1>1, <3>1, <3>3, SentBounds
      <3> QED
        BY <1>1, <2>1, <2>2, <3>1, <3>2, <3>3, <3>4 DEF q
    <2>3. ASSUME payment' = WithoutFailedHTLCs(payment)
          PROVE  Ledger'
      <3> DEFINE q == WithoutFailedHTLCs(payment)
      <3>1. payment # NoPayment
        BY <1>3 DEF Writes
      <3>2. q \in Payment /\ q.value = Value
        BY <1>1, <3>1, WithoutFailedType DEF WithoutFailedHTLCs, Payment
      <3>3. /\ HTLCs(q) \subseteq HTLCs(payment) /\ IsFiniteSet(HTLCs(q))
            /\ SentAmt(q) = SentAmt(payment)
        BY <1>1, <3>1, WithoutFailedSets, SentOtherwise
      <3>4. \A a \in HTLCs(q) : q.htlcs[a] = payment.htlcs[a]
        BY <1>1, <3>1 DEF WithoutFailedHTLCs, HTLCs, Payment
      <3> HIDE DEF q
      <3>5. SentAmt(q) <= SentAmt(payment)
        BY <1>1, <3>1, <3>3, SentBounds
      <3> QED
        BY <2>1, <2>3, <3>2, <3>3, <3>4, <3>5 DEF q
    <2>4. ASSUME NEW a \in HTLCs(payment),
                 payment' \in {WithSettle(payment, a), WithFailure(payment, a)}
          PROVE  Ledger'
      <3> DEFINE q == WithSettle(payment, a)
                 r == WithFailure(payment, a)
      <3>1. payment # NoPayment /\ payment \in Payment
        BY <1>1, <1>3 DEF Writes
      <3>2. q \in Payment /\ r \in Payment
        BY <3>1, WithOutcomeType
      <3>3. /\ HTLCs(q) = HTLCs(payment) /\ HTLCs(r) = HTLCs(payment)
            /\ SentAmt(q) = SentAmt(payment) /\ SentAmt(r) <= SentAmt(payment)
        BY <1>1, <3>1, HTLCsAfterOutcome, SentAfterOutcome
      <3>4. a \in AttemptIds /\ payment.htlcs[a] \in HTLCAttempt
        BY <3>1 DEF HTLCs, Payment
      <3>5. /\ q.value = payment.value /\ r.value = payment.value
            /\ \A b \in HTLCs(payment) : /\ q.htlcs[b].amt = payment.htlcs[b].amt
                                         /\ r.htlcs[b].amt = payment.htlcs[b].amt
        BY <3>1, <3>4 DEF WithSettle, WithFailure, HTLCs, Payment, HTLCAttempt
      <3> HIDE DEF q, r
      <3>6. SentAmt(q) <= SentAmt(payment)
        BY <1>1, <3>1, <3>3, SentBounds
      <3>7. CASE payment' = q
        BY <1>1, <2>1, <3>1, <3>2, <3>3, <3>5, <3>6, <3>7
      <3>8. CASE payment' = r
        BY <1>1, <2>1, <3>1, <3>2, <3>3, <3>5, <3>8
      <3> QED
        BY <2>4, <3>7, <3>8 DEF q, r
    <2> QED
      BY <1>3, <2>2, <2>3, <2>4 DEF Writes
  <1>4. CASE Offers
    <2>1. PICK a \in AttemptIds, amount \in 1 .. Value :
              /\ htlc[a] = "unused"
              /\ CanRegister(payment, amount, Mpp)
              /\ payment' = WithAttempt(payment, a, amount, Mpp)
              /\ amt'[a] = amount
      BY <1>4 DEF Offers
    <2> DEFINE q == WithAttempt(payment, a, amount, Mpp)
    <2>2. /\ payment # NoPayment /\ payment \in Payment
          /\ a \notin HTLCs(payment)
          /\ amount \in Nat \ {0} /\ Mpp \in Mpps \cup {NoMpp}
      BY <1>1, <1>4, <2>1, PaymentLifecycleAssumption DEF Offers
    <2>3. q \in Payment /\ q.value = Value
      BY <1>1, <2>2, WithAttemptType DEF WithAttempt, Payment
    <2>4. HTLCs(q) = HTLCs(payment) \cup {a}
      BY <2>2, WithAttemptSets
    <2>5. IsFiniteSet(HTLCs(q)) /\ SentAmt(q) = SentAmt(payment) + amount
      BY <1>1, <2>2, SentAfterAttempt
    <2>6. SentAmt(payment) + amount <= Value
      BY <1>1, <2>1, <2>2 DEF CanRegister
    <2>7. /\ q.htlcs[a].amt = amount
          /\ \A b \in HTLCs(payment) : q.htlcs[b] = payment.htlcs[b]
      BY <2>2 DEF WithAttempt, Payment, HTLCs
    <2> HIDE DEF q
    <2>8. Covered(q)
      BY <2>3, <2>5, <2>6 DEF Covered
    <2>9. \A b \in HTLCs(q) : q.htlcs[b].amt = amt'[b]
      BY <1>1, <2>1, <2>2, <2>4, <2>7
    <2>10. payment' = q
      BY <2>1 DEF q
    <2> QED
      BY <2>3, <2>8, <2>9, <2>10 DEF Ledger
  <1>5. CASE Begins
    <2>1. payment' = NewPayment(Value)
      BY <1>5 DEF Begins
    <2>2. Sound(NewPayment(Value)) /\ HTLCs(NewPayment(Value)) = {}
      BY NewPaymentSound, NewPaymentSets, PaymentLifecycleAssumption
    <2>3. NewPayment(Value).value = Value
      BY DEF NewPayment
    <2> QED
      BY <2>1, <2>2, <2>3 DEF Ledger, Sound
  <1>6. CASE Deletes
    BY <1>6 DEF Deletes, Ledger
  <1> QED
    BY <1>2, <1>3, <1>4, <1>5, <1>6 DEF Kinds, Same, Returns, Claims

\* A payment of which HTLCs may still be claimed is not deleted, and without one
\* nothing is added.
LEMMA SpentStep ==
    ASSUME Inv, Placed, Ledger, Spent, Kinds, Kept
    PROVE  Spent'
  <1> SUFFICES ASSUME payment' = NoPayment PROVE Live' = {} /\ Within(Paid)'
    BY DEF Spent
  <1>1. Live = {} /\ Within(Paid)
    <2>1. CASE payment = NoPayment
      BY <2>1 DEF Spent
    <2>2. CASE payment # NoPayment
      <3>1. Deletes
        <4>1. payment \in Payment /\ NoPayment \notin Payment
          BY <2>2, PaymentLifecycleAssumption DEF Inv, LifecycleTypeOK
        <4>2. ~Writes
          BY <4>1, WithReasonType, WithoutFailedType, WithOutcomeType DEF Writes
        <4>3. ~Offers
          <5>1. \A amount \in 1 .. Value : amount \in Nat \ {0}
            BY PaymentLifecycleAssumption
          <5> QED
            BY <4>1, <5>1, WithAttemptType, PaymentLifecycleAssumption DEF Offers
        <4> QED
          BY <2>2, <4>2, <4>3 DEF Kinds, Same, Returns, Claims, Begins
      <3>2. Live = {}
        BY <2>2, <3>1, NothingInFlight DEF Deletes, Placed
      <3>3. Within(Live \cup Paid)
        BY <2>2, LedgerWithin DEF Inv
      <3> QED
        BY <3>2, <3>3, Zenon
    <2> QED
      BY <2>1, <2>2
  <1>2. Live' = Live /\ Paid' = Paid
    <2>1. ~Begins
      BY NewPaymentType, PaymentLifecycleAssumption DEF Begins
    <2>2. ~Offers
      <3>1. payment # NoPayment => payment \in Payment
        BY DEF Inv, LifecycleTypeOK
      <3>2. \A amount \in 1 .. Value : amount \in Nat \ {0}
        BY PaymentLifecycleAssumption
      <3> QED
        BY <3>1, <3>2, WithAttemptType, PaymentLifecycleAssumption DEF Offers
    <2> QED
      BY <1>1, <2>1, <2>2 DEF Kinds, Same, Returns, Claims, Writes, Deletes
  <1>3. \A a \in Paid : amt'[a] = amt[a]
    BY DEF Kept, Placed, Paid
  <1>4. Sum(amt', Paid) = Sum(amt, Paid)
    BY <1>1, <1>3, SumSame DEF Within
  <1> QED
    BY <1>1, <1>2, <1>3, <1>4 DEF Within
\* What the ledger and the record of what was claimed say together.
MoneyInv == Inv /\ Placed /\ Ledger /\ Spent /\ Within(Live \cup Paid)

\* With a record or without, what counts is within the value.
LEMMA CountedWithin ==
    ASSUME LifecycleTypeOK, Placed, Ledger, Spent
    PROVE  Within(Live \cup Paid)
  <1>1. CASE payment = NoPayment
    <2>1. Live = {} /\ Within(Paid)
      BY <1>1 DEF Spent
    <2> QED
      BY <2>1, Zenon
  <1>2. CASE payment # NoPayment
    BY <1>2, LedgerWithin
  <1> QED
    BY <1>1, <1>2

\* It is an invariant when SendPayment is called once.
LEMMA MoneyInvariant ==
    ASSUME MaxInits <= 1
    PROVE  LifecycleSpec => []MoneyInv
  <1>1. LifecycleInit => Inv /\ Ledger /\ Spent
    <2> SUFFICES ASSUME LifecycleInit PROVE Ledger /\ Spent
      BY InvInit
    <2>1. Live = {} /\ Paid = {}
      BY DEF LifecycleInit, Live, Paid
    <2>2. Within({})
      BY SumEmpty, FS_EmptySet, PaymentLifecycleAssumption DEF Within
    <2> QED
      BY <2>1, <2>2 DEF LifecycleInit, Ledger, Spent
  <1>2. Inv /\ Ledger /\ Spent /\ [LifecycleNext]_lifecycleVars => Inv' /\ Ledger' /\ Spent'
    BY InvStep, InvPlaced, StepKinds, LedgerStep, SpentStep
  <1>3. Inv /\ Ledger /\ Spent => MoneyInv
    BY InvPlaced, CountedWithin DEF MoneyInv, Inv
  <1> QED
    BY <1>1, <1>2, <1>3, PTL DEF LifecycleSpec

\* What the receiver claimed and may still claim never exceeds the payment.
THEOREM OverpaySafety ==
    ASSUME MaxInits <= 1
    PROVE  LifecycleSpec => []NoOverpay
  <1>1. MoneyInv => NoOverpay
    BY MapSum DEF MoneyInv, Within, NoOverpay, AmtOf
  <1> QED
    BY <1>1, MoneyInvariant, PTL

-----------------------------------------------------------------------------
(* Refinement.                                                             *)

\* The two amounts of IdealPayment are sums within the value.
AmountsInv ==
    /\ AmtOf(Live) = Sum(amt, Live) /\ AmtOf(Paid) = Sum(amt, Paid)
    /\ AmtOf(Live) \in Nat /\ AmtOf(Paid) \in Nat
    /\ AmtOf(Live) + AmtOf(Paid) <= Value
    /\ Live = {} => AmtOf(Live) = 0
    /\ Paid = {} => AmtOf(Paid) = 0
    /\ Paid # {} => AmtOf(Paid) > 0
    /\ IsFiniteSet(Live) /\ IsFiniteSet(Paid)

\* What counts falls into what may still be claimed and what was.
LEMMA AmountsAdd == MoneyInv => AmountsInv
  <1> SUFFICES ASSUME MoneyInv PROVE AmountsInv
    OBVIOUS
  <1> DEFINE U == Live \cup Paid
  <1>1. /\ IsFiniteSet(U) /\ \A a \in U : amt[a] \in Nat \ {0}
        /\ Sum(amt, U) <= Value
    BY DEF MoneyInv, Within
  <1>2. Live \in SUBSET U /\ Paid \in SUBSET U /\ U \ Live = Paid
    BY DEF MoneyInv, Placed
  <1>3. AmtOf(Live) = Sum(amt, Live) /\ AmtOf(Paid) = Sum(amt, Paid)
    BY MapSum DEF AmtOf
  <1> HIDE DEF U
  <1>4. /\ Sum(amt, Live) \in Nat /\ Sum(amt, Paid) \in Nat
        /\ \A a \in Paid : amt[a] <= Sum(amt, Paid)
    BY <1>1, <1>2, SumMonotone
  <1>5. Sum(amt, U) = Sum(amt, Live) + Sum(amt, U \ Live)
    BY <1>1, <1>2, SumDisjoint
  <1>6. Sum(amt, Live) + Sum(amt, Paid) <= Value
    BY <1>1, <1>2, <1>5, Zenon
  <1>7. IsFiniteSet(Live) /\ IsFiniteSet(Paid)
    BY <1>1, <1>2, FS_Subset
  <1>8. Paid # {} => Sum(amt, Paid) > 0
    BY <1>1, <1>2, <1>4
  <1> QED
    BY <1>3, <1>4, <1>6, <1>7, <1>8, SumEmpty DEF AmountsInv

\* What an update may make of the status.
LEMMA StatusAfterWrite ==
    ASSUME LifecycleTypeOK, Writes
    PROVE  \/ Phase' = Phase
           \/ Phase = "pending" /\ Phase' \in {"succeeded", "failed"}
  <1> DEFINE p == payment
             q == payment'
  <1>1. p # NoPayment /\ p \in Payment /\ NoPayment \notin Payment
    BY PaymentLifecycleAssumption DEF Writes, LifecycleTypeOK
  <1>2. q \in Payment
    BY <1>1, WithReasonType, WithoutFailedType, WithOutcomeType DEF Writes
  <1>3. \A r : PaymentStatus(r) \in {"Initiated", "InFlight", "Succeeded", "Failed"}
    BY DEF PaymentStatus
  <1>4. ASSUME NEW reason \in Reasons, q = WithReason(p, reason)
        PROVE  \/ PaymentStatus(q) = PaymentStatus(p)
               \/ PaymentStatus(p) \in {"Initiated", "InFlight"}
    <2>1. /\ FailedHTLCs(q) = FailedHTLCs(p)
          /\ SettledHTLCs(q) = SettledHTLCs(p)
          /\ InFlightHTLCs(q) = InFlightHTLCs(p)
      BY <1>1, <1>4, WithReasonSets
    <2>2. q.reason # NoReason
      BY <1>1, <1>4, MPPaymentAssumption DEF WithReason, Payment
    <2> QED
      BY <2>1, <2>2 DEF PaymentStatus
  <1>5. ASSUME Removable(PaymentStatus(p)), q = WithoutFailedHTLCs(p)
        PROVE  PaymentStatus(q) = PaymentStatus(p)
    <2>1. /\ FailedHTLCs(q) = {}
          /\ SettledHTLCs(q) = SettledHTLCs(p) \ FailedHTLCs(p)
          /\ InFlightHTLCs(q) = InFlightHTLCs(p)
      BY <1>1, <1>5, WithoutFailedSets
    <2>2. q.reason = p.reason
      BY <1>1, <1>5 DEF WithoutFailedHTLCs, Payment
    <2>3. InFlightHTLCs(p) = {}
      BY <1>5, NothingInFlight
    <2> QED
      BY <1>5, <2>1, <2>2, <2>3 DEF PaymentStatus, Removable
  <1>6. ASSUME NEW a \in HTLCs(p), CanUpdateHtlc(p, a)
        PROVE  PaymentStatus(p) \in {"Initiated", "InFlight"}
    BY <1>6 DEF CanUpdateHtlc, Updatable
  <1>7. \/ PaymentStatus(q) = PaymentStatus(p)
        \/ PaymentStatus(p) \in {"Initiated", "InFlight"}
    BY <1>4, <1>5, <1>6 DEF Writes
  <1>8. p # NoPayment /\ q # NoPayment
    BY <1>1, <1>2
  <1> HIDE DEF p, q
  <1>9. /\ Phase = CASE PaymentStatus(p) = "Succeeded" -> "succeeded"
                     [] PaymentStatus(p) = "Failed"    -> "failed"
                     [] OTHER                          -> "pending"
        /\ Phase' = CASE PaymentStatus(q) = "Succeeded" -> "succeeded"
                      [] PaymentStatus(q) = "Failed"    -> "failed"
                      [] OTHER                          -> "pending"
    BY <1>8 DEF Phase, p, q
  <1> QED
    BY <1>3, <1>7, <1>9

\* A payment whose status is final has nothing outstanding, and its receiver
\* claimed something exactly when it succeeded.
PhaseInv ==
    /\ Phase = "succeeded" => Live = {} /\ Paid # {}
    /\ Phase = "failed" => Live = {} /\ Paid = {}

\* The record says so because what counts is placed in it.
LEMMA FinalPhase == MoneyInv => PhaseInv
  <1> SUFFICES ASSUME MoneyInv, payment # NoPayment PROVE PhaseInv
    BY DEF Phase, PhaseInv
  <1>1. Placed
    BY DEF MoneyInv
  <1>2. Phase = "succeeded" => PaymentStatus(payment) = "Succeeded"
    BY DEF Phase
  <1>3. Phase = "failed" => PaymentStatus(payment) = "Failed"
    BY DEF Phase
  <1>4. PaymentStatus(payment) = "Succeeded" =>
            /\ InFlightHTLCs(payment) = {}
            /\ SettledHTLCs(payment) # {}
    BY DEF PaymentStatus
  <1>5. PaymentStatus(payment) = "Failed" => Sent(payment) = {}
    <2>1. PaymentStatus(payment) = "Failed" =>
              /\ InFlightHTLCs(payment) = {}
              /\ SettledHTLCs(payment) \ FailedHTLCs(payment) = {}
      BY DEF PaymentStatus
    <2> QED
      BY <2>1, AttemptSets DEF Sent
  <1> QED
    BY <1>1, <1>2, <1>3, <1>4, <1>5 DEF Placed, PhaseInv

\* Every step is one of IdealPayment or leaves it alone.
LEMMA IdealStep ==
    ASSUME MoneyInv, AmountsInv, AmountsInv', PhaseInv', Kinds, Kept
    PROVE  [Ideal!Next]_<<Phase, AmtOf(Live), AmtOf(Paid)>>
  <1> DEFINE live == AmtOf(Live)
             paid == AmtOf(Paid)
  <1>0. ASSUME NEW S \in SUBSET (Live \cup Paid)
        PROVE  Sum(amt', S) = Sum(amt, S)
    <2>1. IsFiniteSet(S)
      BY FS_Subset DEF MoneyInv, Within
    <2>2. \A a \in S : amt'[a] = amt[a]
      BY DEF MoneyInv, Placed, Kept, Live, Paid
    <2> QED
      BY <2>1, <2>2, SumSame
  <1>1. /\ live = Sum(amt, Live) /\ paid = Sum(amt, Paid)
        /\ live' = Sum(amt', Live') /\ paid' = Sum(amt', Paid')
        /\ live \in Nat /\ paid \in Nat /\ live' \in Nat /\ paid' \in Nat
        /\ live' + paid' <= Value
        /\ \A a \in Live \cup Paid : amt[a] \in Nat \ {0}
        /\ IsFiniteSet(Live) /\ IsFiniteSet(Paid) /\ Live \cap Paid = {}
    BY DEF AmountsInv, MoneyInv, Within, Placed
  <1>2. Live' = Live => live' = live
    BY <1>0, <1>1
  <1>3. Paid' = Paid => paid' = paid
    BY <1>0, <1>1
  <1>4. payment' = payment => Phase' = Phase
    BY DEF Phase
  <1>5. CASE Same
    BY <1>2, <1>3, <1>4, <1>5 DEF Same
  <1>6. CASE Returns
    <2>1. live' = Sum(amt, Live') /\ Live' \in SUBSET Live
      BY <1>0, <1>1, <1>6 DEF Returns
    <2>2. live' <= live
      BY <1>1, <2>1, SumMonotone
    <2>3. paid' = paid /\ Phase' = Phase
      BY <1>3, <1>4, <1>6 DEF Returns
    <2> HIDE DEF live, paid
    <2>4. live' = live \/ live' \in 0 .. live - 1
      BY <1>1, <2>2
    <2> QED
      BY <2>3, <2>4 DEF Ideal!Next, Ideal!Return, live, paid
  <1>7. CASE Claims
    <2>1. PICK a \in Live : Live' = Live \ {a} /\ Paid' = Paid \cup {a}
      BY <1>7 DEF Claims
    <2>2. live' = Sum(amt, Live \ {a}) /\ paid' = Sum(amt, Paid \cup {a})
      BY <1>0, <1>1, <2>1
    <2>3. live = amt[a] + Sum(amt, Live \ {a})
      BY <1>1, SumElement
    <2>4. Sum(amt, Paid \cup {a}) = Sum(amt, Paid) + amt[a]
      BY <1>1, SumAdd
    <2>5. Phase' = Phase
      BY <1>4, <1>7 DEF Claims
    <2> HIDE DEF live, paid
    <2>6. live' \in 0 .. live - 1 /\ paid' = paid + (live - live')
      BY <1>1, <2>2, <2>3, <2>4
    <2> QED
      BY <2>5, <2>6 DEF Ideal!Next, Ideal!Claim, live, paid
  <1>8. CASE Writes
    <2>1. Live' = Live /\ Paid' = Paid /\ live' = live /\ paid' = paid
      BY <1>2, <1>3, <1>8 DEF Writes
    <2>2. \/ Phase' = Phase
          \/ Phase = "pending" /\ Phase' \in {"succeeded", "failed"}
      BY <1>8, StatusAfterWrite DEF MoneyInv, Inv
    <2>3. /\ Phase' = "succeeded" => live = 0 /\ paid > 0
          /\ Phase' = "failed" => live = 0 /\ paid = 0
      BY <2>1 DEF PhaseInv, AmountsInv
    <2> HIDE DEF live, paid
    <2>4. CASE Phase' = Phase
      BY <2>1, <2>4 DEF live, paid
    <2>5. CASE Phase = "pending" /\ Phase' = "succeeded"
      BY <2>1, <2>3, <2>5 DEF Ideal!Next, Ideal!Succeed, live, paid
    <2>6. CASE Phase = "pending" /\ Phase' = "failed"
      BY <2>1, <2>3, <2>6 DEF Ideal!Next, Ideal!Fail, live, paid
    <2> QED
      BY <2>2, <2>4, <2>5, <2>6
  <1>9. CASE Offers
    <2>1. PICK a \in AttemptIds, amount \in 1 .. Value :
              /\ htlc[a] = "unused"
              /\ CanRegister(payment, amount, Mpp)
              /\ payment' = WithAttempt(payment, a, amount, Mpp)
              /\ amt'[a] = amount
              /\ Live' = Live \cup {a}
      BY <1>9 DEF Offers
    <2>2. /\ payment # NoPayment /\ payment \in Payment /\ NoPayment \notin Payment
          /\ a \notin HTLCs(payment) /\ a \notin Live
          /\ amount \in Nat \ {0} /\ Mpp \in Mpps \cup {NoMpp}
      <3>1. payment # NoPayment
        BY <1>9 DEF Offers
      <3>2. payment \in Payment /\ NoPayment \notin Payment
        BY <3>1, PaymentLifecycleAssumption DEF MoneyInv, Inv, LifecycleTypeOK
      <3>3. a \notin HTLCs(payment)
        BY <2>1, <3>1 DEF MoneyInv, Inv, RecordInv, Agrees
      <3>4. a \notin Live
        BY <2>1 DEF MoneyInv, Placed
      <3>5. amount \in Nat \ {0} /\ Mpp \in Mpps \cup {NoMpp}
        BY PaymentLifecycleAssumption
      <3> QED
        BY <3>1, <3>2, <3>3, <3>4, <3>5
    <2>3. payment' \in Payment /\ a \in InFlightHTLCs(payment')
      <3>1. WithAttempt(payment, a, amount, Mpp) \in Payment
        BY <2>2, WithAttemptType
      <3>2. InFlightHTLCs(WithAttempt(payment, a, amount, Mpp))
                = InFlightHTLCs(payment) \cup {a}
        BY <2>2, WithAttemptSets
      <3> QED
        BY <2>1, <3>1, <3>2
    <2>4. PaymentStatus(payment') = "InFlight" /\ payment' # NoPayment
      BY <2>2, <2>3 DEF PaymentStatus
    <2>5. PaymentStatus(payment) \in {"Initiated", "InFlight"}
      BY <2>1 DEF CanRegister, Registrable, Updatable
    <2>6. Phase = "pending" /\ Phase' = "pending"
      BY <2>2, <2>4, <2>5 DEF Phase
    <2>7. Sum(amt', Live \cup {a}) = Sum(amt', Live) + amount
      <3>1. \A b \in Live : amt'[b] \in Nat
        BY <1>1 DEF Kept, MoneyInv, Placed, Live
      <3> QED
        BY <1>1, <2>1, <2>2, <3>1, SumAdd
    <2>8. live' = live + amount
      BY <1>0, <1>1, <2>1, <2>7
    <2>9. paid' = paid
      BY <1>3, <1>9 DEF Offers
    <2> HIDE DEF live, paid
    <2>10. live' \in live + 1 .. Value - paid
      BY <1>1, <2>2, <2>8, <2>9, PaymentLifecycleAssumption
    <2> QED
      BY <2>6, <2>9, <2>10 DEF Ideal!Next, Ideal!Offer, live, paid
  <1>10. CASE Begins
    <2>1. NewPayment(Value) \in Payment /\ HTLCs(NewPayment(Value)) = {}
      BY NewPaymentType, NewPaymentSets, PaymentLifecycleAssumption
    <2>2. PaymentStatus(NewPayment(Value)) = "Initiated"
      <3>1. NewPayment(Value).reason = NoReason
        BY DEF NewPayment
      <3> QED
        BY <2>1, <3>1, AttemptSets DEF PaymentStatus
    <2>3. payment' # NoPayment
      BY <1>10, <2>1, PaymentLifecycleAssumption DEF Begins
    <2>4. Phase = "none" /\ Phase' = "pending"
      BY <1>10, <2>2, <2>3 DEF Begins, Phase
    <2>5. live' = live /\ paid' = paid
      <3>1. Live = {} /\ Paid = {} /\ Live' = {} /\ Paid' = {}
        BY <1>10 DEF Begins
      <3> QED
        BY <1>2, <1>3, <3>1
    <2> QED
      BY <2>4, <2>5 DEF Ideal!Next, Ideal!Start
  <1>11. CASE Deletes
    <2>1. Phase # "none" /\ Phase' = "none"
      BY <1>11 DEF Deletes, Phase
    <2>2. Live = {}
      BY <1>11, NothingInFlight DEF Deletes, MoneyInv, Placed
    <2>3. live = 0
      BY <2>2 DEF AmountsInv
    <2>4. live' = live /\ paid' = paid
      BY <1>2, <1>3, <1>11 DEF Deletes
    <2> QED
      BY <2>1, <2>3, <2>4 DEF Ideal!Next, Ideal!Forget
  <1> QED
    BY <1>5, <1>6, <1>7, <1>8, <1>9, <1>10, <1>11 DEF Kinds

\* Sending a payment does what IdealPayment promises: it is pending until its
\* outcome is final, fails only when nothing was and nothing can be claimed,
\* succeeds only when something was claimed, and is never deleted while
\* something is outstanding.
THEOREM IdealSafety ==
    ASSUME MaxInits <= 1
    PROVE  LifecycleSpec => ImplementsIdeal
  <1>1. LifecycleInit => Ideal!Init
    <2> SUFFICES ASSUME LifecycleInit PROVE Ideal!Init
      OBVIOUS
    <2>1. Live = {} /\ Paid = {} /\ payment = NoPayment
      BY DEF LifecycleInit, Live, Paid
    <2>2. AmtOf({}) = Sum(amt, {})
      BY MapSum DEF AmtOf
    <2>3. Sum(amt, {}) = 0
      BY SumEmpty
    <2> QED
      BY <2>1, <2>2, <2>3 DEF Ideal!Init, Phase
  <1>2. MoneyInv => Inv /\ AmountsInv /\ PhaseInv
    BY AmountsAdd, FinalPhase DEF MoneyInv
  <1>3. MoneyInv /\ AmountsInv /\ Inv /\ MoneyInv' /\ AmountsInv' /\ PhaseInv' /\ [LifecycleNext]_lifecycleVars
            => [Ideal!Next]_<<Phase, AmtOf(Live), AmtOf(Paid)>>
    BY StepKinds, IdealStep
  <1> QED
    BY <1>1, <1>2, <1>3, MoneyInvariant, PTL
    DEF LifecycleSpec, ImplementsIdeal, Ideal!Spec, Ideal!idealVars
=============================================================================
