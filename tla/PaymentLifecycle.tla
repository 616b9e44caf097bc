-------------------------- MODULE PaymentLifecycle --------------------------
(***************************************************************************)
(* Sending one payment: the lifecycle goroutine of routing/                *)
(* payment_lifecycle.go, its result collectors (one goroutine per attempt),*)
(* the payment database behind the control tower, and the part of the HTLC *)
(* switch that a local payment meets: the circuit of the attempt, the      *)
(* mailbox of the outgoing link, the forwarding package that holds the     *)
(* answer, and the store of network results.  All of it for one payment    *)
(* hash; several lifecycles exist when the payment is sent again after it  *)
(* failed, or resumed after a restart.                                     *)
(*                                                                         *)
(* Every database transaction is one action, and a goroutine works on what *)
(* it read before: the lifecycle decides on the payment fetched at the top *)
(* of its loop (snap) while collectors and other lifecycles write to the   *)
(* current one (payment).                                                  *)
(*                                                                         *)
(* The network is external: an HTLC that left the node is settled or       *)
(* failed, in any order.  Which failures are terminal for the payment is   *)
(* up to mission control, which may name a reason or not.                  *)
(***************************************************************************)
EXTENDS MPPayment

CONSTANTS
    Lifecycles,   \* lifecycle goroutines, numbered in the order of their start
    Value,        \* the amount of the payment
    FailureReasonTimeout,  \* why payments fail; an instance in which nothing
    FailureReasonNoRoute,  \* depends on the reason may give two of them the
    FailureReasonError,    \* same value
    Mpp,          \* the MPP record of its attempts, or NoMpp
    MaxInits,     \* bound of the model on InitPayment
    MaxCrashes,   \* bound of the model on crashes
    AllowDelete,  \* the model includes DeletePayment calls
    CriticalErrors \* the model includes errors that end the lifecycle when it
                   \* asks for a route

ASSUME PaymentLifecycleAssumption ==
    /\ AttemptIds \subseteq Nat /\ Lifecycles \subseteq Nat
    /\ Value \in Nat \ {0}
    /\ Mpp \in Mpps \cup {NoMpp}
    /\ {FailureReasonTimeout, FailureReasonNoRoute, FailureReasonError}
           \subseteq Reasons
    /\ KeepFailedPaymentAttempts \in BOOLEAN
    /\ MaxInits \in Nat /\ MaxCrashes \in Nat
    /\ AllowDelete \in BOOLEAN /\ CriticalErrors \in BOOLEAN
    /\ NoPayment \notin Payment

VARIABLES
    \* on disk
    payment,     \* the payment bucket of the hash
    htlc,        \* how far each attempt's HTLC got
    answer,      \* what the network answered to it
    result,      \* networkResultStore
    \* in memory
    packet,      \* the switch's packet of the attempt, if any
    routerUp,    \* ChannelRouter.Start has run since the last crash
    pc,          \* where each lifecycle is
    snap,        \* the payment it fetched last
    cur,         \* the attempts it registered and has not handed over
    tracker,     \* its shardTracker
    session,     \* its paySession: finds routes, or is the empty one
    resultCollected, \* its channel of capacity one
    collector,   \* its result collector of each attempt
    \* of the model
    amt,         \* the amount of each attempt, 0 while unused
    crashes      \* number of crashes so far

switchVars == <<htlc, answer, result, packet>>
lifeVars == <<pc, snap, cur, tracker, session>>
collVars == <<resultCollected, collector>>
lifecycleVars ==
    <<payment, htlc, answer, result, packet, routerUp, pc, snap, cur, tracker,
      session, resultCollected, collector, amt, crashes>>

\* allocated: has an ID; half: its circuit is committed; out: the link opened
\* the circuit and signed for it; answered: settled or failed, in the link's
\* forwarding package; acked: removed from there; gone: circuit deleted.
HtlcState == {"unused", "allocated", "half", "out", "answered", "acked", "gone"}

\* add: in the link's mailbox; fail: failed back by the link; closed: the
\* circuit is closing and handleLocalResponse runs; stored: result is stored.
PacketState == {"none", "add", "fail", "closed", "stored"}

Final == {"succeeded", "failed", "aborted"}
PC == {"idle", "resume", "fetch", "check", "decide", "route", "send",
       "failpayment", "failattempt", "wait", "finish", "killed"} \cup Final

CollectorPC == {"none", "lookup", "get", "wait", "failpayment",
                "failattempt", "settle", "nil", "err"}

LifecycleTypeOK ==
    /\ payment \in Payment \cup {NoPayment}
    /\ htlc \in [AttemptIds -> HtlcState]
    /\ answer \in [AttemptIds -> {"none", "settle", "fail"}]
    /\ result \in [AttemptIds -> {"none", "settle", "fail"}]
    /\ packet \in [AttemptIds -> PacketState]
    /\ routerUp \in BOOLEAN
    /\ pc \in [Lifecycles -> PC]
    /\ snap \in [Lifecycles -> Payment \cup {NoPayment}]
    /\ cur \in [Lifecycles -> SUBSET AttemptIds]
    /\ tracker \in [Lifecycles -> SUBSET AttemptIds]
    /\ session \in [Lifecycles -> {"routes", "empty"}]
    /\ resultCollected \in [Lifecycles -> {"empty", "nil", "err"}]
    /\ collector \in [Lifecycles -> [AttemptIds -> CollectorPC]]
    /\ amt \in [AttemptIds -> 0 .. Value]
    /\ crashes \in 0 .. MaxCrashes

LifecycleInit ==
    /\ payment = NoPayment
    /\ htlc = [a \in AttemptIds |-> "unused"]
    /\ answer = [a \in AttemptIds |-> "none"]
    /\ result = [a \in AttemptIds |-> "none"]
    /\ packet = [a \in AttemptIds |-> "none"]
    /\ routerUp = TRUE
    /\ pc = [l \in Lifecycles |-> "idle"]
    /\ snap = [l \in Lifecycles |-> NoPayment]
    /\ cur = [l \in Lifecycles |-> {}]
    /\ tracker = [l \in Lifecycles |-> {}]
    /\ session = [l \in Lifecycles |-> "routes"]
    /\ resultCollected = [l \in Lifecycles |-> "empty"]
    /\ collector = [l \in Lifecycles |-> [a \in AttemptIds |-> "none"]]
    /\ amt = [a \in AttemptIds |-> 0]
    /\ crashes = 0

\* The next lifecycle to start; the next identifier of the sequencer.
NextLifecycle == {l \in Lifecycles :
                     /\ pc[l] = "idle"
                     /\ \A k \in Lifecycles : pc[k] = "idle" => l <= k}
NextAttemptID == {a \in AttemptIds :
                     /\ htlc[a] = "unused"
                     /\ \A b \in AttemptIds : htlc[b] = "unused" => a <= b}

Goto(l, at) == pc' = [pc EXCEPT ![l] = at]

-----------------------------------------------------------------------------
(* Callers: SendPayment and DeletePayment.                                 *)

Sends == {l \in Lifecycles : pc[l] # "idle" /\ session[l] = "routes"}

\* PreparePayment and the start of sendPayment with a new session.
SendPayment(l) ==
    /\ routerUp
    /\ l \in NextLifecycle
    /\ Cardinality(Sends) < MaxInits
    /\ payment # NoPayment => Initializable(PaymentStatus(payment))
    /\ payment' = NewPayment(Value)
    /\ Goto(l, "resume")
    /\ UNCHANGED <<switchVars, routerUp, snap, cur, tracker, session,
                   collVars, amt, crashes>>

CallDeletePayment ==
    /\ AllowDelete
    /\ payment # NoPayment
    /\ Removable(PaymentStatus(payment))
    /\ payment' = NoPayment
    /\ UNCHANGED <<switchVars, routerUp, lifeVars, collVars, amt, crashes>>

-----------------------------------------------------------------------------
(* The loop of resumePayment.  It runs as long as its calls succeed; an    *)
(* error ends it ("aborted"), and its deferred stop() tells the collectors *)
(* that they may quit.                                                     *)

\* Faulty: attempts found in the database get no collector.
ResumeUncollected(l) ==
    /\ pc[l] = "resume"
    /\ Goto(l, IF payment = NoPayment THEN "aborted" ELSE "fetch")
    /\ UNCHANGED <<payment, switchVars, routerUp, snap, cur, tracker, session,
                   collVars, amt, crashes>>

\* Before the loop: collect the results of the attempts already in flight.
Resume(l) ==
    /\ pc[l] = "resume"
    /\ IF payment = NoPayment
         THEN Goto(l, "aborted") /\ UNCHANGED collector
         ELSE /\ Goto(l, "fetch")
              /\ collector' = [collector EXCEPT ![l] =
                     [a \in AttemptIds |-> IF a \in InFlightHTLCs(payment)
                                             THEN "lookup" ELSE "none"]]
    /\ UNCHANGED <<payment, switchVars, routerUp, snap, cur, tracker, session,
                   resultCollected, amt, crashes>>

Fetch(l) ==
    /\ pc[l] = "fetch"
    /\ IF payment = NoPayment
         THEN Goto(l, "aborted") /\ UNCHANGED snap
         ELSE Goto(l, "check") /\ snap' = [snap EXCEPT ![l] = payment]
    /\ UNCHANGED <<payment, switchVars, routerUp, cur, tracker, session,
                   collVars, amt, crashes>>

\* FailPayment of a lifecycle that then goes on at next.
FailPayment(l, reason, next) ==
    IF payment = NoPayment
      THEN Goto(l, "aborted") /\ UNCHANGED payment
      ELSE Goto(l, next) /\ payment' = WithReason(payment, reason)

\* checkContext with an expired or cancelled context: the payment is failed
\* and the iteration goes on with the payment fetched before.
CheckContextDone(l) ==
    /\ pc[l] = "check"
    /\ session[l] = "routes"
    /\ FailPayment(l, FailureReasonTimeout, "decide")
    /\ UNCHANGED <<switchVars, routerUp, snap, cur, tracker, session, collVars,
                   amt, crashes>>

\* decideNextStep, on the fetched payment.
DecideNextStep(l) ==
    /\ pc[l] \in {"check", "decide"}
    /\ Goto(l, IF AllowMoreAttemptsErr(snap[l])     THEN "aborted"
               ELSE IF AllowMoreAttempts(snap[l])   THEN "route"
               ELSE IF NeedWaitAttemptsErr(snap[l]) THEN "aborted"
               ELSE IF NeedWaitAttempts(snap[l])    THEN "wait"
               ELSE "finish")
    /\ UNCHANGED <<payment, switchVars, routerUp, snap, cur, tracker, session,
                   collVars, amt, crashes>>

WaitResult(l) ==
    /\ pc[l] = "wait"
    /\ resultCollected[l] # "empty"
    /\ resultCollected' = [resultCollected EXCEPT ![l] = "empty"]
    /\ Goto(l, IF resultCollected[l] = "err" THEN "aborted" ELSE "fetch")
    /\ UNCHANGED <<payment, switchVars, routerUp, snap, cur, tracker, session,
                   collector, amt, crashes>>

\* requestRoute finds none: any error of the set noRouteError.
NoRoute(l) ==
    /\ pc[l] = "route"
    /\ FailPayment(l, FailureReasonNoRoute, "fetch")
    /\ UNCHANGED <<switchVars, routerUp, snap, cur, tracker, session, collVars,
                   amt, crashes>>

\* Any other error of the session, or no attempt can be created.
RouteError(l) ==
    /\ CriticalErrors
    /\ pc[l] = "route"
    /\ session[l] = "routes"
    /\ Goto(l, "aborted")
    /\ UNCHANGED <<payment, switchVars, routerUp, snap, cur, tracker, session,
                   collVars, amt, crashes>>

\* What a route may deliver of the remaining amount of the fetched payment.
RouteAmounts(l) ==
    IF Mpp = NoMpp THEN {RemainingAmt(snap[l])} ELSE 1 .. RemainingAmt(snap[l])

NewAttempt(l, a, amount) ==
    /\ pc[l] = "route"
    /\ session[l] = "routes"
    /\ a \in NextAttemptID
    /\ amount \in RouteAmounts(l)
    /\ htlc' = [htlc EXCEPT ![a] = "allocated"]
    /\ amt' = [amt EXCEPT ![a] = amount]
    /\ tracker' = [tracker EXCEPT ![l] = @ \cup {a}]

\* A route is found and registerAttempt records the attempt, or is refused
\* because the payment changed since it was fetched.
RegisterNewAttempt(l, a, amount) ==
    /\ NewAttempt(l, a, amount)
    /\ IF payment # NoPayment /\ CanRegister(payment, amount, Mpp)
         THEN /\ payment' = WithAttempt(payment, a, amount, Mpp)
              /\ cur' = [cur EXCEPT ![l] = {a}]
              /\ Goto(l, "send")
         ELSE Goto(l, "aborted") /\ UNCHANGED <<payment, cur>>
    /\ UNCHANGED <<answer, result, packet, routerUp, snap, session, collVars,
                   crashes>>

\* sendAttempt: SendHTLC commits the circuit and puts the packet into the
\* link's mailbox; a collector waits for the result.
SendHTLC(l, a) ==
    /\ pc[l] = "send" /\ a \in cur[l]
    /\ htlc' = [htlc EXCEPT ![a] = "half"]
    /\ packet' = [packet EXCEPT ![a] = "add"]
    /\ collector' = [collector EXCEPT ![l][a] = "lookup"]
    /\ cur' = [cur EXCEPT ![l] = {}]
    /\ Goto(l, "fetch")
    /\ UNCHANGED <<payment, answer, result, routerUp, snap, tracker, session,
                   resultCollected, amt, crashes>>

\* SendHTLC fails and leaves no circuit: no usable link, dust exposure, or the
\* circuit is not committed.  handleSwitchErr may find the error terminal.
SendHTLCError(l, a) ==
    /\ pc[l] = "send" /\ a \in cur[l]
    /\ \E next \in {"failpayment", "failattempt"} : Goto(l, next)
    /\ UNCHANGED <<payment, switchVars, routerUp, snap, cur, tracker, session,
                   collVars, amt, crashes>>

\* failPaymentAndAttempt: the payment first.
FailPaymentFirst(l) ==
    /\ pc[l] = "failpayment"
    /\ FailPayment(l, FailureReasonError, "failattempt")
    /\ UNCHANGED <<switchVars, routerUp, snap, cur, tracker, session, collVars,
                   amt, crashes>>

FailLastAttempt(l, a) ==
    /\ pc[l] = "failattempt" /\ a \in cur[l]
    /\ tracker' = [tracker EXCEPT ![l] = @ \ {a}]
    /\ cur' = [cur EXCEPT ![l] = {}]
    /\ IF payment # NoPayment /\ CanUpdateHtlc(payment, a)
         THEN Goto(l, "fetch") /\ payment' = WithFailure(payment, a)
         ELSE Goto(l, "aborted") /\ UNCHANGED payment
    /\ UNCHANGED <<switchVars, routerUp, snap, session, collVars, amt, crashes>>

\* After the loop: DeleteFailedAttempts, then the outcome that TerminalInfo
\* finds in the fetched payment.
Finish(l) ==
    /\ pc[l] = "finish"
    /\ IF /\ ~KeepFailedPaymentAttempts
          /\ payment # NoPayment
          /\ Removable(PaymentStatus(payment))
         THEN payment' = WithoutFailedHTLCs(payment)
         ELSE UNCHANGED payment
    /\ Goto(l, IF HasSettledHTLC(snap[l]) THEN "succeeded" ELSE "failed")
    /\ UNCHANGED <<switchVars, routerUp, snap, cur, tracker, session, collVars,
                   amt, crashes>>

-----------------------------------------------------------------------------
(* The goroutine of collectResultAsync(l, a).                              *)

CollectorGoto(l, a, at) == collector' = [collector EXCEPT ![l][a] = at]

\* The collector may see that its lifecycle has stopped.
Stopped(l) == pc[l] \in Final

CircuitExists(a) == htlc[a] \in {"half", "out", "answered", "acked"}

\* Faulty: only circuits that the link opened are known.
LookupOpenOnly(l, a) ==
    /\ collector[l][a] = "lookup"
    /\ CollectorGoto(l, a, IF a \notin tracker[l] THEN "failattempt"
                           ELSE IF htlc[a] = "out" THEN "wait" ELSE "get")
    /\ UNCHANGED <<payment, switchVars, routerUp, lifeVars, resultCollected,
                   amt, crashes>>

\* collectResult up to LookupCircuit in GetAttemptResult.  An attempt the
\* shard tracker does not know is failed.
LookupCircuit(l, a) ==
    /\ collector[l][a] = "lookup"
    /\ CollectorGoto(l, a, IF a \notin tracker[l] THEN "failattempt"
                           ELSE IF CircuitExists(a) THEN "wait" ELSE "get")
    /\ UNCHANGED <<payment, switchVars, routerUp, lifeVars, resultCollected,
                   amt, crashes>>

\* A settled result leads to SettleAttempt; a failed one to failAttempt, by
\* way of FailPayment if handleSwitchErr finds the failure terminal.
HandleResult(l, a) ==
    \/ /\ result[a] = "settle"
       /\ CollectorGoto(l, a, "settle")
    \/ /\ result[a] = "fail"
       /\ \E next \in {"failpayment", "failattempt"} : CollectorGoto(l, a, next)

\* No circuit: getResult answers at once, possibly ErrPaymentIDNotFound.
GetResult(l, a) ==
    /\ collector[l][a] = "get"
    /\ \/ HandleResult(l, a)
       \/ result[a] = "none" /\ CollectorGoto(l, a, "failattempt")
    /\ UNCHANGED <<payment, switchVars, routerUp, lifeVars, resultCollected,
                   amt, crashes>>

\* subscribeResult returns a stored result at once, otherwise storeResult
\* delivers it.
ReceiveResult(l, a) ==
    /\ collector[l][a] = "wait"
    /\ HandleResult(l, a)
    /\ UNCHANGED <<payment, switchVars, routerUp, lifeVars, resultCollected,
                   amt, crashes>>

QuitWaiting(l, a) ==
    /\ collector[l][a] = "wait"
    /\ Stopped(l)
    /\ CollectorGoto(l, a, "err")
    /\ UNCHANGED <<payment, switchVars, routerUp, lifeVars, resultCollected,
                   amt, crashes>>

\* Faulty: the attempt is failed before the payment.
CollectorFailAttemptFirst(l, a) ==
    /\ collector[l][a] = "failpayment"
    /\ IF payment = NoPayment
         THEN CollectorGoto(l, a, "err") /\ UNCHANGED payment
       ELSE IF CanUpdateHtlc(payment, a)
         THEN payment' = WithFailure(payment, a) /\ UNCHANGED collector
       ELSE /\ CollectorGoto(l, a, "nil")
            /\ payment' = WithReason(payment, FailureReasonError)
    /\ UNCHANGED <<switchVars, routerUp, lifeVars, resultCollected, amt,
                   crashes>>

CollectorFailPayment(l, a) ==
    /\ collector[l][a] = "failpayment"
    /\ IF payment = NoPayment
         THEN CollectorGoto(l, a, "err") /\ UNCHANGED payment
         ELSE /\ CollectorGoto(l, a, "failattempt")
              /\ payment' = WithReason(payment, FailureReasonError)
    /\ UNCHANGED <<switchVars, routerUp, lifeVars, resultCollected, amt,
                   crashes>>

\* The transaction that ends collectResult; an attempt that cannot be updated
\* makes it return an error.
Record(l, a, updated) ==
    IF payment # NoPayment /\ CanUpdateHtlc(payment, a)
      THEN CollectorGoto(l, a, "nil") /\ payment' = updated
      ELSE CollectorGoto(l, a, "err") /\ UNCHANGED payment

CollectorFailAttempt(l, a) ==
    /\ collector[l][a] = "failattempt"
    /\ Record(l, a, WithFailure(payment, a))
    /\ tracker' = [tracker EXCEPT ![l] = @ \ {a}]
    /\ UNCHANGED <<switchVars, routerUp, pc, snap, cur, session,
                   resultCollected, amt, crashes>>

CollectorSettleAttempt(l, a) ==
    /\ collector[l][a] = "settle"
    /\ Record(l, a, WithSettle(payment, a))
    /\ UNCHANGED <<switchVars, routerUp, lifeVars, resultCollected, amt,
                   crashes>>

\* Faulty: only errors are signalled.
SignalErrors(l, a) ==
    /\ collector[l][a] \in {"nil", "err"}
    /\ \/ /\ resultCollected[l] = "empty"
          /\ resultCollected' = IF collector[l][a] = "nil" THEN resultCollected
                                ELSE [resultCollected EXCEPT ![l] = "err"]
       \/ Stopped(l) /\ UNCHANGED resultCollected
    /\ CollectorGoto(l, a, "none")
    /\ UNCHANGED <<payment, switchVars, routerUp, lifeVars, amt, crashes>>

\* Faulty: the collector does not look whether its lifecycle stopped.
SignalUnstoppable(l, a) ==
    /\ collector[l][a] \in {"nil", "err"}
    /\ resultCollected[l] = "empty"
    /\ resultCollected' = [resultCollected EXCEPT ![l] = collector[l][a]]
    /\ CollectorGoto(l, a, "none")
    /\ UNCHANGED <<payment, switchVars, routerUp, lifeVars, amt, crashes>>

\* Block until there is room in the channel or the lifecycle stops.
Signal(l, a) ==
    /\ collector[l][a] \in {"nil", "err"}
    /\ \/ /\ resultCollected[l] = "empty"
          /\ resultCollected' = [resultCollected EXCEPT ![l] = collector[l][a]]
       \/ Stopped(l) /\ UNCHANGED resultCollected
    /\ CollectorGoto(l, a, "none")
    /\ UNCHANGED <<payment, switchVars, routerUp, lifeVars, amt, crashes>>

-----------------------------------------------------------------------------
(* The outgoing link and the network.                                      *)

switchOnly == <<payment, routerUp, lifeVars, collVars, amt, crashes>>

\* The link adds the HTLC to its channel, opens the circuit and signs.
LinkAdd(a) ==
    /\ packet[a] = "add"
    /\ packet' = [packet EXCEPT ![a] = "none"]
    /\ htlc' = [htlc EXCEPT ![a] = "out"]
    /\ UNCHANGED <<answer, result, switchOnly>>

\* The link cannot add it, or the packet expires in the mailbox.
LinkFail(a) ==
    /\ packet[a] = "add"
    /\ packet' = [packet EXCEPT ![a] = "fail"]
    /\ UNCHANGED <<htlc, answer, result, switchOnly>>

\* The peer's settle or fail is locked in, in the link's forwarding package.
NetworkAnswer(a, msg) ==
    /\ htlc[a] = "out"
    /\ htlc' = [htlc EXCEPT ![a] = "answered"]
    /\ answer' = [answer EXCEPT ![a] = msg]
    /\ UNCHANGED <<result, packet, switchOnly>>

-----------------------------------------------------------------------------
(* The switch and the answer of a local payment.                           *)

\* closeCircuit lets one response through.  Answers are forwarded again after
\* a restart until they are acknowledged; local failures are not.
CloseCircuit(a) ==
    /\ \/ htlc[a] = "half" /\ packet[a] = "fail"
       \/ htlc[a] = "answered" /\ packet[a] = "none"
    /\ packet' = [packet EXCEPT ![a] = "closed"]
    /\ UNCHANGED <<htlc, answer, result, switchOnly>>

\* handleLocalResponse: the result is stored before the answer is
\* acknowledged, and the circuit is deleted last.
StoreResult(a) ==
    /\ packet[a] = "closed"
    /\ result' = [result EXCEPT ![a] = IF htlc[a] = "half" THEN "fail"
                                       ELSE answer[a]]
    /\ packet' = [packet EXCEPT ![a] = "stored"]
    /\ UNCHANGED <<htlc, answer, switchOnly>>

\* Faulty: the answer is acknowledged before its result is stored.
AckUnstored(a) ==
    /\ htlc[a] = "answered" /\ packet[a] \in {"closed", "stored"}
    /\ htlc' = [htlc EXCEPT ![a] = "acked"]
    /\ UNCHANGED <<answer, result, packet, switchOnly>>

AckSettleFail(a) ==
    /\ htlc[a] = "answered" /\ packet[a] = "stored"
    /\ htlc' = [htlc EXCEPT ![a] = "acked"]
    /\ UNCHANGED <<answer, result, packet, switchOnly>>

\* Faulty: the circuit is deleted as soon as it is closing.
TeardownUnstored(a) ==
    /\ htlc[a] \in {"half", "answered", "acked"}
    /\ packet[a] \in {"closed", "stored"}
    /\ htlc' = [htlc EXCEPT ![a] = "gone"]
    /\ packet' = [packet EXCEPT ![a] = "none"]
    /\ UNCHANGED <<answer, result, switchOnly>>

TeardownCircuit(a) ==
    /\ htlc[a] \in {"half", "acked"} /\ packet[a] = "stored"
    /\ htlc' = [htlc EXCEPT ![a] = "gone"]
    /\ packet' = [packet EXCEPT ![a] = "none"]
    /\ UNCHANGED <<answer, result, switchOnly>>

-----------------------------------------------------------------------------
(* The process dies.  The switch is up again before the router: it forwards*)
(* unacknowledged answers, but circuits that were not opened stay as they  *)
(* are, the mailbox that held their packet is gone.                        *)

Crash ==
    /\ crashes < MaxCrashes
    /\ crashes' = crashes + 1
    /\ routerUp' = FALSE
    /\ packet' = [a \in AttemptIds |-> "none"]
    /\ pc' = [l \in Lifecycles |->
                 IF pc[l] \in Final \cup {"idle"} THEN pc[l] ELSE "killed"]
    /\ snap' = [l \in Lifecycles |-> NoPayment]
    /\ cur' = [l \in Lifecycles |-> {}]
    /\ tracker' = [l \in Lifecycles |-> {}]
    /\ resultCollected' = [l \in Lifecycles |-> "empty"]
    /\ collector' = [l \in Lifecycles |-> [a \in AttemptIds |-> "none"]]
    /\ UNCHANGED <<payment, htlc, answer, result, session, amt>>

\* Faulty: the result store is emptied.
StartRouterCleansAll ==
    /\ ~routerUp
    /\ routerUp' = TRUE
    /\ result' = [a \in AttemptIds |-> "none"]
    /\ IF payment = NoPayment \/ Terminated(payment)
         THEN UNCHANGED <<pc, tracker, session>>
         ELSE \E l \in NextLifecycle :
              /\ Goto(l, "resume")
              /\ tracker' = [tracker EXCEPT ![l] = HTLCs(payment)]
              /\ session' = [session EXCEPT ![l] = "empty"]
    /\ UNCHANGED <<payment, htlc, answer, packet, snap, cur, collVars, amt,
                   crashes>>

\* ChannelRouter.Start: clean the result store but for the attempts of a
\* payment that is not terminated, and resume such a payment with an empty
\* session and the hashes of its attempts.
StartRouter ==
    /\ ~routerUp
    /\ routerUp' = TRUE
    /\ IF payment = NoPayment \/ Terminated(payment)
         THEN /\ result' = [a \in AttemptIds |-> "none"]
              /\ UNCHANGED <<pc, tracker, session>>
         ELSE \E l \in NextLifecycle :
              /\ result' = [a \in AttemptIds |->
                     IF a \in HTLCs(payment) THEN result[a] ELSE "none"]
              /\ Goto(l, "resume")
              /\ tracker' = [tracker EXCEPT ![l] = HTLCs(payment)]
              /\ session' = [session EXCEPT ![l] = "empty"]
    /\ UNCHANGED <<payment, htlc, answer, packet, snap, cur, collVars, amt,
                   crashes>>

-----------------------------------------------------------------------------

Lifecycle(l) ==
    \/ Resume(l) \/ Fetch(l) \/ CheckContextDone(l) \/ DecideNextStep(l)
    \/ WaitResult(l) \/ NoRoute(l) \/ RouteError(l)
    \/ \E a \in AttemptIds, amount \in 1 .. Value :
           RegisterNewAttempt(l, a, amount)
    \/ \E a \in AttemptIds : \/ SendHTLC(l, a)
                             \/ SendHTLCError(l, a)
                             \/ FailLastAttempt(l, a)
    \/ FailPaymentFirst(l) \/ Finish(l)

Collector(l, a) ==
    \/ LookupCircuit(l, a) \/ GetResult(l, a) \/ ReceiveResult(l, a)
    \/ QuitWaiting(l, a) \/ CollectorFailPayment(l, a)
    \/ CollectorFailAttempt(l, a) \/ CollectorSettleAttempt(l, a)
    \/ Signal(l, a)

Link(a) == LinkAdd(a) \/ LinkFail(a)

Network(a) == \E msg \in {"settle", "fail"} : NetworkAnswer(a, msg)

Switch(a) == \/ CloseCircuit(a) \/ StoreResult(a)
             \/ AckSettleFail(a) \/ TeardownCircuit(a)

LifecycleNext ==
    \/ \E l \in Lifecycles : SendPayment(l) \/ Lifecycle(l)
    \/ CallDeletePayment
    \/ \E l \in Lifecycles, a \in AttemptIds : Collector(l, a)
    \/ \E a \in AttemptIds : Link(a) \/ Network(a) \/ Switch(a)
    \/ Crash \/ StartRouter

LifecycleSpec == LifecycleInit /\ [][LifecycleNext]_lifecycleVars

\* Goroutines run, mailboxes deliver or expire their packets, and every HTLC
\* is resolved at the latest on chain when it expires.
Fairness ==
    /\ \A l \in Lifecycles : WF_lifecycleVars(Lifecycle(l))
    /\ \A l \in Lifecycles, a \in AttemptIds : WF_lifecycleVars(Collector(l, a))
    /\ \A a \in AttemptIds :
           /\ WF_lifecycleVars(Link(a))
           /\ WF_lifecycleVars(Network(a))
           /\ WF_lifecycleVars(Switch(a))
    /\ WF_lifecycleVars(StartRouter)

FairSpec == LifecycleSpec /\ Fairness

-----------------------------------------------------------------------------
(* Safety.                                                                 *)

\* The receiver may still claim the HTLC of the attempt: it is about to be
\* sent, waits in the mailbox or left the node.
Live == {a \in AttemptIds :
            \/ packet[a] = "add"
            \/ htlc[a] = "out"
            \/ \E l \in Lifecycles : pc[l] = "send" /\ a \in cur[l]}

Paid == {a \in AttemptIds : answer[a] = "settle"}

AmtOf(S) == MapThenSumSet(LAMBDA a : amt[a], S)

\* What the receiver claimed and may still claim never exceeds the payment,
\* for any interleaving of the lifecycle with its collectors and for restarts
\* at any point ("prevent duplicate payments to the same payment hash").
NoOverpay == AmtOf(Live \cup Paid) <= Value

\* The database agrees with the network: what it calls failed can never be
\* claimed, what it calls settled was (a result must not be lost between the
\* switch's store, the forwarding package and the circuit map).
RecordsTrue ==
    payment # NoPayment =>
        /\ FailedHTLCs(payment) \cap (Live \cup Paid) = {}
        /\ SettledHTLCs(payment) \subseteq Paid

\* The caller of a lifecycle is told the truth: a preimage means the payment
\* was claimed, a failure reason means nothing was and nothing can be claimed.
OutcomeTrue ==
    \A l \in Lifecycles :
        /\ pc[l] = "succeeded" => Paid # {}
        /\ pc[l] = "failed" => Live \cup Paid = {}

\* A lifecycle that waits for a result will be woken: a signal is there, or a
\* collector that has not delivered its own.
WaitHasCollector ==
    \A l \in Lifecycles : pc[l] = "wait" =>
        \/ resultCollected[l] # "empty"
        \/ \E a \in AttemptIds : collector[l][a] # "none"

\* A terminal answer ends the retries: while a collector has yet to fail the
\* payment for it, no attempt is registered in the place of the one that got
\* it, so that is still in flight ("another goroutine might make another
\* attempt while we are failing the payment", failPaymentAndAttempt).
NoRetryAfterTerminal ==
    [][\A l, k \in Lifecycles, a \in AttemptIds :
           collector[k][a] = "failpayment" /\ ~(cur'[l] \subseteq cur[l])
           => a \in InFlightHTLCs(payment)]_lifecycleVars

Running(l) == pc[l] \notin Final \cup {"idle", "killed"}

\* Every lifecycle comes to an end: it is never stuck on a result that does
\* not arrive, nor on the channel its collectors signal through.
LifecycleEnds == \A l \in Lifecycles : Running(l) ~> ~Running(l)

\* The attempts a crash lost between the commit of the circuit and the link:
\* the circuit is on disk, the packet was in the mailbox's memory only.
Lost == {a \in AttemptIds : htlc[a] = "half" /\ packet[a] = "none"}

Collecting(l) == \E a \in AttemptIds : collector[l][a] # "none"

\* Across a restart, too, every lifecycle comes to an end, and no collector
\* outlives it for ever (the channel has room for one signal only, the others
\* leave when the lifecycle stops), except when the crash lost an attempt: no
\* answer ever arrives for that one.
EndsUnlessLost ==
    \A l \in Lifecycles :
        Running(l) \/ Collecting(l) ~> ~(Running(l) \/ Collecting(l)) \/ Lost # {}

\* An attempt in flight is resolved in the database by the lifecycle that
\* sent it or by the one that resumes it after a restart.
AttemptsResolve ==
    \A a \in AttemptIds :
        (payment # NoPayment /\ a \in InFlightHTLCs(payment)) ~>
            ~(payment # NoPayment /\ a \in InFlightHTLCs(payment))

\* A settled HTLC is recorded as settled, also when a crash and the restart
\* fall between the switch's own steps or before the result is collected.  The
\* exception is a lifecycle that gave up with an error.
PaidRecorded ==
    \A a \in AttemptIds :
        answer[a] = "settle" ~>
            \/ payment # NoPayment /\ a \in SettledHTLCs(payment)
            \/ \E l \in Lifecycles : pc[l] = "aborted"


-----------------------------------------------------------------------------
(* Refinement.                                                             *)

Phase ==
    IF payment = NoPayment THEN "none"
    ELSE CASE PaymentStatus(payment) = "Succeeded" -> "succeeded"
           [] PaymentStatus(payment) = "Failed"    -> "failed"
           [] OTHER                                -> "pending"

Ideal == INSTANCE IdealPayment
    WITH phase <- Phase, live <- AmtOf(Live), paid <- AmtOf(Paid)

\* Sending a payment implements what IdealPayment promises.
ImplementsIdeal == Ideal!Spec
=============================================================================
