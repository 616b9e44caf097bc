---------------------------- MODULE InvoiceRegistry ----------------------------
(***************************************************************************)
(* The invoice registry (invoices/invoiceregistry.go), its expiry watcher  *)
(* and the links that are the exit hop of payments to one invoice.         *)
(*                                                                         *)
(* A link's goroutine calls NotifyExitHopHtlc for each HTLC and is told to *)
(* settle, to fail or to hold it; a held HTLC is answered later through a  *)
(* queue of the link.  RPCs settle or cancel the invoice, the event loop   *)
(* releases an HTLC whose set stays incomplete, the watcher cancels the    *)
(* invoice.  All but the event loop hold the registry's lock meanwhile.    *)
(* Links go down and come back and then ask again for every HTLC without a *)
(* committed answer; so they do after a restart of the node.               *)
(***************************************************************************)
EXTENDS Invoice

CONSTANTS
    Link,         \* channels the HTLCs arrive on
    LinkOf,       \* the channel of each HTLC
    Payloads,     \* what the HTLCs may carry, see Amount
    ExpiryDelta,  \* blockExpiryDelta of the watcher
    GcOnTheFly,   \* GcCanceledInvoicesOnTheFly
    MaxHeight,    \* bound: last block
    MaxFlaps,     \* bound: times a link stops
    MaxFaults,    \* bound: times a link or the whole node stops
    None

ASSUME InvoiceRegistryAssumption ==
    /\ LinkOf \in [Htlc -> Link]
    /\ Payloads \subseteq [Htlc -> [amt : Nat, total : Nat, expiry : Nat]]
    /\ Value \in Nat /\ FinalCltvDelta \in Nat /\ ExpiryDelta \in Nat
    /\ GcOnTheFly \in BOOLEAN
    /\ MaxHeight \in Nat /\ MaxFlaps \in Nat /\ MaxFaults \in Nat
    /\ None \notin Htlc \cup Link \cup {"rpc", "loop", "watcher"}
    /\ {"rpc", "loop", "watcher"} \cap Link = {}

VARIABLES
    payload,   \* what each HTLC carries; never changes
    invoice,   \* on disk
    answer,    \* what the link answered to each HTLC: see Answer
    revealed,  \* HTLCs whose preimage was sent to the peer
    link,      \* memory of each link
    registry,  \* memory of the registry and of the watcher
    call,      \* where each goroutine stands
    height, flaps, restarts,
    duplicates \* history: HTLCs that came to an invoice accepted already,
               \* since the node started

vars == <<payload, invoice, answer, revealed, link, registry, call,
          height, flaps, restarts, duplicates>>

\* The goroutine of each link, RPCs, the event loop and the expiry watcher.
Caller == Link \cup {"rpc", "loop", "watcher"}

\* Lost when the link stops before the answer is committed.
Answer == {"none", "settle", "fail"}

\* An incarnation of the link's hodlQueue.
Queue == Link \X (0..MaxFlaps)
QueueOf(l) == <<l, link[l].incarnation>>
Alive(q) == QueueOf(q[1]) = q /\ link[q[1]].stopping # "queue"

Idle == [at |-> "idle", todo |-> {}, htlc |-> None, res |-> None, expiry |-> 0]

NewLink(incarnation) ==
    [incarnation |-> incarnation, stopping |-> "no", hodlQueue |-> {},
     hodlMap |-> {}, asked |-> {}, committed |-> {}]

\* Mutant: only open invoices count as pending.
ScanOpenOnly(inv) ==
    [lock |-> None, mux |-> "free", subs |-> {},
     timers |-> [h \in Htlc |-> 0],
     timestamp |-> inv.state = "Open", heights |-> {}]

\* scanInvoicesOnStart fills the watcher from the pending invoices.
NewRegistry(inv) ==
    [lock |-> None, mux |-> "free", subs |-> {},
     timers |-> [h \in Htlc |-> 0],
     timestamp |-> inv.state = "Open",
     heights |-> IF inv.state = "Accepted" /\ inv.hodl
                   THEN {MinExpiry(inv, payload)} \ {0} ELSE {}]

Init ==
    /\ payload \in Payloads
    /\ invoice = NoInvoice("Absent")
    /\ answer = [h \in Htlc |-> "none"]
    /\ revealed = {}
    /\ link = [l \in Link |-> NewLink(0)]
    /\ registry = NewRegistry(NoInvoice("Absent"))
    /\ call = [p \in Caller |-> Idle]
    /\ height = 0 /\ flaps = 0 /\ restarts = 0
    /\ duplicates = {}

---------------------------------------------------------------------------
\* The lock of the registry, and a goroutine's way through a call.
Locked(p) == registry.lock = None /\ call[p].at = "idle"
At(p, at) == call[p].at = at
Step(p, at) == call' = [call EXCEPT ![p].at = at]

Resolution(kind, htlcs) == {[kind |-> kind, htlc |-> h] : h \in htlcs}
Notifying(res, todo) == [Idle EXCEPT !.at = "notify", !.todo = todo, !.res = res]

\* notifyHodlSubscribers, for one resolution of the caller's list: everybody
\* subscribed to the HTLC gets it and is unsubscribed.  The send blocks when
\* the queue does not run any more, with the mutex held.
notifyHodlSubscribers(p) ==
    /\ At(p, "notify")
    /\ registry.mux = "free"
    /\ \E r \in call[p].todo :
        LET queues == {s[2] : s \in {t \in registry.subs : t[1] = r.htlc}}
            deliver(l) == QueueOf(l) \in queues
        IN  IF \A q \in queues : Alive(q)
              THEN /\ link' = [l \in Link |->
                        IF deliver(l)
                        THEN [link[l] EXCEPT !.hodlQueue = @ \cup {r}]
                        ELSE link[l]]
                   /\ registry' = [registry EXCEPT
                        !.subs = {s \in @ : s[1] # r.htlc}]
                   /\ call' = [call EXCEPT ![p].todo = @ \ {r}]
              ELSE /\ registry' = [registry EXCEPT !.mux = "stuck"]
                   /\ UNCHANGED <<link, call>>
    /\ UNCHANGED <<payload, duplicates, invoice, answer, revealed, height, flaps, restarts>>

\* The link answers its peer.
Reply(h, kind) ==
    /\ answer' = [answer EXCEPT ![h] = kind]
    /\ revealed' = IF kind = "settle" THEN revealed \cup {h} ELSE revealed

\* All were notified: the lock is released and the call returns.  A canceled
\* invoice may be deleted before that.
FinishNotify(p) ==
    /\ At(p, "notify")
    /\ call[p].todo = {}
    /\ call' = [call EXCEPT ![p] = Idle]
    /\ registry' = [registry EXCEPT !.lock = IF @ = p THEN None ELSE @]
    /\ IF p \in Link
         THEN Reply(call[p].htlc, call[p].res.kind) /\ UNCHANGED invoice
         ELSE /\ UNCHANGED <<answer, revealed>>
              /\ invoice' = IF call[p].res = "cancel" /\ GcOnTheFly
                              THEN NoInvoice("Deleted") ELSE invoice
    /\ UNCHANGED <<payload, duplicates, link, height, flaps, restarts>>

---------------------------------------------------------------------------
\* NotifyExitHopHtlc, called by the link's goroutine for an HTLC that is
\* locked in, and again for every HTLC without a committed answer after the
\* link came back.

\* Mutant: the other HTLCs of the set are not told.
NobodyElse(inv, res) == {}

\* The resolutions that go with a direct answer.
AlsoResolved(inv, res) ==
    IF res.kind = "settle" THEN Resolution("settle", HTLCSet(inv, "Settled"))
    ELSE IF IsSetFailure(res) THEN Resolution("fail", HTLCSet(inv, "Canceled"))
    ELSE {}

NotifyExitHopHtlc(h) ==
    LET l == LinkOf[h]
        u == updateInvoice(invoice, payload, h, height)
    IN  /\ Locked(l)
        /\ h \notin link[l].asked \cup link[l].committed
        /\ invoice' = u.invoice
        /\ link' = [link EXCEPT ![l].asked = @ \cup {h}]
        /\ registry' = [registry EXCEPT !.lock = l]
        /\ call' = [call EXCEPT ![l] =
            IF u.res.kind = "hold"
            THEN [Idle EXCEPT !.at = "subscribe", !.htlc = h, !.res = u.res,
                    !.expiry = IF u.invoice.hodl THEN MinExpiry(u.invoice, payload)
                                                 ELSE 0]
            ELSE [Notifying(u.res, AlsoResolved(u.invoice, u.res))
                    EXCEPT !.htlc = h]]
        /\ duplicates' = IF u.res.outcome = "DuplicateToAccepted"
                           THEN duplicates \cup {h} ELSE duplicates
        /\ UNCHANGED <<payload, answer, revealed, height, flaps, restarts>>

\* What is left to do once the lock is released: register with the watcher,
\* start the timer that releases the HTLC, or neither.
AfterSubscribe(res, state) ==
    IF res.outcome = "Accepted" THEN "expiry"
    ELSE IF state = "Open" THEN "timer" ELSE "hold"

\* hodlSubscribe, and the lock is released.  "state" is what the invoice was
\* in the transaction, which a replay or a partial payment did not change.
hodlSubscribe(l) ==
    /\ At(l, "subscribe")
    /\ registry.mux = "free"
    /\ registry' = [registry EXCEPT
            !.subs = @ \cup {<<call[l].htlc, QueueOf(l)>>}, !.lock = None]
    /\ Step(l, AfterSubscribe(call[l].res, invoice.state))
    /\ UNCHANGED <<payload, duplicates, invoice, answer, revealed, link, height, flaps, restarts>>

Hold(l) ==
    /\ link' = [link EXCEPT ![l].hodlMap = @ \cup {call[l].htlc}]
    /\ call' = [call EXCEPT ![l] = Idle]
    /\ UNCHANGED <<payload, duplicates, invoice, answer, revealed, height, flaps, restarts>>

\* The watcher and the event loop take what the link hands them between two
\* of their own steps.
RegisterExpiry(l) ==
    /\ At(l, "expiry") /\ At("watcher", "idle")
    /\ registry' = [registry EXCEPT !.heights = @ \cup ({call[l].expiry} \ {0})]
    /\ Hold(l)

startHtlcTimer(l) ==
    /\ At(l, "timer") /\ At("loop", "idle")
    /\ registry' = [registry EXCEPT !.timers[call[l].htlc] = @ + 1]
    /\ Hold(l)

JustHold(l) == At(l, "hold") /\ Hold(l) /\ UNCHANGED registry

\* processHodlQueue: an answer for an HTLC the link holds.
processHodlQueue(l) ==
    /\ At(l, "idle")
    /\ \E r \in link[l].hodlQueue :
        /\ link' = [link EXCEPT ![l].hodlQueue = @ \ {r},
                                ![l].hodlMap = @ \ {r.htlc}]
        /\ Reply(r.htlc, r.kind)
    /\ UNCHANGED <<payload, duplicates, invoice, registry, call, height, flaps, restarts>>

\* The channel commits to an answer: it survives the link.
Commit(h) ==
    LET l == LinkOf[h]
    IN  /\ At(l, "idle") /\ link[l].stopping = "no"
        /\ answer[h] # "none" /\ h \notin link[l].committed
        /\ link' = [link EXCEPT ![l].committed = @ \cup {h}]
        /\ UNCHANGED <<payload, duplicates, invoice, answer, revealed, registry, call,
                       height, flaps, restarts>>

---------------------------------------------------------------------------
\* The event loop releases an HTLC of an incomplete set (cancelSingleHtlc).
\* It does not take the lock of the registry.
AutoRelease(h) ==
    /\ At("loop", "idle")
    /\ registry.timers[h] > 0
    /\ registry' = [registry EXCEPT !.timers[h] = @ - 1]
    /\ IF CanRelease(invoice, h)
         THEN /\ invoice' = cancelHTLC(invoice, h)
              /\ call' = [call EXCEPT !["loop"] =
                    Notifying("release", Resolution("fail", {h}))]
         ELSE UNCHANGED <<invoice, call>>
    /\ UNCHANGED <<payload, duplicates, answer, revealed, link, height, flaps, restarts>>

\* cancelInvoiceImpl, by an RPC or by the watcher.
cancelInvoiceImpl(p, cancelAccepted) ==
    IF CanCancel(invoice, cancelAccepted)
    THEN LET inv == cancelInvoice(invoice)
         IN  /\ invoice' = inv
             /\ call' = [call EXCEPT ![p] =
                    Notifying("cancel", Resolution("fail", HTLCSet(inv, "Canceled")))]
    ELSE UNCHANGED <<invoice, call>>

Cancelling(p, cancelAccepted, rest) ==
    /\ Locked(p)
    /\ cancelInvoiceImpl(p, cancelAccepted)
    /\ registry' = [rest EXCEPT
            !.lock = IF CanCancel(invoice, cancelAccepted) THEN p ELSE @]
    /\ UNCHANGED <<payload, duplicates, answer, revealed, link, height, flaps, restarts>>

CancelInvoice ==
    CanCancel(invoice, TRUE) /\ Cancelling("rpc", TRUE, registry)

\* The watcher: the invoice's own expiry, and the expiry of held HTLCs.
cancelNextExpiredInvoice ==
    /\ registry.timestamp
    /\ Cancelling("watcher", FALSE, [registry EXCEPT !.timestamp = FALSE])

cancelNextHeightExpiredInvoice ==
    \E e \in registry.heights :
        /\ height + ExpiryDelta >= e
        /\ Cancelling("watcher", TRUE, [registry EXCEPT !.heights = @ \ {e}])

SettleHodlInvoice ==
    /\ Locked("rpc")
    /\ CanSettleHodl(invoice)
    /\ LET inv == settleHodlInvoice(invoice, payload)
       IN  /\ invoice' = inv
           /\ call' = [call EXCEPT !["rpc"] =
                Notifying("settle", Resolution("settle", HTLCSet(inv, "Settled")))]
    /\ registry' = [registry EXCEPT !.lock = "rpc"]
    /\ UNCHANGED <<payload, duplicates, answer, revealed, link, height, flaps, restarts>>

\* AddInvoice: the watcher is told after the lock is released.
AddInvoice(hodl) ==
    /\ Locked("rpc")
    /\ invoice.state = "Absent"
    /\ invoice' = NewInvoice(hodl)
    /\ Step("rpc", "expiry")
    /\ UNCHANGED <<payload, duplicates, answer, revealed, link, registry, height, flaps, restarts>>

WatchInvoice ==
    /\ At("rpc", "expiry") /\ At("watcher", "idle")
    /\ registry' = [registry EXCEPT !.timestamp = TRUE]
    /\ call' = [call EXCEPT !["rpc"] = Idle]
    /\ UNCHANGED <<payload, duplicates, invoice, answer, revealed, link, height, flaps, restarts>>

---------------------------------------------------------------------------
NewBlock ==
    /\ height < MaxHeight
    /\ height' = height + 1
    /\ UNCHANGED <<payload, duplicates, invoice, answer, revealed, link, registry, call,
                   flaps, restarts>>

\* channelLink.Stop, in a goroutine of its own: HodlUnsubscribeAll, then the
\* queue stops, then it waits for the link's goroutine.
HodlUnsubscribeAll(l) ==
    /\ link[l].stopping = "no"
    /\ flaps < MaxFlaps /\ flaps + restarts < MaxFaults
    /\ registry.mux = "free"
    /\ flaps' = flaps + 1
    /\ registry' = [registry EXCEPT !.subs = {s \in @ : s[2] # QueueOf(l)}]
    /\ link' = [link EXCEPT ![l].stopping = "unsubscribed"]
    /\ UNCHANGED <<payload, duplicates, invoice, answer, revealed, call, height, restarts>>

StopQueue(l) ==
    /\ link[l].stopping = "unsubscribed"
    /\ link' = [link EXCEPT ![l].stopping = "queue"]
    /\ UNCHANGED <<payload, duplicates, invoice, answer, revealed, registry, call,
                   height, flaps, restarts>>

\* Answers that are not committed are gone with the link.
Forget(l) ==
    [h \in Htlc |-> IF LinkOf[h] = l /\ h \notin link[l].committed
                      THEN "none" ELSE answer[h]]

\* The link is gone, and a new one is made for the channel.
RestartLink(l) ==
    /\ link[l].stopping = "queue" /\ At(l, "idle")
    /\ link' = [link EXCEPT ![l] =
            [NewLink(@.incarnation + 1) EXCEPT !.committed = link[l].committed]]
    /\ answer' = Forget(l)
    /\ UNCHANGED <<payload, duplicates, invoice, revealed, registry, call, height, flaps, restarts>>

\* The node stops at any moment and starts again.
Restart ==
    /\ flaps + restarts < MaxFaults
    /\ restarts' = restarts + 1
    /\ link' = [l \in Link |->
            [NewLink(link[l].incarnation) EXCEPT !.committed = link[l].committed]]
    /\ answer' = [h \in Htlc |-> IF h \in link[LinkOf[h]].committed
                                   THEN answer[h] ELSE "none"]
    /\ registry' = NewRegistry(invoice)
    /\ call' = [p \in Caller |-> Idle]
    /\ duplicates' = {}
    /\ UNCHANGED <<payload, invoice, revealed, height, flaps>>

LinkStep(l) ==
    \/ \E h \in Htlc : LinkOf[h] = l /\ NotifyExitHopHtlc(h)
    \/ hodlSubscribe(l) \/ RegisterExpiry(l) \/ startHtlcTimer(l) \/ JustHold(l)
    \/ processHodlQueue(l)
    \/ \E h \in Htlc : LinkOf[h] = l /\ Commit(h)

StopLink(l) == HodlUnsubscribeAll(l) \/ StopQueue(l) \/ RestartLink(l)

Watcher == cancelNextExpiredInvoice \/ cancelNextHeightExpiredInvoice

Rpc ==
    \/ \E hodl \in BOOLEAN : AddInvoice(hodl)
    \/ WatchInvoice \/ SettleHodlInvoice \/ CancelInvoice

Next ==
    \/ \E l \in Link : LinkStep(l) \/ StopLink(l)
    \/ \E p \in Caller : notifyHodlSubscribers(p) \/ FinishNotify(p)
    \/ \E h \in Htlc : AutoRelease(h)
    \/ Watcher \/ Rpc \/ NewBlock \/ Restart

Spec == Init /\ [][Next]_vars

---------------------------------------------------------------------------
Resolved(h) == ~ Exists(invoice) \/ invoice.htlcs[h] # "Accepted"

\* A preimage is only given away for an invoice that is paid: at least its
\* value, and all of the payment the HTLC is a part of.
PreimageOnlyForPayment ==
    revealed # {} =>
        /\ invoice.state = "Settled"
        /\ invoice.amtPaid = Amount(payload, HTLCSet(invoice, "Settled"))
        /\ \A h \in revealed : /\ invoice.htlcs[h] = "Settled"
                               /\ invoice.amtPaid >= Value
                               /\ invoice.amtPaid >= payload[h].total

\* An HTLC whose preimage the peer has is never failed, whatever link, queue
\* or restart the answer goes through; no answer is given to an HTLC that the
\* invoice still holds; and a link gets answers only for HTLCs it holds, or
\* it would fail the channel.
AnswersFollowInvoice ==
    /\ \A h \in Htlc :
        /\ answer[h] = "fail" => h \notin revealed
        /\ answer[h] # "none" /\ Exists(invoice)
                => invoice.htlcs[h] # "Accepted"
    /\ \A l \in Link :
        At(l, "idle") => \A r \in link[l].hodlQueue : r.htlc \in link[l].hodlMap

\* An HTLC that waits for the rest of its set has a timer that releases it, or
\* its release is on the way.
Releasing(h) ==
    \/ registry.timers[h] > 0
    \/ [kind |-> "fail", htlc |-> h] \in call["loop"].todo

\* An HTLC of a hold invoice that waits for the preimage is known to the
\* watcher, by its own height or an earlier one.
Registering(h) ==
    \E l \in Link : /\ call[l].at \in {"subscribe", "expiry"}
                   /\ call[l].res.outcome = "Accepted"
                   /\ call[l].expiry <= payload[h].expiry
Watched(h) ==
    \/ Registering(h)
    \/ \E e \in registry.heights : e <= payload[h].expiry

\* A duplicate payment that came to an accepted invoice and times out before
\* all that the watcher was told of: updateLegacy holds it, but only the HTLC
\* that completes the invoice is registered.
MissedDuplicate(h) ==
    /\ h \in duplicates
    /\ \A k \in HTLCSet(invoice, "Accepted") \ duplicates :
            payload[h].expiry < payload[k].expiry

\* No link holds an HTLC that nobody will ever release: neither one that waits
\* for the rest of its set, nor one of a hold invoice, which the watcher has to
\* cancel before the first HTLC times out.  The one exception of the code is a
\* duplicate that came later and times out first.
HeldReleased ==
    \A l \in Link : \A h \in link[l].hodlMap :
        invoice.htlcs[h] = "Accepted" =>
            /\ invoice.state = "Open" => Releasing(h)
            /\ invoice.state = "Accepted" => Watched(h) \/ MissedDuplicate(h)

\* What the configuration of hold invoices promises without exception: lnd
\* cancels the invoice a number of blocks before an HTLC it holds times out.
HeldWatched ==
    invoice.state = "Accepted" =>
        \A l \in Link : \A h \in link[l].hodlMap :
            invoice.htlcs[h] = "Accepted" => Watched(h)

\* Once nothing is under way, a link holds only HTLCs that the invoice holds:
\* it was told of every resolution.
Quiet ==
    /\ \A p \in Caller : At(p, "idle")
    /\ \A l \in Link : link[l].hodlQueue = {}
Running(l) == link[l].stopping = "no"
MissesNothing ==
    Quiet => \A l \in Link : Running(l) => \A h \in link[l].hodlMap : ~ Resolved(h)

\* The same while no link ever stopped.
HeldHears == flaps = 0 => MissesNothing

\* No notification ever waits for a queue that is not running.
NeverStuck == registry.mux = "free"
=============================================================================
