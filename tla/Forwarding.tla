----------------------------- MODULE Forwarding -----------------------------
(***************************************************************************)
(* Forwarding of HTLCs from an incoming channel I to an outgoing channel O *)
(* (htlcswitch: switch.go, link.go, mailbox.go, circuit_map.go).           *)
(*                                                                         *)
(* Link I locks an Add in and hands it to the goroutine of the             *)
(* InterceptableSwitch (no interceptor registered), which commits its      *)
(* circuit and routes it: into the mailbox of O, or failed.  Link O takes  *)
(* it, opens the circuit (the keystone) and signs it into a commitment.    *)
(* The answer of the peer of O goes back by way of the circuit into the    *)
(* mailbox of I, whose link removes the HTLC and deletes the circuit.      *)
(* Links stop and start (flap), the node crashes at any step, mailboxes    *)
(* expire undelivered Adds.                                                *)
(*                                                                         *)
(* Every forwarding package holds one update, and the channels' own        *)
(* protocol (commitments, revocations, resynchronisation) is reduced to    *)
(* what the link writes atomically with a signature.                       *)
(***************************************************************************)
EXTENDS CircuitMap, Sequences, SequencesExt

CONSTANTS
    Expiring,     \* HTLCs whose Add may reach its deadline in the mailbox
    Prompt,       \* whether only runs are of interest in which a packet handed
                  \* over is committed before its link goes on
    MaxCrashes, MaxStopsI, MaxStopsO  \* bounds on crashes and flaps

ASSUME ForwardingAssumption ==
    /\ Expiring \subseteq HTLC
    /\ Prompt \in BOOLEAN
    /\ {MaxCrashes, MaxStopsI, MaxStopsO} \subseteq Nat

VARIABLES
    \* On disk: the channels, their forwarding packages, the circuit buckets.
    incoming,    \* HTLCs of I; "locked" has an unacknowledged AddRef
    closedKeys,  \* ClosedCircuitKeys of the last commitment of I, if the
                 \* peer lacks it
    outHtlc,     \* committed HTLCs of O, by index
    committed,   \* NextLocalHtlcIndex of O
    openedKeys,  \* OpenedCircuitKeys of the last commitment of O, unless the
                 \* peer is known to have it
    answer,      \* settles and fails in the forwarding packages of O
    acked,       \* SettleFailRefs acknowledged
    db,          \* buckets of the circuit map
    \* In memory: the switch.
    cm,          \* circuit map
    mail, taken, \* Adds in the mailbox of O, those before addHead
    reply,       \* responses in the mailbox of I
    toRoute,     \* answers on their way into the switch
    forwarding, step, quit,  \* packet at hand, how far it is, linkQuit closed
    \* In memory: link I.
    linkI, offer, replay, removing, deleting, removed,
    \* In memory: link O.
    linkO, stepO, local, nextO, batch, trimmed,
    crashes, stopsI, stopsO,
    \* History.
    again,       \* HTLCs that got a circuit after they were removed
    torn         \* whether a circuit was deleted whose keystone on disk link O
                 \* has not signed

disk == <<incoming, closedKeys, outHtlc, committed, openedKeys, answer, acked>>
mailO == <<mail, taken>>
varsF == <<forwarding, step, quit>>
varsI == <<linkI, offer, replay, removing, deleting, removed>>
varsO == <<linkO, stepO, local, nextO, batch, trimmed>>
bounds == <<crashes, stopsI, stopsO>>
history == <<again, torn>>
vars == <<disk, db, cm, mailO, reply, toRoute, varsF, varsI, varsO, bounds, history>>

Replies == [kind : {"settle", "fail"}, dest : Index \cup {None}]

TypeOK ==
    /\ incoming \in [HTLC -> {"none", "locked", "failed", "settled"}]
    /\ outHtlc \in [Index -> HTLC \cup {None}]
    /\ committed \in 0 .. MaxIndex
    /\ answer \in [Index -> {"none", "settle", "fail"}]
    /\ acked \subseteq Index /\ toRoute \subseteq Index
    /\ closedKeys \subseteq HTLC /\ openedKeys \subseteq HTLC
    /\ db \in Buckets /\ cm \in CircuitMaps
    /\ mail \in Seq(HTLC) /\ taken \subseteq ToSet(mail)
    /\ reply \in [HTLC -> Replies \cup {None}]
    /\ linkI \in {"down", "up", "delete", "deleted"}
    /\ forwarding \in HTLC \cup {None} /\ step \in {"commit", "write", "route"}
    /\ quit \in BOOLEAN /\ offer \in HTLC \cup {None}
    /\ replay \subseteq HTLC /\ removing \subseteq HTLC
    /\ deleting \subseteq HTLC /\ removed \subseteq deleting
    /\ linkO \in {"down", "trimmed", "sync", "up"}
    /\ stepO \in {"idle", "opening", "signed"}
    /\ local \in [Index -> HTLC \cup {None}]
    /\ batch \in committed .. nextO \cup {committed} /\ nextO \in 0 .. MaxIndex
    /\ trimmed \subseteq Index
    /\ again \subseteq HTLC /\ torn \in BOOLEAN

Init ==
    /\ incoming = [h \in HTLC |-> "none"] /\ closedKeys = {}
    /\ outHtlc = [i \in Index |-> None] /\ committed = 0 /\ openedKeys = {}
    /\ answer = [i \in Index |-> "none"] /\ acked = {}
    /\ db = EmptyBuckets /\ cm = EmptyMap
    /\ mail = <<>> /\ taken = {}
    /\ reply = [h \in HTLC |-> None] /\ toRoute = {}
    /\ forwarding = None /\ step = "commit" /\ quit = FALSE
    /\ linkI = "up" /\ offer = None
    /\ replay = {} /\ removing = {} /\ deleting = {} /\ removed = {}
    /\ linkO = "up" /\ stepO = "idle"
    /\ local = [i \in Index |-> None] /\ nextO = 0 /\ batch = 0 /\ trimmed = {}
    /\ crashes = 0 /\ stopsI = 0 /\ stopsO = 0
    /\ again = {} /\ torn = FALSE

-----------------------------------------------------------------------------
(* Mailboxes.                                                              *)

\* AddPacket of a response; ErrPacketAlreadyExists keeps the first.
AddReply(h, r) == reply' = [reply EXCEPT ![h] = IF @ = None THEN r ELSE @]

LocalFail == [kind |-> "fail", dest |-> None]

\* AddPacket of an Add.
AddMail(h) ==
    mail' = IF h \in ToSet(mail) THEN mail ELSE Append(mail, h)

\* The packets of a mailbox that are not in S, in their order.
Without(packets, S) ==
    LET kept == {k \in DOMAIN packets : packets[k] \notin S}
        order == CHOOSE s \in [1 .. Cardinality(kept) -> kept] :
                     \A i, j \in DOMAIN s : i < j => s[i] < s[j]
    IN  [k \in DOMAIN order |-> packets[order[k]]]

\* AckPacket of the Adds in S.
AckMail(S) ==
    /\ mail' = Without(mail, S)
    /\ taken' = taken \ S

\* The Add at addHead.
IsHead(h) ==
    /\ h \in ToSet(mail) \ taken
    /\ \A k \in DOMAIN mail :
           (\A j \in 1 .. k - 1 : mail[j] \in taken) /\ mail[k] \notin taken
               => mail[k] = h

\* FailAdd: the Add leaves the mailbox and the switch fails its circuit,
\* unless another response did.
FailAdd(h) ==
    /\ AckMail({h})
    /\ IF CanFail(cm, h)
       THEN cm' = MarkClosed(cm, h) /\ AddReply(h, LocalFail)
       ELSE UNCHANGED <<cm, reply>>

-----------------------------------------------------------------------------
(* Link I and the switch: forwarding an Add.                               *)

\* The goroutine of link I has nothing to hand over.
Free ==
    /\ linkI = "up" /\ offer = None /\ replay = {}
    /\ Prompt /\ forwarding # None => step # "commit"

\* An Add is locked in and link I offers it to the switch.
LockIn(h) ==
    /\ Free /\ incoming[h] = "none"
    /\ \A g \in HTLC : g < h => incoming[g] # "none"
    /\ incoming' = [incoming EXCEPT ![h] = "locked"]
    /\ offer' = h
    /\ UNCHANGED <<closedKeys, outHtlc, committed, openedKeys, answer, acked,
                   db, cm, mailO, reply, toRoute, varsF, linkI, replay, removing,
                   deleting, removed, varsO, bounds, history>>

\* After a start the unacknowledged Adds are offered again, except those
\* whose response is in the mailbox.
Replay ==
    /\ linkI = "up" /\ offer = None /\ replay # {}
    /\ LET h == Min(replay)
       IN  /\ replay' = replay \ {h}
           /\ offer' = IF reply[h] = None THEN h ELSE None
    /\ UNCHANGED <<disk, db, cm, mailO, reply, toRoute, varsF, linkI, removing,
                   deleting, removed, varsO, bounds, history>>

\* The goroutine of the switch takes the packet link I is blocked on.
Accept ==
    /\ offer # None /\ forwarding = None
    /\ forwarding' = offer /\ step' = "commit" /\ quit' = FALSE
    /\ offer' = None
    /\ UNCHANGED <<disk, db, cm, mailO, reply, toRoute, linkI, replay, removing,
                   deleting, removed, varsO, bounds, history>>

\* The packet at hand is done with.
Done == forwarding' = None /\ quit' = FALSE /\ UNCHANGED step

\* ForwardPackets returns when the link has quit already; CommitCircuits in
\* memory, and failAddPacket when the circuit was half added.
Commit(h) ==
    /\ forwarding = h /\ step = "commit"
    /\ \/ quit /\ Done /\ UNCHANGED <<cm, reply, again>>
       \/ /\ CommitAction(cm, h) = "add"
          /\ cm' = AddPending(cm, h)
          /\ step' = "write"
          /\ again' = IF incoming[h] = "locked" THEN again ELSE again \cup {h}
          /\ UNCHANGED <<forwarding, quit, reply>>
       \/ CommitAction(cm, h) = "drop" /\ Done /\ UNCHANGED <<cm, reply, again>>
       \/ /\ CommitAction(cm, h) = "fail"
          /\ AddReply(h, LocalFail)
          /\ Done /\ UNCHANGED <<cm, again>>
    /\ UNCHANGED <<disk, db, mailO, toRoute, varsI, varsO, bounds, torn>>

\* CommitCircuits on disk.
WriteCircuit(h) ==
    /\ forwarding = h /\ step = "write"
    /\ db' = PutAdd(db, h)
    /\ step' = "route"
    /\ UNCHANGED <<disk, cm, mailO, reply, toRoute, forwarding, quit, varsI,
                   varsO, bounds, history>>

\* handlePacketForward of an Add: into the mailbox of O, or failed by the
\* policy, the state or the dust limits of a link; routeAsync drops the packet
\* of a link that has quit.
Route(h) ==
    /\ forwarding = h /\ step = "route"
    /\ Done
    /\ \/ linkO = "up" /\ AddMail(h) /\ UNCHANGED <<reply, taken>>
       \/ AddReply(h, LocalFail) /\ UNCHANGED mailO
       \/ quit /\ UNCHANGED <<reply, mailO>>
    /\ UNCHANGED <<disk, db, cm, toRoute, varsI, varsO, bounds, history>>

-----------------------------------------------------------------------------
(* Link O: from the mailbox into a commitment.                             *)

IdleO == linkO = "up" /\ stepO = "idle"

\* handleDownstreamUpdateAdd: into the local log, or failed back.
DownstreamAdd(h) ==
    /\ IdleO /\ IsHead(h)
    /\ \/ /\ nextO < MaxIndex
          /\ local' = [local EXCEPT ![nextO] = h]
          /\ nextO' = nextO + 1
          /\ taken' = taken \cup {h}
          /\ UNCHANGED <<mail, cm, reply>>
       \/ FailAdd(h) /\ UNCHANGED <<local, nextO>>
    /\ UNCHANGED <<disk, db, toRoute, varsF, varsI, linkO, stepO, batch, trimmed, bounds, history>>

\* The deadline of the first undelivered Add passes.
Expire(h) ==
    /\ h \in Expiring /\ IsHead(h)
    /\ FailAdd(h)
    /\ UNCHANGED <<disk, db, toRoute, varsF, varsI, varsO, bounds, history>>

Keystones == [i \in batch .. nextO - 1 |-> local[i]]

\* The goroutine of link O ends; the mailbox starts over, and answers it was
\* passing to the switch may be dropped (linkQuit).
EndO ==
    /\ linkO' = "down" /\ stepO' = "idle"
    /\ taken' = {}
    /\ local' = [i \in Index |-> None]
    /\ nextO' = committed /\ batch' = committed
    /\ toRoute' \in {toRoute, {}}

\* OpenCircuits up to the transaction; its errors fail the link.
OpenCircuits ==
    /\ IdleO /\ batch < nextO
    /\ \/ /\ CanOpen(cm, Keystones)
          /\ db' = PutKeystones(db, Keystones)
          /\ stepO' = "opening"
          /\ UNCHANGED <<linkO, taken, local, nextO, batch, toRoute>>
       \/ ~CanOpen(cm, Keystones) /\ EndO /\ UNCHANGED db
    /\ UNCHANGED <<disk, cm, mail, reply, varsF, varsI, trimmed, bounds, history>>

\* OpenCircuits after the transaction.
CircuitsOpened ==
    /\ stepO = "opening"
    /\ cm' = SetKeystones(cm, Keystones)
    /\ batch' = nextO /\ stepO' = "idle"
    /\ UNCHANGED <<disk, db, mailO, reply, toRoute, varsF, varsI, linkO, local, nextO,
                   trimmed, bounds, history>>

\* SignNextCommitment; the wait for the revocation window (ErrNoWindow) may
\* put any step between the opening and the signature.
SignNextCommitment ==
    /\ IdleO /\ batch = nextO /\ committed < nextO
    /\ outHtlc' = [i \in Index |->
           IF i \in committed .. nextO - 1 THEN local[i] ELSE outHtlc[i]]
    /\ openedKeys' = {local[i] : i \in committed .. nextO - 1}
    /\ committed' = nextO /\ stepO' = "signed"
    /\ UNCHANGED <<incoming, closedKeys, answer, acked, db, cm, mailO, reply,
                   toRoute, varsF, varsI, linkO, local, nextO, batch, trimmed, bounds, history>>

\* ackDownStreamPackets of link O; then the commitment is sent.
AckAdds ==
    /\ stepO = "signed"
    /\ AckMail(openedKeys)
    /\ stepO' = "idle"
    /\ UNCHANGED <<disk, db, cm, reply, toRoute, varsF, varsI, linkO, local,
                   nextO, batch, trimmed, bounds, history>>

-----------------------------------------------------------------------------
(* The answer on its way back.                                             *)

\* The peer of O settles or fails an HTLC, whose commitment it then has.
Answer(i, kind) ==
    /\ IdleO /\ i < committed /\ answer[i] = "none"
    /\ answer' = [answer EXCEPT ![i] = kind]
    /\ openedKeys' = IF outHtlc[i] \in openedKeys THEN {} ELSE openedKeys
    /\ toRoute' = toRoute \cup {i}
    /\ UNCHANGED <<incoming, closedKeys, outHtlc, committed, acked,
                   db, cm, mailO, reply, varsF, varsI, varsO, bounds, history>>

\* handlePacketForward of an answer, which passes the same goroutine as the
\* Adds: closeCircuit, then the mailbox of I.
RouteAnswer(i) ==
    /\ i \in toRoute /\ forwarding = None
    /\ toRoute' = toRoute \ {i}
    /\ \/ /\ CanClose(cm, i)
          /\ cm' = MarkClosed(cm, cm.opened[i])
          /\ AddReply(cm.opened[i], [kind |-> answer[i], dest |-> i])
          /\ UNCHANGED acked
       \/ cm.opened[i] \in cm.closed /\ UNCHANGED <<cm, reply, acked>>
       \/ /\ cm.opened[i] = None
          /\ acked' = acked \cup {i}
          /\ UNCHANGED <<cm, reply>>
    /\ UNCHANGED <<incoming, closedKeys, outHtlc, committed, openedKeys, answer,
                   db, mailO, varsF, varsI, varsO, bounds, history>>

\* DeleteCircuits is about to run for S.
StartDelete(S) == linkI' = "delete" /\ deleting' = S

\* handleDownstreamPkt of a response: out of the local log, or, when the HTLC
\* is gone already, cleanupSpuriousResponse (if its index is unknown by now).
DownstreamResponse(h) ==
    /\ Free /\ reply[h] # None /\ h \notin removing
    /\ \/ /\ incoming[h] = "locked"
          /\ removing' = removing \cup {h}
          /\ UNCHANGED <<acked, reply, linkI, deleting>>
       \/ /\ incoming[h] # "locked"
          /\ acked' = acked \cup ({reply[h].dest} \ {None})
          /\ StartDelete({h})
          /\ UNCHANGED <<reply, removing>>
       \/ /\ incoming[h] # "locked"
          /\ reply' = [reply EXCEPT ![h] = None]
          /\ UNCHANGED <<acked, removing, linkI, deleting>>
    /\ UNCHANGED <<incoming, closedKeys, outHtlc, committed, openedKeys, answer,
                   db, cm, mailO, toRoute, varsF, offer, replay, removed,
                   varsO, bounds, history>>

\* A commitment of I without the removed HTLCs, atomic with the
\* acknowledgement of AddRef and SettleFailRef.
SignRemoval ==
    /\ Free /\ removing # {}
    /\ incoming' = [h \in HTLC |->
           IF h \notin removing THEN incoming[h]
           ELSE IF reply[h].kind = "settle" THEN "settled" ELSE "failed"]
    /\ acked' = acked \cup ({reply[h].dest : h \in removing} \ {None})
    /\ closedKeys' = removing /\ removing' = {}
    /\ StartDelete(removing)
    /\ UNCHANGED <<outHtlc, committed, openedKeys, answer, db, cm, mailO, reply,
                   toRoute, varsF, offer, replay, removed, varsO, bounds, history>>

\* DeleteCircuits in memory.
DeleteCircuits ==
    /\ linkI = "delete"
    /\ LET S == Found(cm, deleting)
       IN  /\ removed' = S
           /\ cm' = DeletePending(cm, S)
           /\ torn' = (torn \/ \E i \in Index : i >= committed /\ db.keystones[i] \in S)
    /\ linkI' = "deleted"
    /\ UNCHANGED <<disk, db, mailO, reply, toRoute, varsF, offer, replay,
                   removing, deleting, varsO, bounds, again>>

\* DeleteCircuits on disk, the responses leave the mailbox, and the
\* commitment is sent, which the peer gets or not (ProcessChanSyncMsg).
CircuitsDeleted ==
    /\ linkI = "deleted"
    /\ db' = DeleteBuckets(cm, db, removed)
    /\ cm' = ForgetDeleted(cm, removed)
    /\ reply' = [h \in HTLC |-> IF h \in deleting THEN None ELSE reply[h]]
    /\ linkI' = "up" /\ deleting' = {} /\ removed' = {}
    /\ closedKeys' \in {closedKeys, {}}
    /\ UNCHANGED <<incoming, outHtlc, committed, openedKeys, answer, acked,
                   mailO, toRoute, varsF, offer, replay, removing, varsO, bounds, history>>

-----------------------------------------------------------------------------
(* Flapping links and restarts.                                            *)

\* Link I stops: an offer is withdrawn, linkQuit is closed for the packet the
\* switch has at hand.
StopI ==
    /\ linkI = "up" /\ stopsI < MaxStopsI
    /\ linkI' = "down" /\ offer' = None
    /\ replay' = {} /\ removing' = {}
    /\ quit' = (forwarding # None)
    /\ stopsI' = stopsI + 1
    /\ UNCHANGED <<disk, db, cm, mailO, reply, toRoute, forwarding, step,
                   deleting, removed, varsO, crashes, stopsO, history>>

StartIForgetful ==
    /\ linkI = "down"
    /\ StartDelete({})
    /\ replay' = {h \in HTLC : incoming[h] = "locked"}
    /\ UNCHANGED <<disk, db, cm, mailO, reply, toRoute, varsF, offer,
                   removing, removed, varsO, bounds, history>>

StartINoReplay ==
    /\ linkI = "down"
    /\ StartDelete(closedKeys)
    /\ UNCHANGED <<disk, db, cm, mailO, reply, toRoute, varsF, offer, replay,
                   removing, removed, varsO, bounds, history>>

\* Link I starts: syncChanStates deletes the circuits of a commitment that has
\* to be sent again, resolveFwdPkgs replays what is not acknowledged.
StartI ==
    /\ linkI = "down"
    /\ StartDelete(closedKeys)
    /\ replay' = {h \in HTLC : incoming[h] = "locked"}
    /\ UNCHANGED <<disk, db, cm, mailO, reply, toRoute, varsF, offer,
                   removing, removed, varsO, bounds, history>>

\* Link O stops.
StopO ==
    /\ linkO \in {"sync", "up"} /\ stepO = "idle" /\ stopsO < MaxStopsO
    /\ EndO
    /\ stopsO' = stopsO + 1
    /\ UNCHANGED <<disk, db, cm, mail, reply, varsF, varsI, trimmed, crashes, stopsI, history>>

\* Link O starts: TrimOpenCircuits in memory,
StartO ==
    /\ linkO = "down"
    /\ trimmed' = Trimmed(cm, committed)
    /\ cm' = TrimMap(cm, Trimmed(cm, committed))
    /\ linkO' = "trimmed"
    /\ UNCHANGED <<disk, db, mailO, reply, toRoute, varsF, varsI, stepO, local, nextO,
                   batch, bounds, history>>

\* then on disk,
TrimKeystones ==
    /\ linkO = "trimmed"
    /\ db' = DeleteKeystones(db, trimmed)
    /\ trimmed' = {} /\ linkO' = "sync"
    /\ UNCHANGED <<disk, cm, mailO, reply, toRoute, varsF, varsI, stepO, local, nextO,
                   batch, bounds, history>>

\* The answers no link acknowledged yet.
Unacked == {i \in Index : answer[i] # "none"} \ acked

\* then syncChanStates, which gets the keys of a commitment the peer lacks,
\* ResetPackets and resolveFwdPkgs.
SyncO ==
    /\ linkO = "sync"
    /\ openedKeys' \in {openedKeys, {}}
    /\ mail' = Without(mail, openedKeys')
    /\ taken' = {}
    /\ toRoute' = toRoute \cup Unacked
    /\ linkO' = "up"
    /\ UNCHANGED <<incoming, closedKeys, outHtlc, committed, answer, acked, db,
                   cm, reply, varsF, varsI, stepO, local, nextO, batch,
                   trimmed, bounds, history>>

\* The node goes down and up: NewCircuitMap restores and trims the map, the
\* switch reforwards the responses, links and mailboxes start empty.
Restart ==
    /\ crashes < MaxCrashes
    /\ crashes' = crashes + 1
    /\ LET restored == RestoreMemState(db)
           cut == Trimmed(restored, committed)
       IN  cm' = TrimMap(restored, cut) /\ db' = DeleteKeystones(db, cut)
    /\ mail' = <<>> /\ taken' = {} /\ reply' = [h \in HTLC |-> None]
    /\ toRoute' = Unacked
    /\ forwarding' = None /\ step' = "commit" /\ quit' = FALSE
    /\ linkI' = "down" /\ offer' = None
    /\ replay' = {} /\ removing' = {} /\ deleting' = {} /\ removed' = {}
    /\ linkO' = "down" /\ stepO' = "idle" /\ trimmed' = {}
    /\ local' = [i \in Index |-> None]
    /\ nextO' = committed /\ batch' = committed
    /\ UNCHANGED <<disk, stopsI, stopsO, history>>

-----------------------------------------------------------------------------

ForwardAdd == Replay \/ Accept \/ \E h \in HTLC : Commit(h) \/ WriteCircuit(h) \/ Route(h)

Respond == \E h \in HTLC : DownstreamResponse(h)

Delete == DeleteCircuits \/ CircuitsDeleted

CommitO == OpenCircuits \/ CircuitsOpened \/ SignNextCommitment \/ AckAdds

ConnectO == StartO \/ TrimKeystones \/ SyncO

Next ==
    \/ \E h \in HTLC : LockIn(h) \/ DownstreamAdd(h) \/ Expire(h)
    \/ ForwardAdd \/ CommitO
    \/ \E i \in Index : RouteAnswer(i) \/ \E kind \in {"settle", "fail"} : Answer(i, kind)
    \/ Respond \/ SignRemoval \/ Delete
    \/ StopI \/ StartI \/ StopO \/ ConnectO
    \/ Restart

Spec == Init /\ [][Next]_vars

\* Goroutines run, links that stopped are started again by the peer's
\* reconnection, and every HTLC of O is answered, on chain if need be.
Fairness ==
    /\ WF_vars(ForwardAdd) /\ WF_vars(CommitO)
    /\ WF_vars(\E h \in HTLC : DownstreamAdd(h))
    /\ \A i \in Index :
           /\ WF_vars(RouteAnswer(i))
           /\ WF_vars(\E kind \in {"settle", "fail"} : Answer(i, kind))
    /\ WF_vars(Respond) /\ WF_vars(SignRemoval) /\ WF_vars(Delete)
    /\ WF_vars(StartI) /\ WF_vars(ConnectO)

FairSpec == Spec /\ Fairness

-----------------------------------------------------------------------------
(* Safety.                                                                 *)
(*                                                                         *)
(* Two things the code does break what the circuits are for, and the       *)
(* properties say what holds until then: CommitCircuits takes a packet     *)
(* whose HTLC was removed meanwhile (again), and DeleteCircuits takes a    *)
(* circuit between two keystones that TrimOpenCircuits still has to trim   *)
(* (torn).  NeverTwice and NoGaps state what comments claim instead.       *)

Undisturbed == again = {} /\ ~ torn

\* The HTLCs of O that carry h.
Outgoing(h) == {i \in Index : outHtlc[i] = h}

\* h is failed back only when no HTLC of O carries it that is settled or may
\* be, and settled only with a preimage.
Balanced(h) ==
    /\ incoming[h] = "failed" => \A i \in Outgoing(h) : answer[i] = "fail"
    /\ incoming[h] = "settled" => \E i \in Outgoing(h) : answer[i] = "settle"

\* The node does not lose money: an HTLC is removed from I as its HTLCs on O
\* are.
NoLoss == Undisturbed => \A h \in HTLC : Balanced(h)

\* An HTLC is committed at most once on O, whatever is replayed by link I and
\* redelivered by the mailbox, unless CommitCircuits took it after it was gone.
ForwardedOnce == \A h \in HTLC \ again : Cardinality(Outgoing(h)) <= 1

\* While a forwarded HTLC waits for its answer or its removal, its circuit and
\* its keystone are on disk: the answer finds its way after a crash.
CircuitKept ==
    Undisturbed => \A h \in HTLC : \A i \in Outgoing(h) :
        incoming[h] = "locked" => h \in db.adds /\ db.keystones[i] = h

\* What is replayed is not forwarded twice: resolveFwdPkgs (line 991) says that
\* "the downstream logic is able to filter out any duplicates".
NeverTwice == \A h \in HTLC : Cardinality(Outgoing(h)) <= 1

\* TrimOpenCircuits (line 708) stops at the first index that is not open, since
\* "there should never be disjoint segments of keystones to trim".
NoGaps ==
    \A i \in Index : i >= committed /\ cm.opened[i] # None =>
        \A j \in committed .. i : cm.opened[j] # None

-----------------------------------------------------------------------------
(* Liveness.                                                               *)

\* Every HTLC locked in on I is removed again: CommitCircuits (line 836) drops
\* a replayed Add because its packet "should still be in the outgoing link's
\* mailbox".
Resolved == \A h \in HTLC : incoming[h] = "locked" ~> incoming[h] # "locked"

\* A packet the switch gave up: its circuit is new, without keystone and
\* without answer, and no mailbox holds the packet.
Dropped(h) ==
    /\ cm.pending[h] = "new" /\ ~HasKeystone(cm, h) /\ h \notin cm.closed
    /\ forwarding # h /\ h \notin ToSet(mail) /\ reply[h] = None

\* That happens when routeAsync sees linkQuit, and to nothing else: every other
\* HTLC is removed in spite of flaps, expiries and crashes, as long as the
\* history is undisturbed.
ResolvedUnlessDropped ==
    \A h \in HTLC :
        incoming[h] = "locked" ~>
            incoming[h] # "locked" \/ Dropped(h) \/ ~Undisturbed

\* No circuit outlives its HTLC, neither in memory nor on disk, although
\* signature, memory and disk change one after the other.  (A keystone that
\* was never committed may stay on disk: TrimOpenCircuits takes it from memory
\* first, DeleteCircuits then does not see it, and a crash keeps it.)
CircuitsGo ==
    \A h \in HTLC :
        incoming[h] \in {"failed", "settled"} ~>
            \/ /\ h \notin db.adds /\ cm.pending[h] = "none"
               /\ \A i \in Outgoing(h) :
                      db.keystones[i] # h /\ cm.opened[i] # h
            \/ ~Undisturbed
=============================================================================
