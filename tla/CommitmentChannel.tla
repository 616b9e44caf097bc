-------------------------- MODULE CommitmentChannel --------------------------
(***************************************************************************)
(* A channel between two lnd nodes: lnwallet.LightningChannel at each end, *)
(* the link that drives it (the handlers of htlcswitch/link.go) and what   *)
(* channeldb keeps on disk.  Each side extends the commitment chain of its *)
(* peer with signatures and gets them revoked; a connection may break at   *)
(* any moment, messages under way are lost, both ends are rebuilt from     *)
(* disk and exchange ChannelReestablish to find out what to send again.    *)
(*                                                                         *)
(* A broken connection and a crash are the same to this code: the link     *)
(* goes away with its LightningChannel, and a new one is made of what was  *)
(* stored.  The commitment chains in memory always equal those on disk     *)
(* between two calls, so the model keeps only the ones on disk; the update *)
(* logs live in memory alone.                                              *)
(***************************************************************************)
EXTENDS CommitmentLog, Sequences

CONSTANTS
    Initiator, Responder, \* the two sides; the initiator may change the fee
    Fresh0,               \* the channel was never updated before
    FeeRates,             \* fee rates the initiator may ask for
    InitialFee,
    Balance,              \* what each side starts with
    MaxHtlcs,             \* bound: HTLCs a side offers
    MaxUpdates,           \* bound: log index up to which a side adds
    MaxDisconnects,       \* bound: times the connection breaks
    NoDiff                \* no commitDiffKey on disk

ASSUME CommitmentChannelAssumption ==
    /\ Initiator # Responder
    /\ Fresh0 \in BOOLEAN
    /\ FeeRates \subseteq Nat /\ InitialFee \in Nat
    /\ Balance \in Nat /\ MaxHtlcs \in 0..Balance
    /\ MaxUpdates \in Nat /\ MaxDisconnects \in Nat
    /\ NoDiff \notin CommitDiffType

Side == {Initiator, Responder}
Peer(s) == IF s = Initiator THEN Responder ELSE Initiator

VARIABLES
    bucket,     \* channel bucket of each side
    log,        \* update logs in memory: log[s]["local"], log[s]["remote"]
    pc,         \* where the link of each side stands
    wire,       \* wire[s]: messages on their way to side s
    disconnects \* how often the connection broke

channelVars == <<bucket, log, pc, wire, disconnects>>

\* The link waits for ChannelReestablish, for its next event, is about to
\* call updateCommitTx at the end of a handler, or has failed.
Pc == {"syncing", "ready", "signing", "failed"}

\* A key of the bucket, and one that was never written.
Written(updates) == [written |-> TRUE, updates |-> updates]
Unwritten == [written |-> FALSE, updates |-> {}]

NewCommit(s) ==
    LET n(x) == IF ~ Fresh0 /\ x = Initiator THEN 1 ELSE 0
    IN  [height |-> IF Fresh0 THEN 0 ELSE 1,
         messageIndex |-> [local |-> n(s), remote |-> n(Peer(s))],
         htlcIndex |-> [c \in Chain |-> 0],
         htlcs |-> [c \in Chain |-> {}],
         balance |-> [c \in Chain |-> Balance],
         feePerKw |-> InitialFee]

\* A new channel, or one whose initiator has changed the fee once before.
ChannelInit ==
    /\ bucket = [s \in Side |->
                [commit |-> [c \in Chain |-> NewCommit(s)],
                 diff |-> NoDiff,
                 unsignedAckedUpdates |-> IF Fresh0 THEN Unwritten ELSE Written({}),
                 remoteUnsignedLocalUpdates |->
                    IF Fresh0 \/ s = Initiator THEN Unwritten ELSE Written({}),
                 lastWasRevoke |-> ~ Fresh0 /\ s = Initiator,
                 fwdPkgs |-> {}]]
    /\ log = [s \in Side |-> [c \in Chain |->
                newUpdateLog(NewCommit(s).messageIndex[c], 0)]]
    /\ pc = [s \in Side |-> "ready"]
    /\ wire = [s \in Side |-> << >>]
    /\ disconnects = 0

---------------------------------------------------------------------------
\* The chains.  The local one holds one commitment between two handlers, the
\* remote one a second when a signature was sent and not revoked yet.

HasUnacked(d) == d.diff # NoDiff
RemoteTip(d) == IF HasUnacked(d) THEN d.diff.commit ELSE d.commit["remote"]

PendingLocalUpdateCount(d, l) ==
    l["local"].logIndex - RemoteTip(d).messageIndex["local"]

\* Mutant: only updates of ours count.
OweLocalUpdates(d, l) ==
    l["local"].logIndex # RemoteTip(d).messageIndex["local"]

\* We owe a signature: updates of ours, or updates of the peer that our own
\* commitment has, are not in the last commitment we signed for the peer.
OweCommitment(d, l) ==
    \/ l["local"].logIndex # RemoteTip(d).messageIndex["local"]
    \/ d.commit["local"].messageIndex["remote"]
            # RemoteTip(d).messageIndex["remote"]

\* The transaction a signature covers, the same object for both sides.
Tx(s, commit) ==
    [height |-> commit.height,
     htlcs |-> [x \in Side |->
                {h.id : h \in commit.htlcs[IF x = s THEN "local" ELSE "remote"]}],
     balance |-> [x \in Side |->
                commit.balance[IF x = s THEN "local" ELSE "remote"]],
     feePerKw |-> commit.feePerKw]

Update(type, id) == [kind |-> "update", type |-> type, id |-> id]
CommitSig(tx) == [kind |-> "sig", tx |-> tx]
RevokeAndAck(height) == [kind |-> "revoke", height |-> height]
ChannelReestablish(next, tail) ==
    [kind |-> "reestablish", next |-> next, tail |-> tail]

Send(s, msgs) == wire' = [wire EXCEPT ![Peer(s)] = @ \o msgs]
Receive(s, kind) == wire[s] # << >> /\ Head(wire[s]).kind = kind
Reply(s, msgs) ==
    wire' = [wire EXCEPT ![s] = Tail(@), ![Peer(s)] = @ \o msgs]

Fail(s) ==
    /\ pc' = [pc EXCEPT ![s] = "failed"]
    /\ UNCHANGED <<bucket, log, disconnects>>

---------------------------------------------------------------------------
\* SignNextCommitment: all updates of ours, and those of the peer that our
\* own commitment already has.
SignIndexes(d, l) ==
    [local |-> l["local"].logIndex,
     remote |-> d.commit["local"].messageIndex["remote"]]

CanSign(d, l) ==
    ParentsFetched(l, fetchHTLCView(l, SignIndexes(d, l)), "remote")

SignedLogs(d, l) ==
    evaluateHTLCView(l, d.commit["remote"], "remote", SignIndexes(d, l))

\* createCommitDiff: what to send again if this signature gets lost.
createCommitDiff(d, l) ==
    LET commit == fetchCommitmentView(l, d.commit["remote"], "remote",
            SignIndexes(d, l),
            [local |-> l["local"].htlcCounter,
             remote |-> d.commit["local"].htlcIndex["remote"]])
        new == {e \in SignedLogs(d, l)["local"].entries :
                    commit.height \in {e.added["remote"], e.removed["remote"]}}
    IN  [commit |-> commit, updates |-> LogUpdates(new)]

\* AppendRemoteCommitChain
SignedDisk(d, l) ==
    [d EXCEPT !.diff = createCommitDiff(d, l), !.lastWasRevoke = FALSE]

SignedMsg(s, d, l) == CommitSig(Tx(s, createCommitDiff(d, l).commit))

\* updateCommitTx: at the end of a handler, or because a batch is full or its
\* ticker fired.  While a signature is unrevoked nothing is done (ErrNoWindow).
UpdateCommitTx(s) ==
    LET d == bucket[s]
        l == log[s]
    IN  /\ \/ pc[s] = "signing"
           \/ pc[s] = "ready" /\ ~ HasUnacked(d) /\ PendingLocalUpdateCount(d, l) > 0
        /\ IF HasUnacked(d)
             THEN /\ pc' = [pc EXCEPT ![s] = "ready"]
                  /\ UNCHANGED <<bucket, log, wire, disconnects>>
           ELSE IF ~ CanSign(d, l)
             THEN Fail(s) /\ UNCHANGED wire
           ELSE /\ bucket' = [bucket EXCEPT ![s] = SignedDisk(d, l)]
                /\ log' = [log EXCEPT ![s] = SignedLogs(d, l)]
                /\ pc' = [pc EXCEPT ![s] = "ready"]
                /\ Send(s, <<SignedMsg(s, d, l)>>)
                /\ UNCHANGED disconnects

---------------------------------------------------------------------------
\* AddHTLC, called for a payment of ours or a forward.
AddHTLC(s) ==
    /\ pc[s] = "ready"
    /\ log[s]["local"].htlcCounter < MaxHtlcs
    /\ log[s]["local"].logIndex < MaxUpdates
    /\ log' = [log EXCEPT ![s]["local"] = appendHtlc(@)]
    /\ Send(s, <<Update("Add", log[s]["local"].htlcCounter)>>)
    /\ UNCHANGED <<bucket, pc, disconnects>>

\* HTLCs handed over for processing: they are in a forwarding package.
Forwarded(s, type) ==
    UNION {{u.id : u \in {v \in p.updates : v.type \in type}} :
                p \in bucket[s].fwdPkgs}

\* SettleHTLC, FailHTLC: the answer to an HTLC of the peer, at the end of the
\* handler that forwarded it or any time later.  The link then signs.
ResolveHTLC(s, id, type) ==
    /\ pc[s] \in {"ready", "signing"}
    /\ id \in Forwarded(s, {"Add"})
    /\ HasHtlc(log[s]["remote"], id)
    /\ ~ htlcHasModification(log[s]["remote"], id)
    /\ log' = [log EXCEPT
                ![s] = [local |-> appendUpdate(@["local"], type, id),
                        remote |-> markHtlcModified(@["remote"], id)]]
    /\ pc' = [pc EXCEPT ![s] = "signing"]
    /\ Send(s, <<Update(type, id)>>)
    /\ UNCHANGED <<bucket, disconnects>>

\* updateChannelFee: UpdateFee, and the link signs.
UpdateFee(s, rate) ==
    /\ s = Initiator
    /\ pc[s] = "ready"
    /\ log[s]["local"].logIndex < MaxUpdates
    /\ log' = [log EXCEPT ![s]["local"] = appendUpdate(@, "FeeUpdate", rate)]
    /\ pc' = [pc EXCEPT ![s] = "signing"]
    /\ Send(s, <<Update("FeeUpdate", rate)>>)
    /\ UNCHANGED <<bucket, disconnects>>

\* ReceiveHTLC, ReceiveHTLCSettle, ReceiveFailHTLC, ReceiveUpdateFee.  The
\* link also fails on a settle whose HTLC is not on both commitments; an
\* honest peer settles only what was handed over to it, so this is left out.
Acceptable(s, m) ==
    CASE m.type = "Add" -> m.id = log[s]["remote"].htlcCounter
      [] m.type = "FeeUpdate" -> s # Initiator
      [] OTHER -> /\ HasHtlc(log[s]["local"], m.id)
                  /\ ~ htlcHasModification(log[s]["local"], m.id)

ReceiveUpdate(s) ==
    /\ pc[s] = "ready"
    /\ Receive(s, "update")
    /\ LET m == Head(wire[s])
           l == log[s]
       IN  /\ Reply(s, << >>)
           /\ IF Acceptable(s, m)
                THEN /\ log' = [log EXCEPT ![s] =
                        [local |-> IF m.type \in {"Add", "FeeUpdate"} THEN l["local"]
                                   ELSE markHtlcModified(l["local"], m.id),
                         remote |-> IF m.type = "Add" THEN appendHtlc(l["remote"])
                                    ELSE appendUpdate(l["remote"], m.type, m.id)]]
                     /\ UNCHANGED <<bucket, pc, disconnects>>
                ELSE Fail(s)

---------------------------------------------------------------------------
\* getUnsignedAckedUpdates: updates of the peer that our new commitment has
\* and the peer's current one has not.
getUnsignedAckedUpdates(d, l, new) ==
    LogUpdates({e \in l["remote"].entries :
        /\ e.logIndex >= d.commit["remote"].messageIndex["remote"]
        /\ e.logIndex < new.messageIndex["remote"]})

\* Mutant: the acknowledged updates are stored and the commitment is not.
UpdateAckedOnly(d, new, unsignedAcked) ==
    [d EXCEPT !.unsignedAckedUpdates = Written(unsignedAcked), !.lastWasRevoke = TRUE]

\* Updates a commitment that ends at this index does not include.
UpdatesFrom(updates, index) == {u \in updates : u.logIndex >= index}

\* UpdateCommitment: the new commitment replaces the one being revoked.
UpdateCommitment(d, new, unsignedAcked) ==
    [d EXCEPT
        !.commit["local"] = new,
        !.unsignedAckedUpdates = Written(unsignedAcked),
        !.lastWasRevoke = TRUE,
        !.remoteUnsignedLocalUpdates.updates = UpdatesFrom(@, new.messageIndex["local"])]

AfterHandler(s, d, l) ==
    pc' = [pc EXCEPT ![s] = IF OweCommitment(d, l) THEN "signing" ELSE "ready"]

\* ReceiveNewCommitment: all updates of the peer, and those of ours that the
\* peer's current commitment has.
ReceiveIndexes(d, l) ==
    [local |-> d.commit["remote"].messageIndex["local"],
     remote |-> l["remote"].logIndex]

ReceivedCommit(d, l) ==
    fetchCommitmentView(l, d.commit["local"], "local", ReceiveIndexes(d, l),
        [local |-> d.commit["remote"].htlcIndex["local"],
         remote |-> l["remote"].htlcCounter])

ReceivedLogs(d, l) ==
    evaluateHTLCView(l, d.commit["local"], "local", ReceiveIndexes(d, l))

\* RevokeCurrentCommitment
ReceivedDisk(d, l) ==
    UpdateCommitment(d, ReceivedCommit(d, l),
        getUnsignedAckedUpdates(d, ReceivedLogs(d, l), ReceivedCommit(d, l)))

\* The CommitSig handler: ReceiveNewCommitment checks the signature against
\* its own idea of the next commitment, RevokeCurrentCommitment makes it the
\* current one on disk, the revocation is sent, and the link signs if it owes.
ReceiveCommitSig(s) ==
    /\ pc[s] = "ready"
    /\ Receive(s, "sig")
    /\ LET d == bucket[s]
           l == log[s]
       IN  IF /\ ParentsFetched(l, fetchHTLCView(l, ReceiveIndexes(d, l)), "local")
              /\ Tx(s, ReceivedCommit(d, l)) = Head(wire[s]).tx
             THEN /\ bucket' = [bucket EXCEPT ![s] = ReceivedDisk(d, l)]
                  /\ log' = [log EXCEPT ![s] = ReceivedLogs(d, l)]
                  /\ AfterHandler(s, ReceivedDisk(d, l), ReceivedLogs(d, l))
                  /\ Reply(s, <<RevokeAndAck(d.commit["local"].height)>>)
                  /\ UNCHANGED disconnects
             ELSE Fail(s) /\ Reply(s, << >>)

\* Mutant: whatever is on both commitments, not what just came there.
LockedInEver(entries, tail) ==
    LET stamps(e) == IF e.type = "Add" THEN e.added ELSE e.removed
    IN  {e \in entries : /\ e.type # "FeeUpdate"
                         /\ ~ e.isForwarded
                         /\ stamps(e)["local"] \in 1..tail["local"]
                         /\ stamps(e)["remote"] \in 1..tail["remote"]}

\* What the revocation that ends the remote chain at "tail" locks in: an
\* HTLC or a removal that came onto the peer's commitment just then and is on
\* ours, and was not handed over before.
LockedIn(entries, tail) ==
    LET stamps(e) == IF e.type = "Add" THEN e.added ELSE e.removed
    IN  {e \in entries : /\ e.type # "FeeUpdate"
                         /\ ~ e.isForwarded
                         /\ stamps(e)["local"] \in 1..tail["local"]
                         /\ stamps(e)["remote"] = tail["remote"]}

\* unsignedLocalUpdates: removals and fee updates the peer has revoked for
\* and has yet to sign for our commitment.
unsignedLocalUpdates(d, l) ==
    LogUpdates({e \in l["local"].entries :
        /\ e.type # "Add"
        /\ e.logIndex < d.diff.commit.messageIndex["local"]
        /\ e.logIndex >= d.commit["local"].messageIndex["local"]})

\* AdvanceCommitChainTail.  It returns early when unsignedAckedUpdatesKey was
\* never written, and then does not store the updates it was given.
AdvanceCommitChainTail(d, fwdPkg, updates) ==
    LET new == d.diff.commit
        next == [d EXCEPT !.commit["remote"] = new,
                          !.diff = NoDiff,
                          !.fwdPkgs = @ \cup {fwdPkg}]
    IN  IF ~ d.unsignedAckedUpdates.written THEN next
        ELSE [next EXCEPT
                !.unsignedAckedUpdates.updates =
                    UpdatesFrom(@, new.messageIndex["remote"]),
                !.remoteUnsignedLocalUpdates = Written(updates)]

\* The tails of the chains once the peer has revoked.
RevokedTail(d) ==
    [local |-> d.commit["local"].height, remote |-> d.commit["remote"].height + 1]

\* ReceiveRevocation: what gets locked in is marked and put into a forwarding
\* package, and the logs are compacted.
NewlyLocked(d, l) == LockedIn(l["remote"].entries, RevokedTail(d))

MarkedLogs(d, l) ==
    [l EXCEPT !["remote"].entries =
        {IF e \in NewlyLocked(d, l) THEN [e EXCEPT !.isForwarded = TRUE] ELSE e : e \in @}]

RevokedLogs(d, l) == compactLogs(MarkedLogs(d, l), RevokedTail(d))

RevokedDisk(d, l) ==
    AdvanceCommitChainTail(d,
        [height |-> RevokedTail(d)["remote"], updates |-> LogUpdates(NewlyLocked(d, l))],
        unsignedLocalUpdates(d, l))

\* The RevokeAndAck handler.
ReceiveRevocation(s) ==
    /\ pc[s] = "ready"
    /\ Receive(s, "revoke")
    /\ LET d == bucket[s]
           l == log[s]
       IN  /\ Reply(s, << >>)
           /\ IF HasUnacked(d) /\ Head(wire[s]).height = d.commit["remote"].height
                THEN /\ bucket' = [bucket EXCEPT ![s] = RevokedDisk(d, l)]
                     /\ log' = [log EXCEPT ![s] = RevokedLogs(d, l)]
                     /\ AfterHandler(s, RevokedDisk(d, l), RevokedLogs(d, l))
                     /\ UNCHANGED disconnects
                ELSE Fail(s)

---------------------------------------------------------------------------
\* NewLightningChannel: the logs are rebuilt from what is on disk.

ResolvedIds(updates) == {u.id : u \in {v \in updates : IsRemoval(v)}}
Ids(htlcs) == {h.id : h \in htlcs}

Restored(u, added, removed) ==
    [type |-> u.type, logIndex |-> u.logIndex, id |-> u.id,
     added |-> added, removed |-> removed, isForwarded |-> FALSE]

At(localHeight, remoteHeight) ==
    [local |-> localHeight, remote |-> remoteHeight]

\* Which heights an entry carries that is on the commitments named so.
RestoredUpdate(u, heights) ==
    Restored(u, IF u.type = "FeeUpdate" THEN heights ELSE At(0, 0), heights)

RestoredAdd(h, heights) ==
    Restored([type |-> "Add", logIndex |-> h.logIndex, id |-> h.id],
             heights, At(0, 0))

\* restoreStateLogs.  HTLCs of the peer come from our commitment, ours from
\* the commitment of the peer; the height of the other chain is looked up.
RestoredLocalLog(d) ==
    LET lh == d.commit["local"].height
        rh == d.commit["remote"].height
        onLocal == ResolvedIds(d.unsignedAckedUpdates.updates)
                        \cup Ids(d.commit["local"].htlcs["local"])
        adds == {RestoredAdd(h, At(IF h.id \in onLocal THEN lh ELSE 0, rh)) :
                    h \in d.commit["remote"].htlcs["local"]}
        \* restorePendingLocalUpdates
        pending == IF ~ HasUnacked(d) THEN {} ELSE
            {IF u.type = "Add" THEN RestoredAdd(u, At(0, rh + 1))
             ELSE RestoredUpdate(u, At(0, rh + 1)) : u \in d.diff.updates}
        \* restorePeerLocalUpdates
        unsigned == {RestoredUpdate(u, At(0, rh)) :
                        u \in d.remoteUnsignedLocalUpdates.updates}
        new == {e \in pending : e.type = "Add"}
    IN  [logIndex |-> d.commit["remote"].messageIndex["local"] + Cardinality(pending),
         htlcCounter |-> d.commit["remote"].htlcIndex["local"] + Cardinality(new),
         entries |-> adds \cup pending \cup unsigned,
         modified |-> ResolvedIds(d.unsignedAckedUpdates.updates)]

RestoredRemoteLog(d) ==
    LET lh == d.commit["local"].height
        rh == d.commit["remote"].height
        pendingIds == IF HasUnacked(d) THEN Ids(d.diff.commit.htlcs["remote"]) ELSE {}
        addedAt(id) ==
            IF id \in ResolvedIds(d.remoteUnsignedLocalUpdates.updates)
                        \cup Ids(d.commit["remote"].htlcs["remote"]) THEN rh
            ELSE IF id \in pendingIds THEN rh + 1 ELSE 0
        adds == {RestoredAdd(h, At(lh, addedAt(h.id))) :
                    h \in d.commit["local"].htlcs["remote"]}
        \* restorePendingRemoteUpdates, which leaves out HTLCs
        height(u) == IF HasUnacked(d) /\ u.logIndex < RemoteTip(d).messageIndex["remote"]
                       THEN rh + 1 ELSE 0
        acked == {RestoredUpdate(u, At(lh, height(u))) :
                    u \in {v \in d.unsignedAckedUpdates.updates : v.type # "Add"}}
        sent == IF HasUnacked(d) THEN d.diff.updates ELSE {}
    IN  [logIndex |-> d.commit["local"].messageIndex["remote"],
         htlcCounter |-> d.commit["local"].htlcIndex["remote"],
         entries |-> adds \cup acked,
         modified |-> ResolvedIds(sent \cup d.remoteUnsignedLocalUpdates.updates)]

restoreCommitState(d) ==
    [local |-> RestoredLocalLog(d), remote |-> RestoredRemoteLog(d)]

\* What would make it panic or return an error: an update that does not
\* continue the log, or the removal of an HTLC that is not there.
Restorable(d) ==
    LET l == restoreCommitState(d)
        base == d.commit["remote"].messageIndex["local"]
        sent == IF HasUnacked(d) THEN d.diff.updates ELSE {}
    IN  /\ {u.logIndex : u \in sent} = base..(base + Cardinality(sent) - 1)
        /\ {u.id : u \in {v \in sent : v.type = "Add"}} =
                d.commit["remote"].htlcIndex["local"]..(l["local"].htlcCounter - 1)
        /\ \A u \in d.unsignedAckedUpdates.updates :
                u.logIndex < l["remote"].logIndex
        /\ \A c \in Chain : \A e \in l[c].entries :
                IsRemoval(e) => HasHtlc(l[Opposite(c)], e.id)

\* ChanSyncMsg: the next commitment we expect and the last one of the peer
\* whose revocation we have.
ChanSyncMsg(d) ==
    ChannelReestablish(d.commit["local"].height + 1, d.commit["remote"].height)

\* The connection breaks and is made again.
Disconnect ==
    /\ disconnects < MaxDisconnects
    /\ \A s \in Side : pc[s] # "failed"
    /\ disconnects' = disconnects + 1
    /\ log' = [s \in Side |-> restoreCommitState(bucket[s])]
    /\ pc' = [s \in Side |->
                IF Restorable(bucket[s]) THEN "syncing" ELSE "failed"]
    /\ wire' = [s \in Side |-> <<ChanSyncMsg(bucket[Peer(s)])>>]
    /\ UNCHANGED bucket

---------------------------------------------------------------------------
\* ProcessChanSyncMsg.

\* Updates in the order of the log, as they were stored.
UpdateMsgs(updates) ==
    LET ordered == CHOOSE f \in [1..Cardinality(updates) -> updates] :
            \A i, j \in 1..Cardinality(updates) :
                i < j => f[i].logIndex < f[j].logIndex
    IN  [i \in 1..Cardinality(updates) |-> Update(ordered[i].type, ordered[i].id)]

\* Both sides can agree: what the peer says it has is at most one behind.
Syncable(d, m) ==
    /\ m.tail <= d.commit["local"].height
    /\ m.tail + 1 >= d.commit["local"].height
    /\ m.next <= RemoteTip(d).height + 1
    /\ m.next > d.commit["remote"].height

\* Mutant: always the revocation first.
RevocationFirst(d, owed, again) == owed \o again

\* What was sent last is sent last again.
InOrder(d, owed, again) ==
    IF d.lastWasRevoke THEN again \o owed ELSE owed \o again

OweRevocation(d, m) == m.tail + 1 = d.commit["local"].height
OweCommit(d, m) == m.next = RemoteTip(d).height

\* The peer may have waited for our revocation to hear of its updates.
SignsOnSync(d, l, m) == OweRevocation(d, m) /\ OweCommitment(d, l) /\ ~ HasUnacked(d)

\* The revocation with a signature that is due, and the updates and the
\* signature of the commitment not revoked yet.
SyncAnswer(s, d, l, m) ==
    LET revocation == IF OweRevocation(d, m) THEN <<RevokeAndAck(m.tail)>> ELSE << >>
        signature == IF SignsOnSync(d, l, m) THEN <<SignedMsg(s, d, l)>> ELSE << >>
        again == IF OweCommit(d, m)
                   THEN UpdateMsgs(d.diff.updates)
                            \o <<CommitSig(Tx(s, d.diff.commit))>>
                   ELSE << >>
    IN  InOrder(d, revocation \o signature, again)

ProcessChanSyncMsg(s) ==
    /\ pc[s] = "syncing"
    /\ Receive(s, "reestablish")
    /\ LET m == Head(wire[s])
           d == bucket[s]
           l == log[s]
           signs == SignsOnSync(d, l, m)
       IN  IF Syncable(d, m) /\ (signs => CanSign(d, l))
             THEN /\ Reply(s, SyncAnswer(s, d, l, m))
                  /\ bucket' = IF signs THEN [bucket EXCEPT ![s] = SignedDisk(d, l)]
                                      ELSE bucket
                  /\ log' = IF signs THEN [log EXCEPT ![s] = SignedLogs(d, l)]
                                     ELSE log
                  /\ pc' = [pc EXCEPT ![s] = "ready"]
                  /\ UNCHANGED disconnects
             ELSE Fail(s) /\ Reply(s, << >>)

---------------------------------------------------------------------------
Resolve(s) ==
    \E id \in 0..(MaxHtlcs - 1), type \in {"Settle", "Fail"} : ResolveHTLC(s, id, type)

ChangeFee(s) == \E rate \in FeeRates : UpdateFee(s, rate)

\* The goroutine of the link: it handles what arrives and signs.
Link(s) ==
    \/ UpdateCommitTx(s)
    \/ ReceiveUpdate(s)
    \/ ReceiveCommitSig(s)
    \/ ReceiveRevocation(s)
    \/ ProcessChanSyncMsg(s)

ChannelNext ==
    \/ \E s \in Side : AddHTLC(s) \/ Resolve(s) \/ ChangeFee(s)
    \/ \E s \in Side : Link(s)
    \/ Disconnect

\* The link runs: messages that arrive are handled, and it signs what it has
\* to.  What payments do, and when the connection breaks, is up to others.
LinkFairness == \A s \in Side : WF_channelVars(Link(s))

ChannelSpec == ChannelInit /\ [][ChannelNext]_channelVars /\ LinkFairness

---------------------------------------------------------------------------
\* Two honest sides never disagree: every signature verifies, every update
\* and revocation is expected, every reconnection can be synchronised, and
\* the logs can always be rebuilt from disk.
NeverFails == \A s \in Side : pc[s] # "failed"

\* How many forwarding packages of side s hold an update of this kind.
TimesForwarded(s, type, id) ==
    Cardinality({p \in bucket[s].fwdPkgs :
                    \E u \in p.updates : u.type \in type /\ u.id = id})

\* An HTLC is handed over exactly once after it is on both commitments and
\* the peer cannot go back; its removal exactly once after it has left both.
LockedInOnce ==
    \A s \in Side, id \in 0..(MaxHtlcs - 1) :
        LET c == bucket[s].commit["remote"]
        IN  /\ TimesForwarded(s, {"Add"}, id) =
                    IF id < c.htlcIndex["remote"] THEN 1 ELSE 0
            /\ TimesForwarded(s, {"Settle", "Fail"}, id) =
                    IF /\ id < c.htlcIndex["local"]
                       /\ id \notin Ids(c.htlcs["local"])
                    THEN 1 ELSE 0

\* The commitment a side would publish is not one whose secret it gave away.
RevokedNeverHeld ==
    \A s \in Side :
        /\ bucket[Peer(s)].commit["remote"].height <= bucket[s].commit["local"].height
        /\ bucket[s].commit["local"].height <= RemoteTip(bucket[Peer(s)]).height

\* Nothing is created or lost in a commitment, and once a side has nothing
\* left to sign or to be revoked its balance follows from the settles both
\* sides were told of.
SettledIds(s) == Forwarded(s, {"Settle"})
Quiet ==
    \A s \in Side : /\ ~ OweCommitment(bucket[s], log[s])
                    /\ ~ HasUnacked(bucket[s])
MoneyFollowsSettles ==
    \A s \in Side, c \in Chain :
        LET t == bucket[s].commit[c]
            held(x) == t.balance[x] + Cardinality(t.htlcs[x])
        IN  /\ held("local") + held("remote") = 2 * Balance
            /\ Quiet => held("local") = Balance - Cardinality(SettledIds(s))
                                       + Cardinality(SettledIds(Peer(s)))

\* Nobody waits for an answer that is not coming: with no message under way
\* and no link about to sign, every signature given was revoked; and before
\* the first reconnection every update acknowledged was signed as well.
Idle == \A s \in Side : wire[s] = << >> /\ pc[s] = "ready"
RemoteUpdatesOwed(s) ==
    bucket[s].commit["local"].messageIndex["remote"]
        # bucket[s].commit["remote"].messageIndex["remote"]
NobodyWaits ==
    Idle => \A s \in Side : /\ ~ HasUnacked(bucket[s])
                             /\ disconnects = 0 => ~ RemoteUpdatesOwed(s)

\* In the end both commitments hold the same updates.  A reconnection may
\* leave this to the next update.
Converges == <>[]Quiet
=============================================================================
