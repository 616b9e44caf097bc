---------------------------- MODULE CommitmentLog ----------------------------
(***************************************************************************)
(* The update logs and commitments of one channel as lnwallet/channel.go   *)
(* keeps them.  A log holds the updates one side proposed: HTLCs added,    *)
(* HTLCs of the other side settled or failed, fee updates.  Every entry    *)
(* remembers the height of the local and of the remote commitment that     *)
(* first included it, 0 when none did.  A commitment is described by the   *)
(* indexes into the two logs it reaches, its HTLCs, balances and fee rate. *)
(*                                                                         *)
(* Everything is said from the point of view of one side: "local" is its   *)
(* own commitment chain and its own log, "remote" those of its peer.  All  *)
(* HTLCs are worth one unit, and the commitment fee is not taken from the  *)
(* balance of the initiator.                                               *)
(***************************************************************************)
EXTENDS Integers, FiniteSets

Chain == {"local", "remote"}
Opposite(c) == IF c = "local" THEN "remote" ELSE "local"

Heights == [Chain -> Nat]
UpdateKind == {"Add", "Settle", "Fail", "FeeUpdate"}

\* A LogUpdate, a ChannelCommitment and a CommitDiff as they are on disk.
LogUpdateType == [type : UpdateKind, logIndex : Nat, id : Nat]
CommitmentType ==
    [height : Nat, messageIndex : Heights, htlcIndex : Heights,
     htlcs : [Chain -> SUBSET [id : Nat, logIndex : Nat]],
     balance : [Chain -> Int], feePerKw : Nat]
CommitDiffType == [commit : CommitmentType, updates : SUBSET LogUpdateType]

\* A PaymentDescriptor.  "id" is HtlcIndex for an Add, ParentIndex for its
\* removal and the fee rate for a FeeUpdate; MalformedFail is a Fail.
Entry(type, logIndex, id) ==
    [type |-> type, logIndex |-> logIndex, id |-> id,
     added |-> [c \in Chain |-> 0], removed |-> [c \in Chain |-> 0],
     isForwarded |-> FALSE]

IsRemoval(e) == e.type \in {"Settle", "Fail"}

\* What is written to disk and sent to the peer for an entry.
LogUpdate(e) == [type |-> e.type, logIndex |-> e.logIndex, id |-> e.id]
LogUpdates(entries) == {LogUpdate(e) : e \in entries}

newUpdateLog(logIndex, htlcCounter) ==
    [logIndex |-> logIndex, htlcCounter |-> htlcCounter,
     entries |-> {}, modified |-> {}]

appendUpdate(log, type, id) ==
    [log EXCEPT !.entries = @ \cup {Entry(type, log.logIndex, id)},
                !.logIndex = @ + 1]

appendHtlc(log) ==
    [appendUpdate(log, "Add", log.htlcCounter) EXCEPT !.htlcCounter = @ + 1]

AddsOf(log) == {e \in log.entries : e.type = "Add"}
HasHtlc(log, id) == \E e \in AddsOf(log) : e.id = id
htlcHasModification(log, id) == id \in log.modified
markHtlcModified(log, id) == [log EXCEPT !.modified = @ \cup {id}]

---------------------------------------------------------------------------
\* The next commitment of a chain.  logs[c] is the log of side c, upto[c] the
\* index up to which its updates are included.

fetchHTLCView(logs, upto) ==
    [c \in Chain |-> {e \in logs[c].entries : e.logIndex < upto[c]}]

\* fetchParent: the HTLC a removal resolves is in the log of the other side
\* and is on this chain already.
ParentsFetched(logs, view, chain) ==
    \A c \in Chain : \A r \in view[c] : IsRemoval(r) =>
        \E a \in AddsOf(logs[Opposite(c)]) : a.id = r.id /\ a.added[chain] # 0

\* HTLCs that stay: those no removal in the view resolves.
Kept(view, c) ==
    {e \in view[c] : e.type = "Add" /\
        ~ \E r \in view[Opposite(c)] : IsRemoval(r) /\ r.id = e.id}

\* Entries this commitment is the first of its chain to include.
Fresh(view, c, chain) ==
    {e \in Kept(view, c) : e.added[chain] = 0}
        \cup {e \in view[c] : IsRemoval(e) /\ e.removed[chain] = 0}
        \cup {e \in view[c] : e.type = "FeeUpdate" /\ e.added[chain] = 0}

Count(entries, type) == Cardinality({e \in entries : e.type = type})

\* Mutant: a failed HTLC is paid to its receiver.
FailPays(tip, fresh, c) ==
    tip.balance[c] - Count(fresh[c], "Add")
        + Count(fresh[c], "Settle") + Count(fresh[c], "Fail")

\* evaluateHTLCView credits and debits the balances of the last commitment:
\* an added HTLC leaves its sender, a settled one goes to its receiver, a
\* failed one back to its sender.
NextBalance(tip, fresh, c) ==
    tip.balance[c] - Count(fresh[c], "Add")
        + Count(fresh[c], "Settle") + Count(fresh[Opposite(c)], "Fail")

\* The last fee update that is new to the chain sets the rate.
NextFee(tip, fresh) ==
    LET fees == {e \in fresh["local"] \cup fresh["remote"] :
                    e.type = "FeeUpdate"}
    IN  IF fees = {} THEN tip.feePerKw
        ELSE (CHOOSE f \in fees : \A g \in fees : g.logIndex <= f.logIndex).id

Htlc(e) == [id |-> e.id, logIndex |-> e.logIndex]

fetchCommitmentView(logs, tip, chain, upto, counters) ==
    LET view == fetchHTLCView(logs, upto)
        fresh == [c \in Chain |-> Fresh(view, c, chain)]
    IN  [height |-> tip.height + 1,
         messageIndex |-> upto,
         htlcIndex |-> counters,
         htlcs |-> [c \in Chain |-> {Htlc(e) : e \in Kept(view, c)}],
         balance |-> [c \in Chain |-> NextBalance(tip, fresh, c)],
         feePerKw |-> NextFee(tip, fresh)]

\* The mutation of the logs that goes with it (mutateState).
Stamp(e, chain, height) ==
    IF e.type = "Add" THEN [e EXCEPT !.added[chain] = height]
    ELSE IF IsRemoval(e) THEN [e EXCEPT !.removed[chain] = height]
    ELSE [e EXCEPT !.added[chain] = height, !.removed[chain] = height]

evaluateHTLCView(logs, tip, chain, upto) ==
    LET view == fetchHTLCView(logs, upto)
    IN  [c \in Chain |->
            [logs[c] EXCEPT !.entries =
                {IF e \in Fresh(view, c, chain)
                    THEN Stamp(e, chain, tip.height + 1) ELSE e : e \in @}]]

---------------------------------------------------------------------------
\* compactLogs: a removal that is below the tails of both chains leaves the
\* log together with the HTLC it resolved.
Evicted(log, tail) ==
    {e \in log.entries : /\ e.type # "Add"
                         /\ \A c \in Chain : /\ e.removed[c] # 0
                                             /\ e.removed[c] <= tail[c]}

compactLogs(logs, tail) ==
    LET gone == [c \in Chain |-> Evicted(logs[c], tail)]
        parents(c) == {r.id : r \in {e \in gone[Opposite(c)] : IsRemoval(e)}}
    IN  [c \in Chain |->
            [logs[c] EXCEPT
                !.entries = {e \in @ \ gone[c] :
                                ~ (e.type = "Add" /\ e.id \in parents(c))},
                !.modified = @ \ parents(c)]]
=============================================================================
