# Payments of lnd: a TLA+ development

The repository is an experiment about shared mission control data. Shell and Python scripts build a network of lnd nodes, import
a sample of payment history into them and measure the payments that follow. The program that decides the outcome is lnd itself,
whose source lies under `src/docker/lnd/` (all paths below are relative to it). This project specifies the part of lnd that an
experiment of this kind depends on: how a payment is sent and recorded, how its HTLCs are committed by channels, forwarded, held by an
interceptor and accepted for an invoice, and how its outcomes become the pair data of mission control, which the scripts import and export.

Contents: [inventory](#inventory), [modules](#modules-and-code), [runs](#runs), [bounds](#bounds), [fairness](#fairness),
[proofs](#proofs), [disagreements](#disagreements-between-code-and-comments), [limits](#what-is-not-modelled), [plan](#plan).

## Inventory

The components that are modelled, what each keeps and what makes it correct:

| Component | State | Operations | Hard behaviour | Correct when |
|---|---|---|---|---|
| Payment database, `channeldb/payment_control.go`, `mp_payment.go`, `payment_status.go`, `payments.go` | payment buckets with their attempts, sequence numbers, index by sequence number, sequence of the root bucket; in memory the reserved block of numbers | InitPayment, RegisterAttempt, SettleAttempt, FailAttempt, Fail, the deletions, restart | the sequence number is taken before the transaction; shards arrive one by one; deletion during a payment | no more is in flight or settled than the payment is worth, shards agree on their MPP record, index and buckets agree, a settled attempt stays |
| Payment lifecycle, `routing/payment_lifecycle.go`, `router.go` (SendPayment, Start), `control_tower.go` | one goroutine per payment with the payment it fetched last, its shard tracker, the channel `resultCollected` of capacity one, one collector goroutine per attempt | the loop (fetch, check, decide, route, register, send), collectors, resume after a restart | decisions on a stale payment, a channel with one place, two lifecycles of one hash, crash anywhere | the receiver gets at most the value, records are true, the caller is told the truth, everything ends |
| Local payments in the switch, `htlcswitch/switch.go` (SendHTLC, GetAttemptResult, handleLocalResponse), `payment_result.go` | circuits of local HTLCs, mailbox, forwarding package with the answer, result store | commit, deliver, answer, store, acknowledge, tear down, look up | the three transactions of an answer, the look-up between them, the cleaning of the store at start | an answer is neither lost nor made up |
| Forwarding, `htlcswitch/switch.go` (ForwardPackets, handlePacketForward), `link.go`, `mailbox.go` | two links with local logs, keystone batches and replay lists; mailboxes; packets between goroutines; channels and forwarding packages on disk | lock-in, replay, commit, route, deliver, expire, open, sign, acknowledge, answer, close, remove, delete, stop, start, restart | flapping links, replays, redelivery, expiry, crash between memory, disk and signature | the node neither fails back what may be settled nor forwards twice; every HTLC is resolved, every circuit deleted |
| Circuit map, `htlcswitch/circuit_map.go`, `circuit.go` | `pending`, `opened`, `closed` in memory, two buckets on disk | CommitCircuits, OpenCircuits, FailCircuit, CloseCircuit, DeleteCircuits, TrimOpenCircuits, NewCircuitMap | memory and disk change one after the other | the circuit is there as long as an answer may come, and no longer |
| Channel commitments, `lnwallet/channel.go`, the handlers of `htlcswitch/link.go`, `channeldb/channel.go`, `forwarding_package.go` | on each side two update logs and two commitment chains in memory, the channel bucket on disk, messages under way | add, settle, fail, change the fee, sign, revoke, lock in, re-establish | both sign at once, the connection breaks at any step, the logs are rebuilt from commitments and three lists of updates | two honest sides never disagree, every HTLC and removal is handed over once, revoked commitments are not held, money follows the settles, nobody waits for a lost message |
| Invoice registry, `invoices/*.go`, the exit hop of `htlcswitch/link.go` | the invoice with its HTLCs on disk; lock, subscriptions, timers, expiry watcher; `hodlQueue` and `hodlMap` of each link | accept, hold, settle, cancel, release, expire, notify, replay, stop, restart | the timer works without the lock, replays meet notifications, a link stops while the registry notifies it | preimages only for full payments, answers agree with the disk, everything held is released in time and its link hears of it |
| Interception, `htlcswitch/interceptable_switch.go`, `held_htlc_set.go`, `lnrpc/routerrpc/forward_interceptor.go` | held set, interceptor, what the session was offered, preimages | hold, offer, resume, settle, fail, expire, replay, on-chain offer, connect, disconnect, restart | an answer races expiry, replay and the end of the session | no HTLC is forgotten or held too long, the client is told of all, a required interceptor is never passed by |
| Mission control store, `routing/missioncontrol_store.go` | queue, stored records, `keys` and `keysMap` in memory, limit, ticker goroutine with a condition variable | AddResult, storeResults, clear, SetConfig, stop, restart | lost signals, a clear during a store, a failed transaction, a limit that changes | every record is tracked, the limit kept, the oldest pruned, the queue flushed, stop returns |
| Mission control, `routing/missioncontrol.go`, `missioncontrol_state.go`, RPCs of `lnrpc/routerrpc/router_server.go` | result ranges of pairs, second chances, relax interval; reports under way | report (time, store, apply), import, reset, configuration, restart | reports of several payments interleave with imports and restarts | the ranges of a pair do not overlap, a failure leaves a trace, a success is kept, fresher data wins, everything held against a pair has a stored result behind it |
| Result interpretation, `routing/result_interpretation.go` | none | interpretResult for every failure message and position | many cases over route positions, blinded routes | only pairs of the route are blamed, with an amount |

How they interact: an RPC starts a lifecycle, which initialises the payment in the database through the control tower, asks
pathfinding for a route, registers the attempt, and hands its HTLC to the switch. The switch commits a circuit and puts
the packet into the mailbox of a link, which proposes it to its peer as an update of the channel, signs, and hands it on once both
commitments hold it irrevocably. Other nodes' switches forward it the same way, through the interceptor if there is one; the last node asks its invoice registry whether to
settle, fail or hold it. The answer comes back through the forwarding
package of the link, the circuit and the result store to a collector goroutine, which records it and reports it to mission control.
Mission control queues the raw result in its store and updates the pairs that pathfinding reads. `import_mc.sh` writes pairs
through the RPC XImportMissionControl, `make_payments.sh` queries them and sends payments.

Components that are not modelled are listed under [limits](#what-is-not-modelled), and with their files in `PROJECT.json`, which also
has the list of hazards, each at its line, with the properties that watch it.

## Modules and code

| Module | Models | Kind |
|---|---|---|
| `MPPayment` | one payment record: attempts, status, what may be registered (`mp_payment.go`, `payment_status.go`) | operators |
| `PaymentControl` | the payment database, any callers | state machine on `MPPayment` |
| `PaymentLifecycle` | lifecycles, collectors, switch and link of one payment hash, network external | state machine on `MPPayment` |
| `IdealPayment` | what sending a payment promises | abstract specification |
| `MissionControlStore` | queue, ticker, database of results | state machine |
| `ResultInterpretation` | `interpretResult` | operators |
| `MissionControl` | pair state, concurrent reports, imports, restarts | state machine on `ResultInterpretation` |
| `CircuitMap` | the critical sections and transactions of the circuit map | operators |
| `Forwarding` | two links, mailboxes, the switch between them | state machine on `CircuitMap` |
| `CommitmentLog` | update logs, HTLC views, the next commitment | operators |
| `CommitmentChannel` | a channel with a node at each end | state machine on `CommitmentLog` |
| `Invoice` | the updates of an invoice, each one database transaction | operators |
| `InvoiceRegistry` | registry, watcher, RPCs, exit-hop links | state machine on `Invoice` |
| `InterceptableSwitch` | the interceptor with its client, one incoming channel, resolvers | state machine |
| `MCPaymentControl`, `MCMissionControl`, `MCInvoiceRegistry`, `MCInterceptableSwitch` | symmetry sets, routes, snapshots, payloads | instances for TLC; the other state machines are run directly |
| `SumTheorems` | sums over finite sets and their listing in order | lemmas |
| `PaymentControlProofs` (with the lemmas about `MPPayment`), `PaymentLifecycleProofs`, `MissionControlProofs` (with the store), `ForwardingProofs` (with the circuit map and the interceptor), `CommitmentChannelProofs` and `CommitmentAgreementProofs`, `InvoiceRegistryProofs` | theorems | proofs |

Correspondence. A database transaction is one action, so is a critical section under a lock; a goroutine that works on what it read
earlier keeps it in a variable of its own (`snap`, `batch`, `reporter`, `forwarding`). `map` in `PROJECT.json` gives the lines of
every definition.

*`PaymentControl`*: `payments`, `seqNum`, `index` and `bucketSequence` are the buckets, `inits` are the calls of InitPayment
between nextPaymentSequence and their transaction. Callers are free, except that attempt identifiers are used once (the
sequencer of the switch hands them out).

*`PaymentLifecycle`*: `pc[l]` is the line of the loop of resumePayment at which lifecycle *l* is, `collector[l][a]` that
of the goroutine of an attempt. `htlc[a]` is how far the HTLC got on disk (allocated, half: circuit committed, out: link
signed, answered, acked, gone), `packet[a]` the packet of the switch in memory. `Crash` forgets memory; `StartRouter` cleans the result
store and resumes what is in flight. The network answers any HTLC that is out with settle or fail. Whether mission control names a reason
after a failure is a free choice.

*`IdealPayment`*: a payment is pending until it succeeds or fails for good; outstanding and claimed amounts together never exceed
the value. `PaymentLifecycle` implements it under `phase <- Phase, live <- AmtOf(Live), paid <- AmtOf(Paid)`.

*`MissionControlStore`*: results are numbers in the order of their keys; `ticker` is the position of run, including the gap
between its check of the queue and Wait, where `stop` (which does not take the lock) can signal in vain.

*`MissionControl`*: a report is three steps, as in processPaymentResult: the time is taken, the result queued in the store, the
state updated under the lock. `state` is missionControlState. Imports are the snapshots of the RPC, forced or not.

*`Forwarding`*: link I locks an Add in and offers it (`offer`) to the goroutine of the InterceptableSwitch, which takes it
(`Accept`), commits the circuit in memory (`Commit`) and on disk (`WriteCircuit`), and routes it (`Route`) into the mailbox `mail` of O or
back into `reply`, the mailbox of I. Link O takes the head of its mailbox into its log (`DownstreamAdd`), opens circuits on disk and
in memory, signs, and acknowledges the mailbox: four steps, with stops and crashes between them. An answer goes through
`toRoute` and the circuit into `reply`; link I removes the HTLC and signs (`SignRemoval`), and deletes the circuit in memory and on
disk. `StartI`, `StartO`, `TrimKeystones`, `SyncO` are what a link does when its peer reconnects; `Restart` is a crash and NewCircuitMap with the switch's
reforwarding of answers. FailAdd of the mailbox, which passes its failure through the switch, is one step: the circuit in
between only waits for it.
`again` and `torn` are history: the HTLCs whose packet CommitCircuits took after they were removed, and whether DeleteCircuits left a gap below a keystone.

*`CommitmentChannel`*: `bucket[s]` is the channel bucket of side *s*: the two commitments (`commit`), the remote commitment signed but not revoked yet with its
messages (`diff`), the two lists of updates the signatures lag behind with (`unsignedAckedUpdates`, `remoteUnsignedLocalUpdates`), `lastWasRevoke` and the forwarding packages.
`log[s]` is what LightningChannel keeps in memory beyond that. `pc[s]` says whether the link waits for ChannelReestablish, for an event, is about to call updateCommitTx at
the end of a handler, or has failed the channel. `Disconnect` is the loss of the connection and the crash of an end alike: messages under way are gone and both ends are rebuilt from disk.
HTLCs are worth one unit and the commitment fee is not subtracted, so no balance limit is reached.

*`InvoiceRegistry`*: `call[p]` is where goroutine *p* stands (a link, an RPC, the event loop, the watcher): between transactions, holding the registry's lock or not, with the
subscribers it has still to notify. `registry` has the lock, the mutex of subscriptions, subscriptions, timers and what the watcher knows; a queue belongs to one incarnation of a link, so that a
subscription can outlive its link. `answer` and `revealed` are what the peer was told, `committed` what it acknowledged. `duplicates` is history: the HTLCs that came without MPP record to an accepted invoice and are held, which
the code does not register with the watcher. One of them may time out before the first; the third set of payloads of the runs has such a pair.

*`InterceptableSwitch`*: `link` has the HTLCs the incoming link has still to hand over (`todo`), the one under way to the loop's channel (`handing`) and whether it is replayed. `held` says by whom a held HTLC was offered
(link or on-chain resolver). `asked`, `seen` and `decision` belong to the client, `beacon` and `resolving` to the chain. Switch and outgoing channel are one circuit per HTLC: half (no keystone), stale (the same, loaded from
disk), late (the same, of a packet whose outgoing time lock is too near), open, closed. The mailbox refuses a second response (ErrPacketAlreadyExists), and a packet that the loop could therefore not fail goes on to the switch, as in interceptForward;
the outgoing link then refuses what is too late for it (`TooLateToForward`). In `CommitmentChannel` the check at link.go:1981-1997, that a settled HTLC is on both commitments, is left out: an honest peer settles only what was handed over to it.

## Runs

Passing runs; each of their properties is violated by a mutation of the code's model, listed in `PROJECT.json`.

| Run | Shows |
|---|---|
| `payment_control` | Any order of calls on two payments with three attempts in all. `SentWithinValue`: what is settled or in flight is within the value, so fetchPayment never refuses the record. `ShardsAgree`: live shards carry one MPP record. `IndexConsistent`: index entries and payments correspond, with concurrent InitPayment calls and lost blocks. `AttemptsAccounted`: attempts are added only while nothing is settled and no failure is recorded, attempts in flight are never dropped, and a settled one leaves only with its payment. |
| `lifecycle` | Two lifecycles, two attempts, one crash, deletion: `NoOverpay`, `RecordsTrue` (what the database calls failed cannot be claimed, what it calls settled was), `OutcomeTrue`, `WaitHasCollector` (nobody waits for a signal that no one sends), `NoRetryAfterTerminal` (no attempt is registered in place of one that got a terminal answer before the payment is failed), and `ImplementsIdeal`. |
| `lifecycle_restart` | With a crash or none: a settled HTLC gets recorded (`PaidRecorded`); every lifecycle and collector ends, despite the channel of capacity one, unless the crash lost an HTLC between circuit and link (`EndsUnlessLost`). |
| `mc_store` | Adds, clears, changes of the limit, failed transactions, stop and restart: `RecordsTracked`, `LimitKept`, `OldestPruned`, `QueueFlushed`. |
| `mc_reports` | Every message at every position of five routes (one blinded, one with its introduction at the end), reports and restarts. `FailurePenalised`: a failure leaves a trace, else the payment loop would choose the same route again. `SuccessKept`. |
| `mc_collectors` | Two concurrent collectors, two routes of different amounts, imports with and without force, resets, restarts, changes of the configuration. `Grounded`: every time and amount held for or against a pair, and every second chance used up, comes from a stored result of that time and amount (or from a snapshot), whatever the order in which results are timed, stored and applied. `RangesConsistent`: the amounts that succeed and that fail do not overlap. `ImportKeepsFresher`: an unforced import never makes a time older. |
| `forwarding` | Two HTLCs over two channels with one flap of each link and one crash, at any step, and any Add may be refused or expire. `NoLoss`: failed back only if no outgoing HTLC is or may be settled, settled only with a preimage. `ForwardedOnce`. `CircuitKept`: while an answer or the removal is due, circuit and keystone are on disk. `ResolvedUnlessDropped`: every HTLC is removed again, unless the switch gave its packet up. `CircuitsGo`: no circuit outlives its HTLC. All but `ForwardedOnce` are said until a removed HTLC is committed again or a keystone lies above a gap (`again`, `torn`), `ForwardedOnce` of HTLCs not committed again: that these happen is what `ForwardingReplay` and `ForwardingTrim` show. |
| `channel` | An HTLC each way and a fee change, with the connection lost twice. `NeverFails`: every signature verifies, every update and revocation is expected, every reconnection can be synchronised. `LockedInOnce`: an Add and its removal are handed over once, and only when both commitments have them. `RevokedNeverHeld`: no side would publish a commitment it revoked. `MoneyFollowsSettles`: no commitment creates or loses money, and once nothing is left to sign or revoke the balances follow from the settles handed over. `NobodyWaits`: with no message under way and no link about to sign, every signature given was revoked, and until the first reconnection every acknowledged update was signed. |
| `invoices` | Two halves on two links and a third HTLC, against timer, watcher, RPCs, a stop of a link or of the node. `PreimageOnlyForPayment`: a preimage goes out only when the invoice and every payment its HTLCs belong to are paid in full. `AnswersFollowInvoice`: no HTLC is failed whose preimage is out, none answered that the invoice holds, and queues bring a link only answers for HTLCs it holds. `HeldReleased`: an HTLC that waits for its set has a timer or its release on the way, one that waits for the preimage is known to the watcher by its own height or an earlier one; the exception, a duplicate that times out before all the watcher knows, is reached by `InvoicesDuplicate`. `HeldHears`: as long as no link has stopped and once nothing is under way, links hold only what the invoice holds. |
| `interceptor` | Two HTLCs, both modes, two sessions, a flap, a restart, a close on chain. `NothingForgotten`: an HTLC the link handed over is held, in the switch or answered. `HeldInTime`: nothing is held up to the reject delta of its expiry. `ClientKnows`: a connected client was offered everything held. `EveryForwardIntercepted`: with a required interceptor nothing goes out that it did not resume, also when a packet passes the loop because its failure was refused. `SeenNotFailedBack`: with a required interceptor, what the client has seen is failed back only by its answer or for its expiry. |

Runs that show a violation, both described [below](#disagreements-between-code-and-comments): `invoices_stuck` and `interceptor_twice`. Twenty further configurations that end in a violation are listed there, to be run by hand;
they are named like their `.cfg` file (`McRace`, `ForwardingTrim`, ...). The bounds of all of them are the least at which the violation shows.

## Bounds

* `payment_control`: value 2, amounts 1 and 2, two MPP records, two hashes and two callers, three attempts (a shard, a second one, a retry), blocks of 2 numbers and at most 3 drawn, so that a block is used up, a new one
  reserved and one lost by a restart. Keeping failed attempts is off, which is the variant that deletes more.
* `lifecycle`: value 2 in shards of 1 or 2; one InitPayment call (`MaxInits`) and two lifecycles, the second being the resumed one. With two InitPayment calls NoOverpay fails (`LifecycleTwice`). `lifecycle_restart` has value 1 because liveness needs the whole graph.
* `mc_store`: four results, each added once (`AddTwice = FALSE`, see the proofs), limits 0 (none), 1 and 2: batches smaller and larger than the limit.
* `mc_reports`: two times and amounts 1 and 2, so that every relation of two results (older, newer, lower, equal, higher, amount 0) occurs, all messages at all positions of five routes, restarts, one reporter: its properties are
  about one report in any state.
* `mc_collectors`: what several collectors at once can do. Two of them, times up to 2 (they may be equal, in order or crossed), two routes that share a pair and differ in their amounts, two messages (one a failure of a channel, one a policy failure that uses up a
  second chance), four snapshots of one pair each (an old and a new failure, a success, both), relax intervals 0 and 2. Snapshots of several pairs are imported pair by pair in the code; the theorems cover them.
* `forwarding`: two HTLCs and two outgoing indices, the least for a gap in the range of keystones, a batch of two and an index used again after trimming; one crash and one flap
  of each link, the least for a crash during a recovery from a flap; a forwarding package holds one update. Both HTLCs may expire in the mailbox. The run has one restriction: a packet that the goroutine of the switch took is committed before
  its link takes another step (`Prompt`), since liveness needs the whole graph, which is ten times larger without it. The theorems about `NoLoss`, `ForwardedOnce` and `CircuitKept` do not have this restriction, and `ForwardingReplay` shows what comes of a packet that is held up.
* `channel`: one HTLC each way and one fee change (both sides can sign different sets at once, and each removal crosses an Add), log indexes up to 3, two disconnections: the second hits the recovery
  from the first. The channel was updated before (`Fresh0 = FALSE`); a fee change as its very first update fails (`ChannelFirstFee`).
* `invoices`: two halves and a third HTLC that completes the sum alone or claims another total, on two links, so that a set completes on one link while the other is at any step; or two HTLCs that each pay the whole
  invoice, the second timing out before the first; expiries 2 and 3 with deltas 2 and 1
  at heights 0 and 1: an HTLC is too late, an invoice expires, or neither. One fault: a link or the whole node stops once.
* `interceptor`: two HTLCs (they share loop, session and link), expiry 3 with deltas 1 (reject and forward) and 2 (intercept) and heights up to 2, so that each bound is met; two sessions, one flap, one restart. The client answers an HTLC always the same (`Consistent`; with
  a client that resumes what it failed before, EveryForwardIntercepted could not be said) and settles with right preimages (`Mistakes`): a settle with a wrong one drops the HTLC from the held set without an answer,
  and with `Mistakes = TRUE` TLC finds `NothingForgotten` violated.

## Fairness

Only what runs by itself is fair. `PaymentLifecycle`: each lifecycle and collector goroutine, the switch and the link (weak fairness: goroutines
that can run do), the network (an HTLC is settled or failed, on chain at the latest), the start of the router after a crash. Crashes, deletions and calls of users are not. `MissionControlStore`:
the ticker and a stopper that has begun; its timer fires. `Forwarding`: the goroutines of the switch and of both links, answers of the
peer of O, and the start of a stopped link (the peer reconnects; bounded flaps stand for "it stays up in the end"). `CommitmentChannel`: the link of each side handles
its messages and signs; payments and disconnections are free. Stops, expiries and crashes are not fair. `NobodyWaits`, `HeldReleased` and `HeldHears` are
safety properties: they name who will act, and need no fairness. Weak fairness is enough: a guard that became true stays true until the goroutine acts, or the goroutine is gone.

## Proofs

Checked by TLAPS for every value of the constants under the assumptions named in the modules (`PaymentControlAssumption`, `MPPaymentAssumption`, `PaymentLifecycleAssumption`,
`MissionControlAssumption`, `SnapshotsAssumption`, `MaxIndexAssumption`, `ForwardingAssumption`, `CommitmentChannelAssumption`, `InvoiceRegistryAssumption`, `InterceptableSwitchAssumption`, `DeltasAssumption`), which TLC evaluates on its instances.
Each theorem rests on an inductive invariant: lemmas for the initial state and for each action or group of actions, and a temporal step that combines them.

`SumTheorems`: amounts are summed with `MapThenSumSet`, whose function is recursive on subsets. That it exists, that the sum of a set and one more element is what it should be, and
monotonicity, are shown without an induction theorem: of the finite sets for which they fail one would be smallest. Its last part lists a finite
set of numbers in order, which is what `Chronological` (the store reads its keys) and `Without` (a mailbox is cleaned) choose.

`PaymentControlProofs` begins with what the operators of a payment record return, on which `PaymentLifecycleProofs` builds, too:
* `Typing`: `Spec => []TypeOK`.
* `IndexSafety`: `Spec => []IndexConsistent` for any number of callers, block size and restarts. IndexConsistent is not
  inductive: nothing in it prevents two callers from getting one number. The strengthening `IndexInv` adds that numbers in
  use lie below the reserved ones (`BlockInv`), are distinct (`NumbersInv`), and that a caller's number is in use nowhere else (`HeldInv`).
* `SettledSafety`, `AttemptsSafety`: the action properties, from `TypeOK` and what each operation does to the set of attempts.
* `SentSafety`, `ShardsSafety`: `SentWithinValue` and `ShardsAgree` for any amounts. Registering is guarded by the sum; settling and failing only move attempts between the parts of it.

`PaymentLifecycleProofs`, for any number of attempts, lifecycles and crashes: `LifecycleTyping`; and when InitPayment is called once (`MaxInits <= 1`) `RecordsSafety`, `OutcomeSafety` and
`WaitSafety`. The invariant says for each attempt which places on disk, in the switch and at its collector go together, and for each lifecycle what it knows
of the payment at each line of its loop. The hypothesis is needed: a payment deleted while its lifecycle runs and sent again is resumed with attempts that its shard tracker does not know, which
are then failed although they are under way (`LifecycleTwice`); `NoOverpay` and `RecordsTrue` both fail with `MaxInits = 2`.

Its second part, under the same hypothesis: `OverpaySafety` (`NoOverpay`) and `IdealSafety`, the refinement: each step of the lifecycle, collectors, switch and
network is a step of `IdealPayment` or a stutter. What may still be claimed counts as sent in the database (`Placed`), and the rest is sums.

`MissionControlProofs`:
* `InterpretResultType`: for every route and outcome the interpretation names pairs of the network with an amount; indices stay within
  the route, among them those of blinded routes.
* `Typing` and `RangeSafety`: `Spec => []TypeOK`, `Spec => []RangesConsistent`, from `Inv == TypeOK /\ Ranges(state)`: each way a pair is changed keeps its two ranges apart.
* `ImportSafety` (`ImportKeepsFresher`), `SuccessSafety` (`SuccessKept`): action properties; the second needs which results can name a node as a whole.
* `PenaltySafety` (`FailurePenalised`) for networks whose routes use no pair of nodes twice in the same direction (`IsSimple`; a route of pathfinding visits a node once): on a
  route with a repeated pair a success of one channel would overwrite the failure of the other.
* `GroundedSafety` (`Grounded`), for any number of concurrent reporters, through imports, resets, changes of the configuration and restarts that lose results. Its invariant says that what a reporter is about to apply is in the store
  already, or was when a reset cleared it (`orphans`), and that what the state holds has its evidence among these or in a snapshot; each way a pair changes adds a result to its evidence or takes over what is there. That the state is also what
  a replay of the store gives (`Rederivable`) is no theorem: with two reporters it is false (`McRace`).
* The store, whose names do not clash with those of `MissionControl`, which it extends as well: `StoreTyping` and `StoreTracks` (`RecordsTracked`) for any number of results, limits, clears, failed transactions and restarts. When no result is added
  twice (`AddTwice = FALSE`) `StoreKeysOnce` (no key is in memory twice), `StoreLimit` (`LimitKept`) and `StoreOldest` (`OldestPruned`), from the invariant `Once`: the
  results of queue, batch and `keys` are apart and in each of them once, and `keys` has all that is in `keysMap` and on disk. The hypothesis is needed: a repeated result that storeResults does not filter (`McStoreTwice`) is two keys for one record,
  and TLC then finds `LimitKept` violated. Identifiers of attempts are unique within a node, so a repetition takes a second report of one attempt at one time.

`ForwardingProofs`: `LossSafety`, `OnceSafety`, `KeptSafety` (`NoLoss`, `ForwardedOnce`, `CircuitKept`) and `Typing`, for any number of HTLCs, outgoing indices, crashes, flaps and expiries and with no hypothesis: packets may be held up
before the switch, and any Add may expire at any place. There are two things the code does that no invariant survives, and both are in the statements as history, not as assumptions: CommitCircuits takes the packet of an HTLC that is
removed already (`again`), and DeleteCircuits leaves a gap below a keystone that was not signed (`torn`). `ForwardedOnce` speaks of every HTLC outside `again`; `NoLoss` and `CircuitKept` hold up to the first such step (`Undisturbed`).

Two invariants carry this. `Base` holds always: it says that the circuit of an HTLC that is locked in stays in memory and on disk while it is routed, delivered or committed, which is why no replay, however late, is taken twice before the
removal. `Inv` holds while the history is `Undisturbed`. It follows an HTLC from its place in link I (`Waiting`: offered, to be replayed, at the switch) over the mailbox (`Packets`), the log of O (`LocalLog`) and the commitment
(`Commitment`, `Answers`) to its response and removal (`Responses`, `Removals`), and says at each place what the circuit map has in memory (`CircuitsKnown`, `CircuitsOpen`) and on disk (`KeystonesOnDisk`,
`Uncommitted`, `TrimmedOnly`). The three properties alone are not inductive: that an HTLC is not committed again depends on the circuit that CommitCircuits finds, this on
what a crash or a flap left on disk, and this on TrimOpenCircuits having removed exactly the keystones beyond the last commitment, for which they must be without gaps. Each action has a lemma for each of the two.

`InvoiceRegistryProofs`:
* `PreimageSafety` and `AnswersSafety` (`PreimageOnlyForPayment`, `AnswersFollowInvoice`) from one invariant: the invoice is well formed (`PaidUp` once it is settled), at
  most one goroutine is between the lock and its release, and for each state of the invoice it is said what may be in queues, among notifications and among answers.
* `HearsSafety` (`HeldHears`) adds `HearInv`: a held HTLC is subscribed or on the list of whoever is notifying.
* `HeldSafety` (`HeldReleased`) adds `ReleaseInv`: what a link holds of an open invoice has a timer; every HTLC of an accepted invoice, held or not, is known to the watcher or on the way to it
  with a height that is not 0 (0 stands for "no expiry" in the code); and a link that is on its way to hold an HTLC without asking for a timer does so because the invoice is open no more. It
  assumes `FinalCltvDelta > 0` (the reject delta lnd configures is 13, lncfg/config.go:42) and nothing of the payloads. A second HTLC without MPP record that comes to an accepted
  invoice (`resultDuplicateToAccepted`, update.go:434) is held, but only `resultAccepted` registers with the watcher (invoiceregistry.go:1175). The statement says exactly what this costs: such a duplicate (`duplicates`)
  is the only HTLC that may be unknown to the watcher, and only if it times out before every HTLC of the invoice that is not one (`MissedDuplicate`); a duplicate that times out later is covered by the height of another (`WatchedLater`). `InvoicesDuplicate` reaches the exception.

The second part of `ForwardingProofs` is the interceptor: `InterceptTyping`, `InTimeSafety`, `ClientSafety`, `RequiredSafety`, `ReplaySafety`, and `CareSafety` (`NothingForgotten`) for a client that makes no mistakes.
`RequiredSafety` includes the path on which a packet passes the loop because the mailbox refused its failure: such a packet is too late for interception, so, as `DeltasAssumption` says of the configured deltas, too late for the outgoing link as well.
The invariant relates what the link has still to hand over, the held set, the circuits and the answers in the mailbox.

`CommitmentChannelProofs`, for any number of HTLCs, updates, fee changes and disconnections, of a channel that was updated before or of a fresh one without fee changes (`FeeRatesKnown`; `ChannelFirstFee` shows `NeverFails`
violated otherwise: the key that a first fee change needs is not written, and `Keys` below is then false):
* `ChannelInductive` (`ChannelInv`): typing, and for each side `LogInv`, which relates its two logs to its bucket. The commitments of a bucket are ordered, the peer's ahead in our updates and ours in the peer's (`Ordered`); an entry is
  included by a commitment exactly if its index is below that of the commitment and it is stamped with the height at which that happened (`Stamped`, `Counters`); what is not on all commitments is in the logs
  (`Complete`); a commitment holds the HTLCs of the logs that it includes and does not resolve (`Contents`, `Parents`); the diff and the two lists of updates are what the commitments do not tell (`Stored`). It speaks of one side only and assumes
  nothing of what the peer sends but its type, since every handler that does not fail the channel checks what it takes. The hard case is `Disconnect`: the entries that restoreCommitState finds again (`Survives`) and the
  heights it gives them (`Rebuilt`) satisfy `LogInv` again, and the restoring never fails for want of an HTLC that a removal refers to (`AlwaysRestorable`).
* `LockedInSafety` (`LockedInOnce`), from `LogInv` alone: what the forwarding packages hold follows from the remote commitment (`Packages`).
* `RevokedSafety` (`RevokedNeverHeld`) and `WaitSafety` (`NobodyWaits`) from `WaitInv`, which is about both sides: a signature under way is for at most the tip its sender has stored, a revocation for a commitment its sender has replaced
  (`InStep`); a side that waits for ChannelReestablish has it at the head of its queue as the peer's bucket says (`Syncing`); and a signature without revocation is under way, or its revocation is, or
  the pending re-establishment will send one of them again (`Waiting`).
  That both sides compute the same commitment (`NeverFails`) is not needed for this: a link that fails sends nothing more.

`CommitmentAgreementProofs`, under the same hypothesis: `AgreeSafety` (`NeverFails`), any number of HTLCs, updates and disconnections. Its invariant `AgreeInv` is about the contents of both sides, where `WaitInv` is about their heights:
* `ChainsAgree`: the commitment a side holds mirrors the one its peer keeps of it (heights, HTLCs, balances, fee rate, indexes), and a commitment that is signed but not received covers the updates of the receiver that the receiver
  itself counts as acknowledged. A commitment follows the one before it by the updates between their indexes (`Follows`, `Window`), and two that follow the same one by the same updates are the same (`MirrorsNext`).
* `LogsAgree`: the peer's copy of a log has no update that the log does not have, and ends at an earlier index or the same.
* `Conveys`: read in order, the messages under way are the updates between the copy's index and the log's, the signature where the log was when it was made, and the revocation, in the order of the two that `lastWasRevoke`
  remembers. This is what makes the receiver compute the commitment that was signed, in whatever order both sides sign.
* `NextOnDisk` and `AtRest` carry this over a disconnection, which empties the queues: the copies are cut back to what the commitments include, and what processChanSyncMsg resends (updates of the diff, signature, revocation,
  in the order of `lastWasRevoke`) satisfies `Conveys` again.
Each handler is a lemma about the logs and buckets of both sides (`UpdateTaken`, `SignatureGiven`, `SignatureTaken`, `RevocationTaken`, `Synced`), and each action of the channel a lemma that uses it.

`MoneySafety` (`MoneyFollowsSettles`) comes on top of `AgreeInv`. Its invariant `MoneyInv` says of each side that its commitments, those not revoked yet included, hold what both sides brought (`Balanced`), and that in its own one it
has what it began with, plus the settles of its own and minus those of the peer that this commitment includes (`Earned`). The property speaks of forwarding packages when all is quiet; in between, a settle is counted where its receiver has it: in a
package once it is locked in, before that in the receiver's copy of the sender's log, at an index the commitment has reached (`Settled`). So `Earned` compares a side's commitment with the packages and logs of both, and the steps that matter are these:
* A signature is taken (`ReceivedMoney`): the commitment gains the settles of the windows it adds (`HeldNext`, from `Follows`), `Settled` grows by as many (`SettledNext`: no HTLC is settled twice, and none that is in a package already), and the window of our
  own settles is the one in the peer's copy of our log (`WindowsAgree`), which is where `AgreeInv` is needed.
* A revocation is taken (`RevokedMoney`): settles move from the log into a package, all those and only those that the revoked commitment did not have (`SettledRevoked`), so what `Settled` counts stays.
* A disconnection (`DisconnectMoney`): the logs shed updates, but none below the index a commitment has reached and still lacks in the packages (`SettledKept`).
With nothing to sign or to be revoked all indexes meet, `Settled` is what the packages name (`AllSettled`), and the peer's commitment mirrors ours.

Model-checked only: what `ResultInterpretation` blames beyond what the theorems say; all liveness, which is out of the prover's reach, as are ENABLED and induction over data. No module
declares a recursive operator.

## Disagreements between code and comments

Listed as findings, each with its run:

* `invoices_stuck` (`NeverStuck`): channelLink.Stop unsubscribes from the registry before its goroutine has ended (link.go:558). An HTLC the goroutine is handing over subscribes the stopped queue again, and the next notification for it blocks until the registry stops, with the mutex of all subscriptions held. `invoiceregistry.go:878-880` asks the caller to prevent exactly that.
* `interceptor_twice` (`ForwardedAtMostOnce`): the interceptor looks only at what is held now (interceptable_switch.go:509). An HTLC already in flight is held again when its link flaps; when it has been settled, its circuit deleted and it is then resumed, it goes out a second time. link.go:991-993 relies on duplicates being filtered out downstream.

Configurations to be run by hand with `tlc -config`, each of which ends in a violation of the property it names:

| Configuration (module) | Property | Shows |
|---|---|---|
| `LifecycleTwice` (`PaymentLifecycle`) | `NoOverpay` | a payment counts as failed as soon as FailPayment runs with no attempt in flight, while its lifecycle goes on with the payment it fetched before. Sent again, the payment has two lifecycles; the second resumes the attempt of the first, does not find it in its shard tracker, marks it failed (payment_lifecycle.go:468) and sends the value once more. control_tower.go:44 names preventing duplicate payments as the primary purpose of the tower. |
| `McStoreStop` (`MissionControlStore`) | `StopReturns` | `stop` signals the condition variable without its lock (missioncontrol_store.go:285); between the ticker's look at the queue and its Wait the signal is lost and `stop` never returns. |
| `McRace` (`MCMissionControl`) | `Rederivable` | two reporters apply their results in another order than their times (missioncontrol.go:455); the replay at a restart gives another state, although the store is said to be what the state "can be rederived" from. |
| `McImportStale` (`MCMissionControl`) | `StaleImportIgnored` | an import that has only an older success erases the amount of the known one. The failure it does not have takes part with time zero and amount zero (missioncontrol_state.go:238): it is not older than the failure the node does not have, and amount zero means "fails for every amount". Only results that are fresher are said to be used. |
| `ForwardingReplay` (`Forwarding`) | `NeverTwice` | forwardBatch (link.go:3704) asks the mailbox for a response before the packet changes goroutines; if the switch is held up there until the response was signed and its circuit deleted, the Add is committed and forwarded again. link.go:991-992 relies on duplicates being filtered out downstream. |
| `ForwardingTrim` (`Forwarding`) | `NoGaps` | an Add expires in the mailbox after its keystone was written but before it is signed (mailbox.go:538); its circuit is deleted and leaves a gap, at which trimming stops, although circuit_map.go:707 says that "there should never be disjoint segments of keystones to trim". The index is used again, and the keystone left behind is then another HTLC's. |
| `ForwardingQuit` (`Forwarding`) | `Resolved` | a stopping link makes routeAsync give up a packet whose circuit was just committed (switch.go:756). Replays of the Add are dropped, since circuit_map.go:836 expects the packet in a mailbox; the HTLC is stuck until the node restarts. |
| `ChannelFirstFee` (`CommitmentChannel`) | `NeverFails` | AdvanceCommitChainTail (channeldb/channel.go:3054) returns early when `unsignedAckedUpdates` was never written ("This shouldn't normally happen"), before it writes `remoteUnsignedLocalUpdates`: if the first update of a channel is a fee change and the connection breaks after it was acknowledged, the initiator has forgotten it, and the peer's signature, which covers it, does not verify. |
| `LinkOwes` (`CommitmentChannel`) | `Converges` | a link that stops after its revocation and before it signs owes a signature (link.go:2273). processChanSyncMsg makes up for it only if the peer lacks the revocation (lnwallet/channel.go:4544); otherwise nothing does until the next update. |
| `InvoicesDuplicate` (`MCInvoiceRegistry`) | `HeldWatched` | a second HTLC without MPP record that pays an accepted hold invoice is held but not registered with the expiry watcher (invoiceregistry.go:1174), although it may time out first. sample-lnd.conf:1634-1637 promises that such invoices are cancelled before their HTLCs expire. |
| `InvoicesMissed` (`MCInvoiceRegistry`) | `MissesNothing` | a link that came back replays an HTLC that has a timer of its first time; the timer, which does not take the registry's lock (invoiceregistry.go:622), can release the HTLC, and notify nobody, after the replay was told to hold it and before the replay subscribes. invoiceregistry.go:883-886 says that a timer will cancel what is held. |
| `InterceptorLate` (`MCInterceptableSwitch`) | `ExpiredAreFailed` | when an expired packet cannot be failed, interceptForward lets it pass to the switch even if an interceptor is required (interceptable_switch.go:474-493), where "we should never get here". A held HTLC whose link flaps, which a block fails and whose replay the loop takes after that, gets there: the second failure is refused with ErrPacketAlreadyExists (mailbox.go:584). |
| `LifecycleStuck`, `LifecycleAbandons` (`PaymentLifecycle`) | `LifecycleEnds`, `AttemptsResolve` | after a crash that lost an HTLC between circuit and mailbox no answer arrives for its attempt; a lifecycle that aborts leaves its attempts in flight in the database until the next restart |
| `PaymentFail` (`MCPaymentControl`) | `FailAllowsInit` | control_tower.go:280 says that InitPayment returns nil after FailPayment; it does not while attempts are in flight, nor when one of them settles later |
| `McStoreTwice` (`MissionControlStore`) | `NoKeyTwice` | storeResults removes the element its loop stands on, which ends the loop: the rest of the batch is not checked for repetitions |
| `McStoreClear` (`MissionControlStore`) | `ClearedStaysCleared` | a batch taken before clear is stored after it |
| `McImportZero` (`MCMissionControl`) | `ZeroFailureAccepted` | an import with failure amount 0, said to be accepted, is refused when no amount of the pair is positive |
| `InterceptorPocket` (`MCInterceptableSwitch`) | `NeverOutOfPocket` | an HTLC in flight is intercepted again when its link flaps, and then failed back, by the client or because it is about to expire, while its outgoing HTLC can still be settled |
| `InterceptorChain` (`MCInterceptableSwitch`) | `PreimageUsed` | a packet of an on-chain resolver has no AutoFailHeight and leaves the held set at the next block; the preimage the client then gives is refused |

A keystone that was never committed may outlive its circuit on disk: TrimOpenCircuits takes it from memory first, DeleteCircuits then
does not see it, and a crash between memory and disk of the trimming keeps it. restoreMemState ignores it; `CircuitsGo` speaks of committed keystones.

## What is not modelled

* The harness (`automate.sh`, the generation of the network by `channel_graph_generator.py` and `source_destination_nodes_generator.py`,
  `extract_node_pubkeys.sh`, `fund_lnd_nodes.sh`, `open_channels.sh`, `compute_complete_route_in_shortest_path.sh`, `make_payments.sh`, `import_mc.sh`, `process_mc_samples.py`):
  scripts that run once from top to end; their effect on a node is an import and payments, which are modelled.
* Pathfinding and the probability estimators: floating-point arithmetic.
* Of the channel: amounts, dust, reserve and the limits on them, signatures and transactions, closing, and the mailbox and switch around the link, which are in `Forwarding`. `Forwarding` reduces the channel to what is written
  with a signature; the two are not composed.
* Of invoices: AMP sets, keysend, several invoices, subscriptions of users. Of interception: the circuits and channels around it, reduced to one circuit per HTLC.
* Contract court and sweeping, funding, closing, gossip and graph, peers and transport, wallet and chain access,
  watchtowers, SendToRoute and AMP, control tower subscriptions, RPC conversion, databases below the transaction,
  notifications and autopilot. `PROJECT.json` gives the reason for each.
* Within modelled components: paginated queries, serialisation and the legacy duplicates bucket of the payment database; the hash index and
  cleanClosedChannels of the circuit map; the choice among several links to one peer.

One hazard has no property: a subscriber of all payments is registered before the payments in flight are fetched (`routing/control_tower.go:360`).

## Plan

Done, in this order: payment database, lifecycle and its abstract specification, mission control store, result interpretation, mission control,
circuit map and forwarding, interceptor, channel commitments, invoice registry; theorems of the payment database, the lifecycle with its refinement, mission control and its store, forwarding, the interceptor, the channel and the registry. Left:

1. `ControlTower`: subscribers of one and of all payments against concurrent updates; every subscriber sees the final state and its channel closes.
2. SendToRoute and the AMP shard tracker next to the lifecycle; AMP sets of an invoice.
3. `ValidationBarrier`, `BatchScheduler`, the arbitrator of contract court as a state machine, selection and import of samples by the harness.
4. Composition of `CommitmentChannel` with `Forwarding`, and of `MissionControl` with `MissionControlStore`, which replaces the free loss of results at a restart.

Every invariant of a passing run is stated by a theorem now; theorems to prove next come with the modules above. `NoRetryAfterTerminal` is checked, not proved.
