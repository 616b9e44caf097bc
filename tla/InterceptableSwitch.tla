-------------------------- MODULE InterceptableSwitch --------------------------
(***************************************************************************)
(* Interception of forwards (htlcswitch/interceptable_switch.go): the loop *)
(* between the links and the switch that offers every HTLC to a client and *)
(* holds it until the client resumes, settles or fails it.                 *)
(*                                                                         *)
(* HTLCs arrive on one channel.  Its link hands each of them over when it  *)
(* is locked in, and again after every start of the link until an answer   *)
(* is committed.  When the channel is closed on chain, the resolver of     *)
(* each HTLC offers it once more.  The client comes and goes, the loop     *)
(* fails what is about to expire, the node restarts.  Switch and outgoing  *)
(* channel are reduced to one circuit per HTLC (see Forwarding) and the    *)
(* time lock the outgoing link asks for.                                   *)
(***************************************************************************)
EXTENDS Integers

CONSTANTS
    Htlc,
    Expiry,             \* incomingTimeout of each HTLC
    CltvRejectDelta, CltvInterceptDelta,
    CltvForwardDelta,   \* blocks the outgoing link asks for: TimeLockDelta and
                        \* OutgoingCltvRejectDelta, less those by which the
                        \* switch may be behind the loop
    Consistent,         \* whether the client answers an HTLC always the same
    Mistakes,           \* whether the client may settle with a wrong preimage
    MayClose,           \* whether the channel may be closed on chain
    NoHtlc,
    MaxHeight, MaxFlaps, MaxRestarts, MaxSessions  \* bounds

ASSUME InterceptableSwitchAssumption ==
    /\ Expiry \in [Htlc -> Nat]
    /\ CltvRejectDelta \in Nat /\ CltvInterceptDelta \in Nat
    /\ CltvInterceptDelta > CltvRejectDelta
    /\ Consistent \in BOOLEAN /\ Mistakes \in BOOLEAN /\ MayClose \in BOOLEAN
    /\ NoHtlc \notin Htlc
    /\ {MaxHeight, MaxFlaps, MaxRestarts, MaxSessions} \subseteq Nat

\* lncfg and the policies: CltvInterceptDelta is 16 blocks, TimeLockDelta at
\* least 18 and OutgoingCltvRejectDelta 3.
ASSUME DeltasAssumption ==
    CltvForwardDelta \in Nat /\ CltvInterceptDelta <= CltvForwardDelta + 1

VARIABLES
    required,     \* requireInterceptor; never changes
    height,       \* currentHeight
    incomingHtlc, \* the HTLCs on the incoming channel
    offerable,    \* HTLCs whose forwarding package is processed (on disk)
    link,         \* the incoming link: HTLCs it has to hand over, the one it
                  \* hands over, and whether that is a replay
    response,     \* responses in the mailbox of the link
    circuit,      \* circuit map, see Circuit
    out,          \* state of the HTLC on the outgoing channel
    sent,         \* times it was sent there
    held,         \* heldHtlcSet: by whom the HTLC was offered
    interceptor,  \* whether one is registered
    asked,        \* offered in this session of the client, not answered yet
    seen,         \* offered to the client at any time
    decision,     \* the client's last answer
    beacon,       \* preimages the node knows
    resolving,    \* on-chain resolvers that offered their HTLC
    flaps, restarts, sessions

clientVars == <<interceptor, asked, seen, sessions>>
outVars == <<out, sent>>
chainVars == <<beacon, resolving>>
flapBounds == <<flaps, restarts>>
interceptVars == <<required, height, incomingHtlc, offerable, link, response,
                   circuit, outVars, held, clientVars, decision, chainVars,
                   flapBounds>>

\* "half" has no keystone, "late" neither and will not get one, "stale" neither
\* and was loaded from disk, "closed" has its answer.
Circuit == {"none", "half", "late", "stale", "open", "closed"}
Action == {"resume", "settle", "fail"}
NewLink(up) == [up |-> up, todo |-> {}, handing |-> NoHtlc, replay |-> FALSE]

InterceptTypeOK ==
    /\ required \in BOOLEAN
    /\ height \in Nat
    /\ incomingHtlc \in [Htlc -> {"none", "locked", "settle", "fail"}]
    /\ offerable \subseteq Htlc
    /\ link \in [up : {"up", "down", "closed"}, todo : SUBSET Htlc,
                 handing : Htlc \cup {NoHtlc}, replay : BOOLEAN]
    /\ response \in [Htlc -> {"none", "settle", "fail"}]
    /\ circuit \in [Htlc -> Circuit]
    /\ out \in [Htlc -> {"none", "out", "settle", "fail"}]
    /\ sent \in [Htlc -> Nat]
    /\ held \in [Htlc -> {"no", "link", "chain"}]
    /\ interceptor \in BOOLEAN
    /\ asked \subseteq Htlc /\ seen \subseteq Htlc
    /\ decision \in [Htlc -> Action \cup {"none"}]
    /\ beacon \subseteq Htlc /\ resolving \subseteq Htlc
    /\ flaps \in Nat /\ restarts \in Nat /\ sessions \in Nat

InterceptInit ==
    /\ required \in BOOLEAN
    /\ height = 0
    /\ incomingHtlc = [h \in Htlc |-> "none"] /\ offerable = {}
    /\ link = NewLink("up")
    /\ response = [h \in Htlc |-> "none"]
    /\ circuit = [h \in Htlc |-> "none"]
    /\ out = [h \in Htlc |-> "none"] /\ sent = [h \in Htlc |-> 0]
    /\ held = [h \in Htlc |-> "no"]
    /\ interceptor = FALSE /\ asked = {} /\ seen = {} /\ sessions = 0
    /\ decision = [h \in Htlc |-> "none"]
    /\ beacon = {} /\ resolving = {}
    /\ flaps = 0 /\ restarts = 0

---------------------------------------------------------------------------
(* What the loop does with forwards.                                       *)

\* Mailbox of the link.  The first response stays; another one is an error
\* (ErrPacketAlreadyExists), which interceptForward acts on, which ends the
\* stream of the client (Disconnect), and which all others only log.
Deliver(S, r) == [h \in Htlc |-> IF h \in S /\ response[h] = "none" THEN r ELSE response[h]]

\* Mutant: the outgoing link does not look at the time lock.
NeverLate(h) == FALSE

\* CheckHtlcForward and canSendHtlc: the incoming time lock must be TimeLockDelta
\* above the outgoing one, and that one further ahead than OutgoingCltvRejectDelta.
TooLateToForward(h) == Expiry[h] <= height + CltvForwardDelta

\* Switch.ForwardPackets: a new circuit is committed and its packet routed, a
\* circuit without a keystone from before a restart is failed, others drop.
ForwardPackets(S) ==
    /\ circuit' = [h \in Htlc |->
           IF h \in S /\ circuit[h] = "none"
             THEN IF TooLateToForward(h) THEN "late" ELSE "half"
           ELSE IF h \in S /\ circuit[h] = "stale" THEN "closed" ELSE circuit[h]]
    /\ response' = Deliver({h \in S : circuit[h] = "stale"}, "fail")

FailWithCode(S) == response' = Deliver(S, "fail") /\ UNCHANGED circuit

HeldBy(who) == {h \in Htlc : held[h] = who}

Offer(S) ==
    /\ asked' = asked \cup S
    /\ seen' = seen \cup S

Push(h, who) ==
    /\ held' = [held EXCEPT ![h] = who]
    /\ IF interceptor THEN Offer({h}) ELSE UNCHANGED <<asked, seen>>
    /\ UNCHANGED <<circuit, response>>

\* Mutant: without an interceptor every packet is failed back.
ForwardForgetsReplays(h, who, replay) ==
    IF held[h] # "no" THEN UNCHANGED <<held, circuit, response, asked, seen>>
    ELSE IF interceptor THEN Push(h, who)
    ELSE /\ IF required THEN FailWithCode({h})
            ELSE IF who = "link" THEN ForwardPackets({h})
            ELSE UNCHANGED <<circuit, response>>
         /\ UNCHANGED <<held, asked, seen>>

\* forward: hold the HTLC for the client, or not.
forward(h, who, replay) ==
    IF held[h] # "no" THEN UNCHANGED <<held, circuit, response, asked, seen>>
    ELSE IF interceptor \/ (required /\ replay) THEN Push(h, who)
    ELSE /\ IF required THEN FailWithCode({h})
            ELSE IF who = "link" THEN ForwardPackets({h})
            ELSE UNCHANGED <<circuit, response>>
         /\ UNCHANGED <<held, asked, seen>>

\* Mutant: an HTLC counts as expired with its reject delta only.
TooLateToReject(h) == Expiry[h] < height + CltvRejectDelta

TooLateToIntercept(h) == Expiry[h] < height + CltvInterceptDelta

\* handleExpired: when the failure is refused, the packet goes to the switch,
\* also if an interceptor is required.
handleExpired(h) ==
    /\ IF response[h] = "none" THEN FailWithCode({h}) ELSE ForwardPackets({h})
    /\ UNCHANGED <<held, asked, seen>>

\* interceptForward, for the HTLC the link hands over.
interceptForward ==
    LET h == link.handing
    IN  /\ h # NoHtlc
        /\ link' = [link EXCEPT !.handing = NoHtlc]
        /\ IF TooLateToIntercept(h) THEN handleExpired(h)
           ELSE forward(h, "link", link.replay)
        /\ UNCHANGED <<required, height, incomingHtlc, offerable, outVars,
                       interceptor, sessions, decision, chainVars, flapBounds>>

---------------------------------------------------------------------------
(* The client.                                                             *)

\* Mutant: what is held already is not offered to a new interceptor.
ConnectOnly ==
    /\ ~ interceptor /\ sessions < MaxSessions
    /\ interceptor' = TRUE /\ sessions' = sessions + 1
    /\ UNCHANGED <<asked, seen, required, height, incomingHtlc, offerable, link,
                   response, circuit, outVars, held, decision, chainVars, flapBounds>>

\* setInterceptor: everything that is held is offered.
Connect ==
    /\ ~ interceptor /\ sessions < MaxSessions
    /\ interceptor' = TRUE /\ sessions' = sessions + 1
    /\ Offer({h \in Htlc : held[h] # "no"})
    /\ UNCHANGED <<required, height, incomingHtlc, offerable, link, response,
                   circuit, outVars, held, decision, chainVars, flapBounds>>

\* Mutant: held HTLCs are let go of instead.
DisconnectDrops ==
    /\ interceptor
    /\ interceptor' = FALSE /\ asked' = {}
    /\ held' = [h \in Htlc |-> IF required THEN held[h] ELSE "no"]
    /\ UNCHANGED <<required, height, incomingHtlc, offerable, link, response,
                   circuit, outVars, seen, sessions, decision, chainVars, flapBounds>>

\* The client's stream ends, also by an answer that is refused.  Held HTLCs
\* are kept or resumed, which on-chain resolvers refuse.
Disconnect ==
    /\ interceptor
    /\ interceptor' = FALSE /\ asked' = {}
    /\ IF required
         THEN UNCHANGED <<held, circuit, response>>
         ELSE ForwardPackets(HeldBy("link")) /\ held' = [h \in Htlc |-> "no"]
    /\ UNCHANGED <<required, height, incomingHtlc, offerable, link, outVars, seen,
                   sessions, decision, chainVars, flapBounds>>

\* What an action does to a forward that was held; a wrong preimage, and all
\* but a settle on chain, are refused when the forward is no longer held.
Perform(h, action, wrong) ==
    IF held[h] = "link" /\ action = "resume" THEN ForwardPackets({h}) /\ UNCHANGED beacon
    ELSE IF held[h] = "link" /\ ~ wrong
      THEN response' = Deliver({h}, action) /\ UNCHANGED <<circuit, beacon>>
    ELSE /\ beacon' = IF held[h] = "chain" /\ action = "settle" /\ ~ wrong
                        THEN beacon \cup {h} ELSE beacon
         /\ UNCHANGED <<circuit, response>>

\* The client answers.  An HTLC that is not held any more, as everything that
\* Perform refuses, is an error: the stream then ends (Disconnect).
Resolve(h, action, wrong) ==
    /\ interceptor /\ h \in asked
    /\ Consistent => decision[h] \in {"none", action}
    /\ wrong => Mistakes /\ action = "settle"
    /\ asked' = asked \ {h}
    /\ decision' = [decision EXCEPT ![h] = action]
    /\ IF held[h] = "no"
         THEN UNCHANGED <<held, response, circuit, beacon>>
         ELSE /\ held' = [held EXCEPT ![h] = "no"]
              /\ Perform(h, action, wrong)
    /\ UNCHANGED <<required, height, incomingHtlc, offerable, link, outVars,
                   interceptor, seen, sessions, resolving, flapBounds>>

---------------------------------------------------------------------------
(* Blocks.                                                                 *)

AutoFailHeight(h) == IF held[h] = "link" THEN Expiry[h] - CltvRejectDelta ELSE 0

\* popAutoFails; the packet of an on-chain forward has no AutoFailHeight.
AutoFails(now) == {h \in Htlc : held[h] # "no" /\ AutoFailHeight(h) <= now}

\* failExpiredHtlcs, at each block.
failExpiredHtlcs ==
    /\ height < MaxHeight
    /\ height' = height + 1
    /\ held' = [h \in Htlc |-> IF h \in AutoFails(height') THEN "no" ELSE held[h]]
    /\ FailWithCode(AutoFails(height') \cap HeldBy("link"))
    /\ UNCHANGED <<required, incomingHtlc, offerable, link, outVars, clientVars,
                   decision, chainVars, flapBounds>>

---------------------------------------------------------------------------
(* The incoming link.                                                      *)

\* A new HTLC is locked in: its forwarding package is on disk.
LockInHtlc(h) ==
    /\ link.up = "up" /\ link.handing = NoHtlc
    /\ incomingHtlc[h] = "none"
    /\ incomingHtlc' = [incomingHtlc EXCEPT ![h] = "locked"]
    /\ link' = [link EXCEPT !.todo = @ \cup {h}]
    /\ UNCHANGED <<required, height, offerable, response, circuit, outVars, held,
                   clientVars, decision, chainVars, flapBounds>>

\* processRemoteAdds and forwardBatch: nothing is handed over for which there
\* is a response already.  The link then waits for the loop.
forwardBatch(h) ==
    /\ link.up = "up" /\ link.handing = NoHtlc
    /\ h \in link.todo
    /\ offerable' = offerable \cup {h}
    /\ link' = [link EXCEPT
            !.todo = @ \ {h},
            !.handing = IF response[h] = "none" THEN h ELSE NoHtlc,
            !.replay = h \in offerable]
    /\ UNCHANGED <<required, height, incomingHtlc, response, circuit, outVars, held,
                   clientVars, decision, chainVars, flapBounds>>

\* The link takes a response from its mailbox and commits to it, which acks
\* the Add and deletes the circuit; for an HTLC that is resolved it cleans up.
CommitResponse(h) ==
    /\ link.up = "up" /\ link.handing = NoHtlc
    /\ response[h] # "none"
    /\ response' = [response EXCEPT ![h] = "none"]
    /\ circuit' = [circuit EXCEPT ![h] = "none"]
    /\ incomingHtlc' = IF incomingHtlc[h] = "locked"
                     THEN [incomingHtlc EXCEPT ![h] = response[h]] ELSE incomingHtlc
    /\ link' = [link EXCEPT !.todo = @ \ {h}]
    /\ UNCHANGED <<required, height, offerable, outVars, held, clientVars,
                   decision, chainVars, flapBounds>>

\* The link quits, and what it was handing over is dropped.
StopLink ==
    /\ link.up = "up" /\ flaps < MaxFlaps
    /\ flaps' = flaps + 1
    /\ link' = NewLink("down")
    /\ UNCHANGED <<required, height, incomingHtlc, offerable, response, circuit,
                   outVars, held, clientVars, decision, chainVars, restarts>>

\* resolveFwdPkgs: all Adds that are not acked are replayed.
StartLink ==
    /\ link.up = "down"
    /\ link' = [NewLink("up") EXCEPT !.todo = {h \in Htlc : incomingHtlc[h] = "locked"}]
    /\ UNCHANGED <<required, height, incomingHtlc, offerable, response, circuit,
                   outVars, held, clientVars, decision, chainVars, flapBounds>>

---------------------------------------------------------------------------
(* The outgoing channel.                                                   *)

SendOut(h) ==
    /\ circuit[h] = "half"
    /\ circuit' = [circuit EXCEPT ![h] = "open"]
    /\ out' = [out EXCEPT ![h] = "out"] /\ sent' = [sent EXCEPT ![h] = @ + 1]
    /\ UNCHANGED <<required, height, incomingHtlc, offerable, link, response, held,
                   clientVars, decision, chainVars, flapBounds>>

\* The HTLC cannot be sent.
failAddPacket(h) ==
    /\ circuit[h] \in {"half", "late"}
    /\ circuit' = [circuit EXCEPT ![h] = "closed"]
    /\ response' = Deliver({h}, "fail")
    /\ UNCHANGED <<required, height, incomingHtlc, offerable, link, outVars, held,
                   clientVars, decision, chainVars, flapBounds>>

PeerAnswers(h, r) ==
    /\ out[h] = "out"
    /\ out' = [out EXCEPT ![h] = r]
    /\ beacon' = IF r = "settle" THEN beacon \cup {h} ELSE beacon
    /\ UNCHANGED <<required, height, incomingHtlc, offerable, link, response, circuit,
                   sent, held, clientVars, decision, resolving, flapBounds>>

\* The answer goes back by way of the circuit.
PassBack(h) ==
    /\ out[h] \in {"settle", "fail"} /\ circuit[h] = "open"
    /\ circuit' = [circuit EXCEPT ![h] = "closed"]
    /\ response' = Deliver({h}, out[h])
    /\ UNCHANGED <<required, height, incomingHtlc, offerable, link, outVars, held,
                   clientVars, decision, chainVars, flapBounds>>

---------------------------------------------------------------------------
(* The chain.                                                              *)

CloseChannel ==
    /\ MayClose /\ link.up # "closed"
    /\ link' = NewLink("closed")
    /\ UNCHANGED <<required, height, incomingHtlc, offerable, response, circuit,
                   outVars, held, clientVars, decision, chainVars, flapBounds>>

\* SubscribeUpdates of the resolver, by way of ForwardPacket.
SubscribeUpdates(h) ==
    /\ link.up = "closed" /\ incomingHtlc[h] = "locked" /\ h \notin resolving
    /\ resolving' = resolving \cup {h}
    /\ forward(h, "chain", TRUE)
    /\ UNCHANGED <<required, height, incomingHtlc, offerable, link, outVars,
                   interceptor, sessions, decision, beacon, flapBounds>>

\* The resolver claims the HTLC with the preimage, or the peer takes it back.
ResolveOnChain(h) ==
    /\ h \in resolving /\ incomingHtlc[h] = "locked"
    /\ \/ h \in beacon /\ incomingHtlc' = [incomingHtlc EXCEPT ![h] = "settle"]
       \/ h \notin beacon /\ height >= Expiry[h]
            /\ incomingHtlc' = [incomingHtlc EXCEPT ![h] = "fail"]
    /\ UNCHANGED <<required, height, offerable, link, response, circuit, outVars,
                   held, clientVars, decision, chainVars, flapBounds>>

\* The node restarts: mailboxes, held HTLCs and the session are gone; a
\* circuit is as its buckets say.
RestartSwitch ==
    /\ restarts < MaxRestarts
    /\ restarts' = restarts + 1
    /\ link' = NewLink(IF link.up = "closed" THEN "closed" ELSE "down")
    /\ response' = [h \in Htlc |-> "none"]
    /\ circuit' = [h \in Htlc |-> IF circuit[h] = "none" THEN "none"
                                  ELSE IF out[h] = "none" THEN "stale" ELSE "open"]
    /\ held' = [h \in Htlc |-> "no"]
    /\ interceptor' = FALSE /\ asked' = {}
    /\ resolving' = {}
    /\ UNCHANGED <<required, height, incomingHtlc, offerable, outVars, seen, sessions,
                   decision, beacon, flaps>>

Loop ==
    \/ interceptForward \/ Connect \/ Disconnect \/ failExpiredHtlcs
    \/ \E h \in Htlc, action \in Action, wrong \in BOOLEAN : Resolve(h, action, wrong)

Rest(h) ==
    \/ LockInHtlc(h) \/ forwardBatch(h) \/ CommitResponse(h)
    \/ SendOut(h) \/ failAddPacket(h) \/ PassBack(h)
    \/ \E r \in {"settle", "fail"} : PeerAnswers(h, r)
    \/ SubscribeUpdates(h) \/ ResolveOnChain(h)

InterceptNext ==
    \/ Loop
    \/ \E h \in Htlc : Rest(h)
    \/ StopLink \/ StartLink \/ CloseChannel \/ RestartSwitch

InterceptSpec == InterceptInit /\ [][InterceptNext]_interceptVars

---------------------------------------------------------------------------
\* No HTLC is forgotten: once the link has handed over what it has to, every
\* HTLC that is not answered is held, in the switch, or has its answer on the
\* way.  Otherwise nobody fails it before the peer goes on chain.
NothingForgotten ==
    link.up = "up" /\ link.handing = NoHtlc =>
        \A h \in Htlc \ link.todo : incomingHtlc[h] = "locked" =>
            \/ held[h] = "link" \/ response[h] # "none"
            \/ circuit[h] \in {"half", "late", "open"}

\* A held HTLC is never so late that the channel is about to be closed.
HeldInTime ==
    \A h \in HeldBy("link") : height + CltvRejectDelta < Expiry[h]

\* A client that is connected was offered everything that is held, also what
\* was held before it came.
ClientKnows ==
    interceptor => \A h \in Htlc : held[h] # "no" => h \in asked

\* With an interceptor required, nothing goes to the next peer unless the
\* client said so at some time, whatever sessions, flaps and restarts come
\* between.  interceptForward lets packets past the client; it must be the time
\* lock that keeps them from the next peer.
EveryForwardIntercepted ==
    required /\ Consistent =>
        \A h \in Htlc : sent[h] > 0 => decision[h] = "resume"

\* "This packet is a replay. It is not safe to fail back, because the
\* interceptor may still signal otherwise upon reconnect."
SeenNotFailedBack ==
    [][\A h \in seen :
        /\ required /\ circuit[h] = "none"
        /\ response[h] = "none" /\ response'[h] = "fail"
        => \/ decision'[h] = "fail"
           \/ Expiry[h] < height' + CltvInterceptDelta]_interceptVars

\* "But in the end, we should never get here": the failure that handleExpired
\* gives to a packet is not refused.
ExpiredAreFailed ==
    [][\A h \in Htlc :
        link.handing = h /\ interceptForward /\ TooLateToIntercept(h)
            => response[h] = "none"]_interceptVars

\* "we must shove the entire, original set of adds down the pipeline": "The
\* downstream logic is able to filter out any duplicates".
ForwardedAtMostOnce == \A h \in Htlc : sent[h] <= 1

\* Nothing is in flight or lost on the outgoing channel for an HTLC that was
\* failed back.
NeverOutOfPocket ==
    \A h \in Htlc : ~ (incomingHtlc[h] = "fail" /\ out[h] \in {"out", "settle"})

\* A preimage that the client gave for an HTLC it was asked about is used
\* before the HTLC expires.
PreimageUsed ==
    \A h \in Htlc :
        incomingHtlc[h] = "locked" /\ h \in resolving /\ decision[h] = "settle"
            /\ height < Expiry[h] /\ restarts = 0 /\ ~ Mistakes
        => h \in beacon \cup asked
=============================================================================
