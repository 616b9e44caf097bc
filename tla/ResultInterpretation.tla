----------------------- MODULE ResultInterpretation -----------------------
(***************************************************************************)
(* What mission control reads into the outcome of a payment attempt,       *)
(* routing/result_interpretation.go: which pairs of nodes succeeded, which *)
(* failed and from which amount, which node failed altogether, and whether *)
(* the payment is over.                                                    *)
(*                                                                         *)
(* A route is given by its nodes, ourselves first, by the amounts passed   *)
(* from each node to the next, and by the position of the introduction     *)
(* point of its blinded part, 0 if it has none.  Positions count as        *)
(* failure sources do: we are 0, the final node is Hops(rt); channel i     *)
(* leads from node i to node i + 1.  Failure messages that are never told  *)
(* apart have one name.                                                    *)
(***************************************************************************)
EXTENDS Integers, Sequences

CONSTANT Nodes

Pairs == {pair \in Nodes \X Nodes : pair[1] # pair[2]}

Reversed(pair) == <<pair[2], pair[1]>>

Failures == {"InvalidOnion", "InvalidOnionPayload", "UnknownNextPeer",
             "ChannelDisabled", "PermanentChannelFailure", "Policy",
             "TemporaryChannelFailure", "ExpiryTooSoon", "InvalidBlinding",
             "FinalIncorrectHtlc", "IncorrectDetails", "FinalExpiryTooSoon",
             "MPPTimeout", "other"}

UnknownSource == -1

IsRoute(rt) ==
    /\ rt.nodes \in Seq(Nodes) /\ rt.amts \in Seq(Nat)
    /\ Len(rt.amts) > 0 /\ Len(rt.nodes) = Len(rt.amts) + 1
    /\ rt.intro \in 0 .. Len(rt.amts)
    /\ \A i \in 1 .. Len(rt.amts) : rt.nodes[i] # rt.nodes[i + 1]

Hops(rt) == Len(rt.amts)
Node(rt, i) == rt.nodes[i + 1]
Channel(rt, i) == <<rt.nodes[i + 1], rt.nodes[i + 2]>>
Amt(rt, i) == rt.amts[i + 1]

\* How an attempt ended; success excludes a source and a failure.
Outcomes(rt) ==
    [success : {TRUE}, source : {0}, failure : {"other"}]
        \cup [success : {FALSE}, source : {UnknownSource}, failure : {"other"}]
        \cup [success : {FALSE}, source : 0 .. Hops(rt), failure : Failures]

PairResult == [success : BOOLEAN, amt : Nat]
FailPairResult(amt)    == [success |-> FALSE, amt |-> amt]
SuccessPairResult(amt) == [success |-> TRUE,  amt |-> amt]

-----------------------------------------------------------------------------
(* The functions from pairs to results.  A later one overrides an earlier. *)

NoPairs == [pair \in {} |-> FailPairResult(0)]

Then(first, second) ==
    [pair \in DOMAIN first \cup DOMAIN second |->
        IF pair \in DOMAIN second THEN second[pair] ELSE first[pair]]

FailPairRange(rt, from, to) ==
    LET failed == {Channel(rt, i) : i \in from .. to}
    IN  [pair \in failed \cup {Reversed(p) : p \in failed} |-> FailPairResult(0)]

FailPair(rt, i) == FailPairRange(rt, i, i)

FailPairBalance(rt, i) ==
    [pair \in {Channel(rt, i)} |-> FailPairResult(Amt(rt, i))]

\* A route may use a pair twice: the last amount stays.
SuccessPairRange(rt, from, to) ==
    [pair \in {Channel(rt, i) : i \in from .. to} |->
        LET last == CHOOSE i \in from .. to :
                        /\ Channel(rt, i) = pair
                        /\ \A j \in i + 1 .. to : Channel(rt, j) # pair
        IN  SuccessPairResult(Amt(rt, last))]

\* A failed node fails on its incoming and its outgoing channel.
FailNodePairs(rt, i) ==
    FailPairRange(rt, i - 1, IF i < Hops(rt) THEN i ELSE i - 1)

-----------------------------------------------------------------------------
(* The interpretation.                                                     *)

Interpretation(pairs, node, final, policy) ==
    [pairs |-> pairs, node |-> node, final |-> final, policy |-> policy]

\* node is a set with the failed node, policy a set with the pair whose policy
\* may be out of date.
OnlyPairs(pairs) == Interpretation(pairs, {}, "none", {})

NodeFailed(rt, i, succeeded, final) ==
    Interpretation(Then(FailNodePairs(rt, i), succeeded), {Node(rt, i)}, final, {})

\* Nobody knows what happened.
OutcomeUnknown(rt) ==
    IF Hops(rt) = 1 THEN NodeFailed(rt, 1, NoPairs, "error")
    ELSE OnlyPairs(FailPairRange(rt, 0, Hops(rt) - 1))

\* A node behind the introduction point must not be the source.
OutcomeBadIntro(rt, source) ==
    NodeFailed(rt, rt.intro, SuccessPairRange(rt, 0, rt.intro - 2),
               IF source = Hops(rt) THEN "error" ELSE "none")

OutcomeSelf(rt, failure) ==
    IF failure = "InvalidOnion"
    THEN NodeFailed(rt, 1, NoPairs, IF Hops(rt) = 1 THEN "error" ELSE "none")
    ELSE OnlyPairs(NoPairs)

OutcomeFinal(rt, failure) ==
    LET n == Hops(rt)
        all == SuccessPairRange(rt, 0, n - 1)
    IN  CASE failure = "FinalIncorrectHtlc" ->
                IF n = 1 THEN NodeFailed(rt, n, NoPairs, "error")
                ELSE OnlyPairs(Then(FailPair(rt, n - 1),
                                    SuccessPairRange(rt, 0, n - 2)))
          [] failure = "IncorrectDetails" ->
                Interpretation(all, {}, "incorrect details", {})
          [] failure = "FinalExpiryTooSoon" ->
                Interpretation(NoPairs, {}, "incorrect details", {})
          [] failure = "MPPTimeout" -> OnlyPairs(all)
          [] OTHER ->
                NodeFailed(rt, n, SuccessPairRange(rt, 0, n - 2), "error")

\* Blame for the channel before the source; its own peer we blame altogether.
Incoming(rt, source, policy) ==
    IF source = 1
    THEN Interpretation(FailNodePairs(rt, 1), {Node(rt, 1)}, "none", policy)
    ELSE Interpretation(Then(FailPair(rt, source - 1),
                             SuccessPairRange(rt, 0, source - 2)),
                        {}, "none", policy)

\* An error of the blinded part, told by the introduction point.
OutcomeBlinded(rt) ==
    LET before == SuccessPairRange(rt, 0, rt.intro - 1)
    IN  IF rt.intro = Hops(rt) - 1 THEN Interpretation(before, {}, "error", {})
        ELSE OnlyPairs(Then(before, FailPairBalance(rt, Hops(rt) - 1)))

OutcomeIntermediate(rt, source, failure) ==
    LET reported == NodeFailed(rt, source, SuccessPairRange(rt, 0, source - 2), "none")
        outgoing == FailPair(rt, source)
        passed   == SuccessPairRange(rt, 0, source - 1)
    IN  CASE failure \in {"InvalidOnion", "UnknownNextPeer",
                          "PermanentChannelFailure"} -> OnlyPairs(outgoing)
          [] failure = "InvalidOnionPayload" -> reported
          [] failure = "ChannelDisabled" ->
                Interpretation(Then(outgoing, passed), {}, "none",
                               {Channel(rt, source)})
          [] failure = "Policy" -> Incoming(rt, source, {Channel(rt, source)})
          [] failure = "TemporaryChannelFailure" ->
                OnlyPairs(Then(FailPairBalance(rt, source), passed))
          [] failure = "ExpiryTooSoon" ->
                IF source = 1 THEN NodeFailed(rt, 1, NoPairs, "none")
                ELSE OnlyPairs(FailPairRange(rt, 0, source - 1))
          [] failure = "InvalidBlinding" ->
                IF rt.intro = 0 \/ source < rt.intro THEN reported
                ELSE OutcomeBlinded(rt)
          [] OTHER -> NodeFailed(rt, source, NoPairs, "none")

InterpretResult(rt, outcome) ==
    LET source == outcome.source
    IN  IF outcome.success THEN OnlyPairs(SuccessPairRange(rt, 0, Hops(rt) - 1))
        ELSE IF source = UnknownSource THEN OutcomeUnknown(rt)
        ELSE IF rt.intro # 0 /\ rt.intro < source THEN OutcomeBadIntro(rt, source)
        ELSE IF source = 0 THEN OutcomeSelf(rt, outcome.failure)
        ELSE IF source = Hops(rt) THEN OutcomeFinal(rt, outcome.failure)
        ELSE OutcomeIntermediate(rt, source, outcome.failure)
=============================================================================
