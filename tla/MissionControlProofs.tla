----------------------- MODULE MissionControlProofs -----------------------
(***************************************************************************)
(* Mission control keeps its types and the ranges of every pair stay       *)
(* consistent, for every set of nodes and routes, every number of          *)
(* reporting goroutines, every history imported and any configuration.     *)
(* The first part shows what interpretResult returns, the second that      *)
(* setLastPairResult preserves States and Ranges, the third follows the    *)
(* actions, the fourth shows what an import and a report may do to a pair, *)
(* the fifth that a failed attempt does something to the pairs of a route, *)
(* the sixth that all it holds comes from stored results and snapshots.    *)
(* The rest is about the store, MissionControlStore: for any number of     *)
(* results and any limits it knows every record on disk, and results that  *)
(* come once are stored once, within the limit, the latest of them.        *)
(***************************************************************************)
EXTENDS MissionControl, MissionControlStore, SumTheorems, WellFoundedInduction,
        SequenceTheorems, FiniteSetTheorems, TLAPS

IsPairResults(f) ==
    DOMAIN f \subseteq Pairs /\ \A p \in DOMAIN f : f[p] \in PairResult

\* A channel of a route leads from a node to another one.
LEMMA ChannelType ==
    ASSUME NEW rt, IsRoute(rt), NEW i \in 0 .. Hops(rt) - 1
    PROVE  /\ Channel(rt, i) \in Pairs
           /\ Reversed(Channel(rt, i)) \in Pairs
           /\ Amt(rt, i) \in Nat
<1> DEFINE k == i + 1
<1>1. k \in 1 .. Len(rt.amts) /\ k + 1 = i + 2 /\ k + 1 \in 1 .. Len(rt.nodes)
            /\ k \in 1 .. Len(rt.nodes)
  BY DEF IsRoute, Hops
<1>2. rt.nodes[k] \in Nodes /\ rt.nodes[k + 1] \in Nodes
  <2>1. \A j \in 1 .. Len(rt.nodes) : rt.nodes[j] \in Nodes
    BY DEF IsRoute
  <2> QED
    BY <1>1, <2>1
<1>4. rt.nodes[k] # rt.nodes[k + 1]
  BY <1>1 DEF IsRoute
<1>3. rt.amts[k] \in Nat
  BY <1>1 DEF IsRoute
<1> QED
  BY <1>1, <1>2, <1>3, <1>4 DEF Channel, Reversed, Amt, Pairs

\* A failure and a success of an amount.
LEMMA FailPairResultType ==
    ASSUME NEW amt \in Nat
    PROVE  FailPairResult(amt) \in PairResult /\ SuccessPairResult(amt) \in PairResult
BY DEF FailPairResult, SuccessPairResult, PairResult

\* A set of positions that is not empty has a last one.
LEMMA LastExists ==
    ASSUME NEW to \in Int, NEW S, S \subseteq Int, S # {}, \A i \in S : i <= to
    PROVE  \E last \in S : \A i \in S : i <= last
<1> DEFINE T == {to - i : i \in S}
<1>1. T \subseteq Nat /\ T # {}
  OBVIOUS
<1>2. PICK x \in T : \A y \in T : ~ (<<y, x>> \in OpToRel(<, Nat))
  <2> HIDE DEF T
  <2> QED BY <1>1, NatLessThanWellFounded, WFMin
<1>3. PICK last \in S : x = to - last
  OBVIOUS
<1>4. ASSUME NEW i \in S PROVE i <= last
  <2>1. to - i \in T
    OBVIOUS
  <2>2. ~ (to - i < x)
    BY <2>1, <1>1, <1>2 DEF OpToRel
  <2> QED
    BY <2>2, <1>3
<1> QED
  BY <1>4

\* The channels of a range of positions, as failures.
LEMMA FailPairRangeType ==
    ASSUME NEW rt, IsRoute(rt), NEW from \in Nat, NEW to \in Int, to <= Hops(rt) - 1
    PROVE  IsPairResults(FailPairRange(rt, from, to))
<1>1. \A i \in from .. to : i \in 0 .. Hops(rt) - 1
  BY DEF Hops, IsRoute
<1>2. \A i \in from .. to : Channel(rt, i) \in Pairs /\ Reversed(Channel(rt, i)) \in Pairs
  BY <1>1, ChannelType
<1>3. FailPairResult(0) \in PairResult
  BY FailPairResultType
<1> QED
  BY <1>2, <1>3 DEF FailPairRange, IsPairResults

\* One channel, as a failure of its amount.
LEMMA FailPairBalanceType ==
    ASSUME NEW rt, IsRoute(rt), NEW i \in 0 .. Hops(rt) - 1
    PROVE  IsPairResults(FailPairBalance(rt, i))
BY ChannelType, FailPairResultType DEF FailPairBalance, IsPairResults

\* The channels of a range of positions, as successes.
LEMMA SuccessPairRangeType ==
    ASSUME NEW rt, IsRoute(rt), NEW from \in Nat, NEW to \in Int, to <= Hops(rt) - 1
    PROVE  IsPairResults(SuccessPairRange(rt, from, to))
<1>1. \A i \in from .. to : i \in 0 .. Hops(rt) - 1
  BY DEF Hops, IsRoute
<1>2. \A i \in from .. to : Channel(rt, i) \in Pairs /\ Amt(rt, i) \in Nat
  BY <1>1, ChannelType
<1>3. ASSUME NEW pair \in {Channel(rt, i) : i \in from .. to}
      PROVE  \E i \in from .. to : /\ Channel(rt, i) = pair
                                   /\ \A j \in i + 1 .. to : Channel(rt, j) # pair
  <2> DEFINE S == {i \in from .. to : Channel(rt, i) = pair}
  <2>1. S \subseteq Int /\ S # {} /\ \A i \in S : i <= to
    OBVIOUS
  <2>2. PICK last \in S : \A i \in S : i <= last
    <3> HIDE DEF S
    <3> QED BY <2>1, LastExists
  <2>3. \A j \in last + 1 .. to : j \in from .. to /\ ~ (j <= last)
    OBVIOUS
  <2> QED
    BY <2>2, <2>3
<1>4. ASSUME NEW pair \in {Channel(rt, i) : i \in from .. to}
      PROVE  SuccessPairRange(rt, from, to)[pair] \in PairResult
  <2> DEFINE last == CHOOSE i \in from .. to :
                        /\ Channel(rt, i) = pair
                        /\ \A j \in i + 1 .. to : Channel(rt, j) # pair
  <2>1. last \in from .. to
    BY <1>3
  <2>2. SuccessPairResult(Amt(rt, last)) \in PairResult
    BY <2>1, <1>2, FailPairResultType
  <2> QED
    BY <2>2 DEF SuccessPairRange
<1>5. DOMAIN SuccessPairRange(rt, from, to) = {Channel(rt, i) : i \in from .. to}
  BY DEF SuccessPairRange
<1> QED
  BY <1>2, <1>4, <1>5 DEF IsPairResults

\* One function from pairs put over another.
LEMMA ThenType ==
    ASSUME NEW f, NEW g, IsPairResults(f), IsPairResults(g)
    PROVE  IsPairResults(Then(f, g))
BY DEF IsPairResults, Then

\* The empty function.
LEMMA NoPairsType == IsPairResults(NoPairs)
BY DEF IsPairResults, NoPairs

\* The channels before and after a node are channels of the route.
LEMMA FailNodePairsType ==
    ASSUME NEW rt, IsRoute(rt), NEW i \in 1 .. Hops(rt)
    PROVE  IsPairResults(FailNodePairs(rt, i))
<1>1. i - 1 \in Nat /\ Hops(rt) \in Nat
  BY DEF Hops, IsRoute
<1>2. (IF i < Hops(rt) THEN i ELSE i - 1) \in Int
        /\ (IF i < Hops(rt) THEN i ELSE i - 1) <= Hops(rt) - 1
  BY <1>1
<1> QED
  BY <1>1, <1>2, FailPairRangeType DEF FailNodePairs

\* A failed node, with what succeeded before it.
LEMMA NodeFailedType ==
    ASSUME NEW rt, IsRoute(rt), NEW i \in 1 .. Hops(rt), NEW succeeded,
           IsPairResults(succeeded), NEW final
    PROVE  IsPairResults(NodeFailed(rt, i, succeeded, final).pairs)
BY FailNodePairsType, ThenType DEF NodeFailed, Interpretation

\* What interpretResult says of pairs is said of pairs of the network, with an
\* amount: no position it uses is outside the route.
THEOREM InterpretResultType ==
    ASSUME NEW rt, IsRoute(rt), NEW outcome \in Outcomes(rt)
    PROVE  IsPairResults(InterpretResult(rt, outcome).pairs)
<1> DEFINE n == Hops(rt)
           source == outcome.source
<1>1. n \in Nat /\ n >= 1 /\ rt.intro \in 0 .. n
  BY DEF IsRoute, Hops
<1>2. source \in Int /\ (source = UnknownSource \/ source \in 0 .. n)
  <2>1. CASE outcome \in [success : {TRUE}, source : {0}, failure : {"other"}]
    BY <2>1, <1>1
  <2>2. CASE outcome \in [success : {FALSE}, source : {UnknownSource}, failure : {"other"}]
    BY <2>2 DEF UnknownSource
  <2>3. CASE outcome \in [success : {FALSE}, source : 0 .. Hops(rt), failure : Failures]
    BY <2>3, <1>1
  <2> QED
    BY <2>1, <2>2, <2>3 DEF Outcomes
<1>3. \A to \in Int : to <= n - 1 => IsPairResults(SuccessPairRange(rt, 0, to))
  BY SuccessPairRangeType
<1>4. \A to \in Int : to <= n - 1 => IsPairResults(FailPairRange(rt, 0, to))
  BY FailPairRangeType
<1>5. \A i \in 0 .. n - 1 : IsPairResults(FailPair(rt, i))
  BY <1>1, FailPairRangeType DEF FailPair
<1>6. \A i \in 0 .. n - 1 : IsPairResults(FailPairBalance(rt, i))
  BY FailPairBalanceType
<1>7. CASE outcome.success
  BY <1>7, <1>1, <1>3 DEF InterpretResult, OnlyPairs, Interpretation
<1>8. CASE ~outcome.success /\ source = UnknownSource
  <2>1. IsPairResults(OutcomeUnknown(rt).pairs)
    <3>1. CASE n = 1
      BY <3>1, <1>1, NoPairsType, NodeFailedType DEF OutcomeUnknown
    <3>2. CASE n # 1
      BY <3>2, <1>1, <1>4 DEF OutcomeUnknown, OnlyPairs, Interpretation
    <3> QED BY <3>1, <3>2
  <2> QED
    BY <1>8, <2>1 DEF InterpretResult
<1>9. CASE ~outcome.success /\ source # UnknownSource /\ rt.intro # 0 /\ rt.intro < source
  <2>1. IsPairResults(OutcomeBadIntro(rt, source).pairs)
    <3>1. rt.intro \in 1 .. n /\ rt.intro - 2 \in Int /\ rt.intro - 2 <= n - 1
      BY <1>1, <1>9
    <3> QED
      BY <3>1, <1>3, NodeFailedType DEF OutcomeBadIntro
  <2> QED
    BY <1>9, <2>1 DEF InterpretResult
<1>10. CASE /\ ~outcome.success /\ source # UnknownSource
            /\ ~(rt.intro # 0 /\ rt.intro < source) /\ source = 0
  <2>1. IsPairResults(OutcomeSelf(rt, outcome.failure).pairs)
    <3>1. 1 \in 1 .. Hops(rt)
      BY <1>1
    <3>2. IsPairResults(NodeFailed(rt, 1, NoPairs, "error").pairs)
            /\ IsPairResults(NodeFailed(rt, 1, NoPairs, "none").pairs)
      BY <3>1, NodeFailedType, NoPairsType
    <3> QED
      BY <3>2, NoPairsType DEF OutcomeSelf, OnlyPairs, Interpretation
  <2> QED
    BY <1>10, <2>1 DEF InterpretResult
<1>11. CASE /\ ~outcome.success /\ source # UnknownSource
            /\ ~(rt.intro # 0 /\ rt.intro < source) /\ source # 0 /\ source = n
  <2> DEFINE f == outcome.failure
  <2>1. IsPairResults(OutcomeFinal(rt, f).pairs)
    <3>1. IsPairResults(SuccessPairRange(rt, 0, n - 1)) /\ IsPairResults(SuccessPairRange(rt, 0, n - 2))
      BY <1>1, <1>3
    <3>2. IsPairResults(FailPair(rt, n - 1))
      BY <1>1, <1>5
    <3>3. IsPairResults(NodeFailed(rt, n, NoPairs, "error").pairs)
            /\ IsPairResults(NodeFailed(rt, n, SuccessPairRange(rt, 0, n - 2), "error").pairs)
      BY <1>1, <3>1, NodeFailedType, NoPairsType
    <3>4. IsPairResults(Then(FailPair(rt, n - 1), SuccessPairRange(rt, 0, n - 2)))
      BY <3>1, <3>2, ThenType
    <3>5. CASE f = "FinalIncorrectHtlc"
      BY <3>5, <3>3, <3>4 DEF OutcomeFinal, OnlyPairs, Interpretation
    <3>6. CASE f \in {"IncorrectDetails", "FinalExpiryTooSoon", "MPPTimeout"}
      BY <3>6, <3>1, NoPairsType DEF OutcomeFinal, OnlyPairs, Interpretation
    <3>7. CASE f \notin {"FinalIncorrectHtlc", "IncorrectDetails", "FinalExpiryTooSoon", "MPPTimeout"}
      BY <3>7, <3>3 DEF OutcomeFinal
    <3> QED BY <3>5, <3>6, <3>7
  <2> QED
    BY <1>11, <2>1 DEF InterpretResult
<1>12. CASE /\ ~outcome.success /\ source # UnknownSource
            /\ ~(rt.intro # 0 /\ rt.intro < source) /\ source # 0 /\ source # n
  <2> DEFINE f == outcome.failure
  <2>0. source \in 1 .. n - 1 /\ source \in 1 .. n /\ source \in 0 .. n - 1
          /\ source - 1 \in 0 .. n - 1 /\ source - 2 \in Int /\ source - 2 <= n - 1
          /\ source - 1 <= n - 1 /\ 1 \in 1 .. n /\ n - 1 \in 0 .. n - 1
    BY <1>1, <1>2, <1>12
  <2>1. IsPairResults(FailPair(rt, source)) /\ IsPairResults(FailPair(rt, source - 1))
    BY <2>0, <1>5
  <2>2. IsPairResults(SuccessPairRange(rt, 0, source - 1))
          /\ IsPairResults(SuccessPairRange(rt, 0, source - 2))
    BY <2>0, <1>3
  <2>3. IsPairResults(Then(FailPair(rt, source), SuccessPairRange(rt, 0, source - 1)))
          /\ IsPairResults(Then(FailPair(rt, source - 1), SuccessPairRange(rt, 0, source - 2)))
    BY <2>1, <2>2, ThenType
  <2>4. IsPairResults(Then(FailPairBalance(rt, source), SuccessPairRange(rt, 0, source - 1)))
    BY <2>0, <2>2, <1>6, ThenType
  <2>5. IsPairResults(NodeFailed(rt, source, SuccessPairRange(rt, 0, source - 2), "none").pairs)
          /\ IsPairResults(NodeFailed(rt, 1, NoPairs, "none").pairs)
          /\ IsPairResults(NodeFailed(rt, source, NoPairs, "none").pairs)
    BY <2>0, <2>2, NoPairsType, NodeFailedType
  <2>6. IsPairResults(FailPairRange(rt, 0, source - 1))
    BY <2>0, <1>4
  <2>7. IsPairResults(Incoming(rt, source, {Channel(rt, source)}).pairs)
    <3>1. IsPairResults(FailNodePairs(rt, 1))
      BY <2>0, FailNodePairsType
    <3> QED
      BY <3>1, <2>3 DEF Incoming, Interpretation
  <2>8. IsPairResults(OutcomeBlinded(rt).pairs)
    <3>1. IsPairResults(SuccessPairRange(rt, 0, rt.intro - 1))
      BY <1>1, <1>3
    <3>2. IsPairResults(Then(SuccessPairRange(rt, 0, rt.intro - 1), FailPairBalance(rt, Hops(rt) - 1)))
      BY <3>1, <2>0, <1>6, ThenType
    <3> QED
      BY <3>1, <3>2 DEF OutcomeBlinded, OnlyPairs, Interpretation
  <2>9. IsPairResults(OutcomeIntermediate(rt, source, f).pairs)
    <3>1. CASE f \in {"InvalidOnion", "UnknownNextPeer", "PermanentChannelFailure"}
      BY <3>1, <2>1 DEF OutcomeIntermediate, OnlyPairs, Interpretation
    <3>2. CASE f = "InvalidOnionPayload"
      BY <3>2, <2>5 DEF OutcomeIntermediate
    <3>3. CASE f = "ChannelDisabled"
      BY <3>3, <2>3 DEF OutcomeIntermediate, Interpretation
    <3>4. CASE f = "Policy"
      BY <3>4, <2>7 DEF OutcomeIntermediate
    <3>5. CASE f = "TemporaryChannelFailure"
      BY <3>5, <2>4 DEF OutcomeIntermediate, OnlyPairs, Interpretation
    <3>6. CASE f = "ExpiryTooSoon"
      BY <3>6, <2>5, <2>6 DEF OutcomeIntermediate, OnlyPairs, Interpretation
    <3>7. CASE f = "InvalidBlinding"
      BY <3>7, <2>5, <2>8 DEF OutcomeIntermediate
    <3>8. CASE f \notin {"InvalidOnion", "UnknownNextPeer", "PermanentChannelFailure",
                         "InvalidOnionPayload", "ChannelDisabled", "Policy",
                         "TemporaryChannelFailure", "ExpiryTooSoon", "InvalidBlinding"}
      BY <3>8, <2>5 DEF OutcomeIntermediate
    <3> QED BY <3>1, <3>2, <3>3, <3>4, <3>5, <3>6, <3>7, <3>8
  <2> QED
    BY <1>12, <2>9 DEF InterpretResult
<1> QED
  BY <1>7, <1>8, <1>9, <1>10, <1>11, <1>12

-----------------------------------------------------------------------------
(* setLastPairResult                                                       *)

RangeOf(r) ==
    r.failTime # 0 => (r.successAmt < r.failAmt) \/ (r.successAmt = 0 /\ r.failAmt = 0)

Ranges(s) == \A p \in Pairs : RangeOf(s.pairs[p])

\* One pair: both branches keep the type and push the ranges apart.
LEMMA NewResultType ==
    ASSUME NEW current \in TimedPairResult, NEW time \in Nat,
           NEW result \in PairResult, NEW force \in BOOLEAN
    PROVE  /\ NewResult(current, time, result, force) \in TimedPairResult
           /\ RangeOf(current) => RangeOf(NewResult(current, time, result, force))
<1>1. result.amt \in Nat /\ result.success \in BOOLEAN
  BY DEF PairResult
<1>2. /\ current.failTime \in Nat /\ current.failAmt \in Nat
      /\ current.successTime \in Nat /\ current.successAmt \in Nat
  BY DEF TimedPairResult
<1>3. CASE result.success
  <2> DEFINE new == Success(current, time, result.amt, force)
             successAmt == IF force THEN result.amt ELSE Higher(current.successAmt, result.amt)
             failAmt == IF force \/ (current.failTime # 0 /\ result.amt >= current.failAmt)
                        THEN result.amt + 1 ELSE current.failAmt
  <2>0. new = [current EXCEPT !.successTime = time, !.successAmt = successAmt,
                              !.failAmt = failAmt]
    BY DEF Success
  <2>2. successAmt \in Nat /\ failAmt \in Nat
    BY <1>1, <1>2 DEF Higher
  <2>3. RangeOf(current) /\ current.failTime # 0 => successAmt < failAmt \/ (successAmt = 0 /\ failAmt = 0)
    BY <1>1, <1>2 DEF Higher, RangeOf
  <2> HIDE DEF successAmt, failAmt, new
  <2>1. new = [failTime |-> current.failTime, failAmt |-> failAmt,
               successTime |-> time, successAmt |-> successAmt]
    BY <2>0 DEF TimedPairResult
  <2>4. new \in TimedPairResult
    BY <2>1, <2>2, <1>2 DEF TimedPairResult
  <2>5. RangeOf(current) => RangeOf(new)
    BY <2>1, <2>3 DEF RangeOf
  <2> QED
    BY <2>4, <2>5, <1>3 DEF NewResult, new
<1>4. CASE ~result.success
  <2> DEFINE new == Failure(current, time, result.amt)
             successAmt == IF result.amt = 0 THEN 0
                           ELSE IF result.amt <= current.successAmt THEN result.amt - 1
                           ELSE current.successAmt
  <2>0. new = [current EXCEPT !.failTime = time, !.failAmt = result.amt,
                              !.successAmt = successAmt]
    BY DEF Failure
  <2>2. successAmt \in Nat /\ (successAmt < result.amt \/ (successAmt = 0 /\ result.amt = 0))
    BY <1>1, <1>2
  <2> HIDE DEF successAmt, new
  <2>1. new = [failTime |-> time, failAmt |-> result.amt,
               successTime |-> current.successTime, successAmt |-> successAmt]
    BY <2>0 DEF TimedPairResult
  <2>3. new \in TimedPairResult
    BY <2>1, <2>2, <1>1, <1>2 DEF TimedPairResult
  <2>4. RangeOf(new)
    BY <2>1, <2>2 DEF RangeOf
  <2> QED
    BY <2>3, <2>4, <1>4 DEF NewResult, new
<1> QED
  BY <1>1, <1>3, <1>4

\* All pairs of an interpretation.
LEMMA SetLastPairResultsType ==
    ASSUME NEW s \in States, NEW time \in Nat, NEW new, IsPairResults(new),
           NEW force \in BOOLEAN
    PROVE  /\ SetLastPairResults(s, time, new, force) \in States
           /\ Ranges(s) => Ranges(SetLastPairResults(s, time, new, force))
<1> DEFINE set == {p \in DOMAIN new : ~Dropped(s, p, time, new[p], force)}
           pairs == [p \in Pairs |->
                       IF p \in set THEN NewResult(s.pairs[p], time, new[p], force)
                       ELSE s.pairs[p]]
<1>1. set \subseteq Pairs /\ \A p \in set : new[p] \in PairResult
  BY DEF IsPairResults
<1>2. \A p \in Pairs : s.pairs[p] \in TimedPairResult
  BY DEF States
<1>0. SetLastPairResults(s, time, new, force) =
        [s EXCEPT !.pairs = pairs, !.known = s.known \cup set]
  BY DEF SetLastPairResults
<1> HIDE DEF pairs, set
<1>3. SetLastPairResults(s, time, new, force) =
        [pairs |-> pairs, known |-> s.known \cup set, chances |-> s.chances, relax |-> s.relax]
  BY <1>0 DEF States
<1> USE DEF pairs
<1>4. \A p \in Pairs : pairs[p] \in TimedPairResult
  BY <1>1, <1>2, NewResultType
<1>5. ASSUME Ranges(s), NEW p \in Pairs PROVE RangeOf(pairs[p])
  BY <1>1, <1>2, <1>5, NewResultType DEF Ranges
<1>6. pairs \in [Pairs -> TimedPairResult]
  BY <1>4
<1> HIDE DEF pairs
<1>7. SetLastPairResults(s, time, new, force) \in States
  BY <1>1, <1>3, <1>6 DEF States
<1> QED
  BY <1>3, <1>5, <1>7 DEF Ranges

\* The pairs of a failed node.
LEMMA SetAllFailType ==
    ASSUME NEW s \in States, NEW nodes, NEW time \in Nat
    PROVE  /\ SetAllFail(s, nodes, time) \in States
           /\ Ranges(s) => Ranges(SetAllFail(s, nodes, time))
<1> DEFINE failed == [NoResult EXCEPT !.failTime = time]
           pairs == [p \in Pairs |->
                       IF p \in s.known /\ (p[1] \in nodes \/ p[2] \in nodes)
                       THEN failed ELSE s.pairs[p]]
<1>1. failed = [failTime |-> time, failAmt |-> 0, successTime |-> 0, successAmt |-> 0]
  BY DEF NoResult
<1>2. failed \in TimedPairResult /\ RangeOf(failed)
  BY <1>1 DEF TimedPairResult, RangeOf
<1>3. SetAllFail(s, nodes, time) =
        [pairs |-> pairs, known |-> s.known, chances |-> s.chances, relax |-> s.relax]
  BY DEF SetAllFail, States
<1> HIDE DEF failed
<1>4. pairs \in [Pairs -> TimedPairResult]
  BY <1>2 DEF States
<1>5. Ranges(s) => \A p \in Pairs : RangeOf(pairs[p])
  BY <1>2 DEF Ranges
<1> HIDE DEF pairs
<1>6. SetAllFail(s, nodes, time) \in States
  BY <1>3, <1>4 DEF States
<1> QED
  BY <1>3, <1>5, <1>6 DEF Ranges

\* A reported result, whether a second chance is granted or not.
LEMMA ApplyPaymentResultType ==
    ASSUME NEW s \in States, NEW result \in Results
    PROVE  /\ ApplyPaymentResult(s, result) \in States
           /\ Ranges(s) => Ranges(ApplyPaymentResult(s, result))
<1> DEFINE i == InterpretResult(result.route, result.outcome)
           granted == {p \in i.policy : SecondChance(s, p, result.time)}
           chances == [p \in Pairs |-> IF p \in granted THEN result.time ELSE s.chances[p]]
           failed == SetAllFail(s, i.node, result.time)
<1>1. result.time \in Nat /\ result.outcome \in Outcomes(result.route) /\ IsRoute(result.route)
  BY MissionControlAssumption DEF Results
<1>2. IsPairResults(i.pairs)
  BY <1>1, InterpretResultType
<1> HIDE DEF i
<1>3. CASE granted # {}
  <2>1. ApplyPaymentResult(s, result) =
          [pairs |-> s.pairs, known |-> s.known, chances |-> chances, relax |-> s.relax]
    BY <1>3 DEF ApplyPaymentResult, States, i
  <2>2. chances \in [Pairs -> Nat]
    BY <1>1 DEF States
  <2> HIDE DEF chances
  <2> QED
    BY <2>1, <2>2 DEF States, Ranges
<1>4. CASE granted = {}
  <2>1. ApplyPaymentResult(s, result) = SetLastPairResults(failed, result.time, i.pairs, FALSE)
    BY <1>4 DEF ApplyPaymentResult, i
  <2>2. failed \in States /\ (Ranges(s) => Ranges(failed))
    BY <1>1, SetAllFailType
  <2> HIDE DEF failed
  <2> QED
    BY <2>1, <2>2, <1>1, <1>2, SetLastPairResultsType
<1> QED
  BY <1>3, <1>4

\* A fresh state.
LEMMA NewStateType ==
    ASSUME NEW relax \in RelaxIntervals
    PROVE  NewState(relax) \in States /\ Ranges(NewState(relax))
BY DEF NewState, States, Ranges, RangeOf, NoResult, TimedPairResult

\* An imported pair, with or without force.
LEMMA ImportResultType ==
    ASSUME NEW s \in States, NEW p \in Pairs, NEW current, NEW time \in Nat,
           NEW result \in PairResult, NEW force \in BOOLEAN
    PROVE  /\ ImportResult(s, p, current, time, result, force) \in States
           /\ Ranges(s) => Ranges(ImportResult(s, p, current, time, result, force))
<1> DEFINE new == [q \in {p} |-> result]
<1>1. IsPairResults(new)
  BY DEF IsPairResults
<1> HIDE DEF new
<1>2. /\ SetLastPairResults(s, time, new, force) \in States
      /\ Ranges(s) => Ranges(SetLastPairResults(s, time, new, force))
  BY <1>1, SetLastPairResultsType
<1> QED
  BY <1>2 DEF ImportResult, SetLastPairResult, new

\* A whole snapshot.
LEMMA ImportSnapshotType ==
    ASSUME NEW s \in States, NEW snapshot \in Snapshots, NEW force \in BOOLEAN
    PROVE  /\ ImportSnapshot(s, snapshot, force) \in States
           /\ Ranges(s) => Ranges(ImportSnapshot(s, snapshot, force))
<1>1. ASSUME NEW p \in DOMAIN snapshot
      PROVE  /\ ImportPair(s, p, snapshot[p], force) \in States
             /\ Ranges(s) => Ranges(ImportPair(s, p, snapshot[p], force))
  <2> DEFINE d == snapshot[p]
             failed == ImportResult(s, p, s.pairs[p].failTime, FailureOf(d)[1],
                                    FailPairResult(FailureOf(d)[2]), force)
  <2>1. p \in Pairs /\ d \in TimedPairResult
    BY SnapshotsAssumption DEF IsPairData
  <2>2. /\ d.failTime \in Nat /\ d.failAmt \in Nat
        /\ d.successTime \in Nat /\ d.successAmt \in Nat
    BY <2>1 DEF TimedPairResult
  <2>3. FailureOf(d)[1] \in Nat /\ FailureOf(d)[2] \in Nat
    BY <2>2 DEF FailureOf
  <2>4. FailPairResult(FailureOf(d)[2]) \in PairResult /\ SuccessPairResult(d.successAmt) \in PairResult
    BY <2>2, <2>3, FailPairResultType
  <2>5. failed \in States /\ (Ranges(s) => Ranges(failed))
    BY <2>1, <2>3, <2>4, ImportResultType
  <2>6. ImportPair(s, p, d, force) =
          ImportResult(failed, p, s.pairs[p].successTime, d.successTime,
                       SuccessPairResult(d.successAmt), force)
    BY DEF ImportPair
  <2> HIDE DEF failed, d
  <2>7. /\ ImportPair(s, p, d, force) \in States
        /\ Ranges(s) => Ranges(ImportPair(s, p, d, force))
    BY <2>1, <2>2, <2>4, <2>5, <2>6, ImportResultType
  <2> QED
    BY <2>7 DEF d
<1> DEFINE pairs == [p \in Pairs |->
                       IF p \in DOMAIN snapshot
                       THEN ImportPair(s, p, snapshot[p], force).pairs[p] ELSE s.pairs[p]]
           known == s.known \cup {p \in DOMAIN snapshot :
                                    p \in ImportPair(s, p, snapshot[p], force).known}
<1>0. ImportSnapshot(s, snapshot, force) = [s EXCEPT !.pairs = pairs, !.known = known]
  BY DEF ImportSnapshot
<1> HIDE DEF pairs, known
<1>2. ImportSnapshot(s, snapshot, force) =
        [pairs |-> pairs, known |-> known, chances |-> s.chances, relax |-> s.relax]
  BY <1>0 DEF States
<1> USE DEF pairs, known
<1>3. known \subseteq Pairs
  BY SnapshotsAssumption DEF States
<1>4. \A p \in DOMAIN snapshot : p \in Pairs =>
            ImportPair(s, p, snapshot[p], force).pairs[p] \in TimedPairResult
  BY <1>1 DEF States
<1>5. pairs \in [Pairs -> TimedPairResult]
  BY <1>4 DEF States
<1>6. Ranges(s) => \A p \in Pairs : RangeOf(pairs[p])
  BY <1>1 DEF Ranges
<1> HIDE DEF pairs, known
<1>7. ImportSnapshot(s, snapshot, force) \in States
  BY <1>2, <1>3, <1>5 DEF States
<1> QED
  BY <1>2, <1>6, <1>7 DEF Ranges

-----------------------------------------------------------------------------
(* The actions.                                                            *)

\* The invariant that is inductive: the ranges need the types of the results
\* that are still to be applied.
Inv == TypeOK /\ Ranges(state)

\* Every outcome is a record of the same fields.
LEMMA OutcomeType ==
    ASSUME NEW rt, NEW outcome \in Outcomes(rt)
    PROVE  outcome \in [success : BOOLEAN, source : Int, failure : Failures]
<1>1. outcome = [success |-> outcome.success, source |-> outcome.source,
                 failure |-> outcome.failure]
  BY DEF Outcomes
<1>2. "other" \in Failures
  BY DEF Failures
<1>3. outcome.success \in BOOLEAN /\ outcome.failure \in Failures
  BY <1>2 DEF Outcomes
<1>4. outcome.source \in Int
  <2>1. CASE outcome \in [success : {TRUE}, source : {0}, failure : {"other"}]
    BY <2>1
  <2>2. CASE outcome \in [success : {FALSE}, source : {UnknownSource}, failure : {"other"}]
    BY <2>2 DEF UnknownSource
  <2>3. CASE outcome \in [success : {FALSE}, source : 0 .. Hops(rt), failure : Failures]
    BY <2>3
  <2> QED
    BY <2>1, <2>2, <2>3 DEF Outcomes
<1> QED
  BY <1>1, <1>3, <1>4

\* Mission control starts empty.
LEMMA InitInv == Init => Inv
<1> SUFFICES ASSUME Init PROVE Inv
  OBVIOUS
<1>1. state \in States /\ Ranges(state)
  BY NewStateType DEF Init
<1>2. now \in Times /\ refused \in BOOLEAN
  <2>1. now = 0 /\ refused = FALSE
    BY DEF Init
  <2>2. MaxTime \in Nat
    BY MissionControlAssumption
  <2>3. now \in Times
    BY <2>1, <2>2 DEF Times
  <2> QED
    BY <2>1, <2>3
<1>4. results \in Seq(Results) /\ replay \subseteq Results
  BY DEF Init
<1>5. orphans \subseteq Results
  BY DEF Init
<1>3. /\ reporter \in [Reporters -> [pc : {"idle", "timed", "added"}, result : Results \cup {None}]]
      /\ \A r \in Reporters : reporter[r].pc # "idle" => reporter[r].result # None
  BY DEF Init
<1> QED
  BY <1>1, <1>2, <1>3, <1>4, <1>5 DEF Inv, TypeOK

\* One step keeps the invariant.
LEMMA NextInv == Inv /\ [Next]_vars => Inv'
<1> SUFFICES ASSUME Inv, [Next]_vars PROVE Inv'
  OBVIOUS
<1> USE DEF Inv
<1>0. /\ state \in States /\ Ranges(state)
      /\ results \in Seq(Results) /\ replay \subseteq Results /\ orphans \subseteq Results
      /\ reporter \in [Reporters -> [pc : {"idle", "timed", "added"}, result : Results \cup {None}]]
      /\ \A r \in Reporters : reporter[r].pc # "idle" => reporter[r].result # None
      /\ now \in Times /\ refused \in BOOLEAN
  BY DEF TypeOK
<1>1. ASSUME NEW r \in Reporters, NEW rt \in Routes, NEW outcome \in Outcomes(rt),
             outcome.failure \in Messages, Report(r, rt, outcome)
      PROVE  Inv'
  <2>1. PICK time \in now + 1 .. MaxTime :
            /\ now' = time
            /\ reporter' = [reporter EXCEPT ![r] =
                  [pc |-> "timed",
                   result |-> [time |-> time, route |-> rt, outcome |-> outcome]]]
    BY <1>1 DEF Report
  <2>2. time \in Nat /\ time \in Times
    BY <1>0, <2>1, MissionControlAssumption DEF Times
  <2> DEFINE result == [time |-> time, route |-> rt, outcome |-> outcome]
  <2>3. outcome \in [success : BOOLEAN, source : Int, failure : Failures]
    BY OutcomeType
  <2>4. result \in Results
    BY <2>2, <2>3 DEF Results
  <2>5. result # None
    BY DEF None
  <2> HIDE DEF result
  <2>6. reporter' = [reporter EXCEPT ![r] = [pc |-> "timed", result |-> result]]
    BY <2>1 DEF result
  <2>7. /\ reporter' \in [Reporters -> [pc : {"idle", "timed", "added"}, result : Results \cup {None}]]
        /\ \A q \in Reporters : reporter'[q].pc # "idle" => reporter'[q].result # None
    BY <1>0, <2>4, <2>5, <2>6
  <2> QED
    BY <1>0, <1>1, <2>1, <2>2, <2>7 DEF Report, TypeOK
<1>2. ASSUME NEW r \in Reporters, QueueResult(r) PROVE Inv'
  <2>1. reporter[r].result \in Results
    BY <1>0, <1>2 DEF QueueResult
  <2>2. results' \in Seq(Results)
    BY <1>0, <1>2, <2>1 DEF QueueResult
  <2>3. /\ reporter' \in [Reporters -> [pc : {"idle", "timed", "added"}, result : Results \cup {None}]]
        /\ \A q \in Reporters : reporter'[q].pc # "idle" => reporter'[q].result # None
    BY <1>0, <1>2 DEF QueueResult
  <2> QED
    BY <1>0, <1>2, <2>2, <2>3 DEF QueueResult, TypeOK
<1>3. ASSUME NEW r \in Reporters, Apply(r) PROVE Inv'
  <2>1. reporter[r].result \in Results
    BY <1>0, <1>3 DEF Apply
  <2>2. state' \in States /\ Ranges(state')
    BY <1>0, <1>3, <2>1, ApplyPaymentResultType DEF Apply
  <2>3. /\ reporter' \in [Reporters -> [pc : {"idle", "timed", "added"}, result : Results \cup {None}]]
        /\ \A q \in Reporters : reporter'[q].pc # "idle" => reporter'[q].result # None
    BY <1>0, <1>3 DEF Apply
  <2> QED
    BY <1>0, <1>3, <2>2, <2>3 DEF Apply, TypeOK
<1>4. ASSUME NEW relax \in RelaxIntervals, SetConfig(relax) PROVE Inv'
  <2>1. state' \in States /\ state'.pairs = state.pairs
    BY <1>0, <1>4 DEF SetConfig, States
  <2>2. Ranges(state')
    BY <1>0, <2>1 DEF Ranges
  <2> QED
    BY <1>0, <1>4, <2>1, <2>2 DEF SetConfig, TypeOK
<1>5. ASSUME ResetHistory PROVE Inv'
  <2>1. state.relax \in RelaxIntervals
    BY <1>0 DEF States
  <2>2. state' \in States /\ Ranges(state')
    BY <1>5, <2>1, NewStateType DEF ResetHistory
  <2>3. results' \in Seq(Results)
    BY <1>5 DEF ResetHistory
  <2>4. {reporter[r].result : r \in {q \in Reporters : reporter[q].pc = "added"}} \subseteq Results
    BY <1>0
  <2>5. orphans' \subseteq Results
    BY <1>0, <1>5, <2>4 DEF ResetHistory
  <2> QED
    BY <1>0, <1>5, <2>2, <2>3, <2>5 DEF ResetHistory, TypeOK
<1>6. ASSUME NEW snapshot \in Snapshots, NEW force \in BOOLEAN, ImportHistory(snapshot, force)
      PROVE  Inv'
  <2>1. state' \in States /\ Ranges(state')
    BY <1>0, <1>6, ImportSnapshotType DEF ImportHistory
  <2>2. refused' \in BOOLEAN
    BY <1>6 DEF ImportHistory, Importable
  <2> QED
    BY <1>0, <1>6, <2>1, <2>2 DEF ImportHistory, TypeOK
<1>7. ASSUME NEW relax \in RelaxIntervals, Restart(relax) PROVE Inv'
  <2>1. state' \in States /\ Ranges(state')
    BY <1>7, NewStateType DEF Restart
  <2>2. PICK first \in 1 .. Len(results) + 1, last \in 0 .. Len(results) :
            results' = SubSeq(results, first, last) /\ replay' = ToSet(results')
    BY <1>7 DEF Restart
  <2>3. results' \in Seq(Results)
    BY <1>0, <2>2
  <2>4. replay' \subseteq Results
    BY <2>2, <2>3 DEF ToSet
  <2>5. /\ reporter' \in [Reporters -> [pc : {"idle", "timed", "added"}, result : Results \cup {None}]]
        /\ \A q \in Reporters : reporter'[q].pc # "idle" => reporter'[q].result # None
    BY <1>7 DEF Restart
  <2> QED
    BY <1>0, <1>7, <2>1, <2>3, <2>4, <2>5 DEF Restart, TypeOK
<1>8. ASSUME Replay PROVE Inv'
  <2>1. PICK result \in replay : /\ state' = ApplyPaymentResult(state, result)
                                 /\ replay' = replay \ {result}
    BY <1>8 DEF Replay
  <2>2. state' \in States /\ Ranges(state')
    BY <1>0, <2>1, ApplyPaymentResultType
  <2> QED
    BY <1>0, <1>8, <2>1, <2>2 DEF Replay, TypeOK
<1>9. CASE UNCHANGED vars
  BY <1>0, <1>9 DEF vars, TypeOK
<1> QED
  BY <1>1, <1>2, <1>3, <1>4, <1>5, <1>6, <1>7, <1>8, <1>9 DEF Next

\* Every reachable state satisfies the invariant.
THEOREM InductiveInvariant == Spec => []Inv
BY InitInv, NextInv, PTL DEF Spec

\* The state of mission control is always well typed: amounts never wrap below
\* zero, and no pair outside the network is ever recorded.
THEOREM Typing == Spec => []TypeOK
BY InductiveInvariant, PTL DEF Inv

\* The failure range and the success range of a pair never overlap.
THEOREM RangeSafety == Spec => []RangesConsistent
<1>1. Inv => RangesConsistent
  BY DEF Inv, Ranges, RangeOf, RangesConsistent
<1> QED
  BY <1>1, InductiveInvariant, PTL
-----------------------------------------------------------------------------
(* What a step may do to the data of a pair.                               *)

\* A success changes the success time only, a failure the failure time only.
LEMMA NewResultTimes ==
    ASSUME NEW current \in TimedPairResult, NEW time \in Nat,
           NEW result \in PairResult, NEW force \in BOOLEAN
    PROVE  LET new == NewResult(current, time, result, force)
           IN  /\ result.success => /\ new.failTime = current.failTime
                                    /\ new.successTime = time
               /\ ~result.success => /\ new.failTime = time
                                     /\ new.successTime = current.successTime
BY DEF NewResult, Success, Failure, TimedPairResult

\* An import that is not forced skips a result older than the time it is
\* compared with.
LEMMA ImportResultPair ==
    ASSUME NEW s \in States, NEW p \in Pairs, NEW current \in Nat, NEW time \in Nat,
           NEW result \in PairResult, NEW force \in BOOLEAN
    PROVE  \/ ImportResult(s, p, current, time, result, force).pairs[p] = s.pairs[p]
           \/ /\ ImportResult(s, p, current, time, result, force).pairs[p]
                    = NewResult(s.pairs[p], time, result, force)
              /\ force \/ time >= current
<1> DEFINE f == [q \in {p} |-> result]
           set == {q \in DOMAIN f : ~Dropped(s, q, time, f[q], force)}
           pairs == [q \in Pairs |->
                       IF q \in set THEN NewResult(s.pairs[q], time, f[q], force)
                       ELSE s.pairs[q]]
<1>1. SetLastPairResult(s, p, time, result, force).pairs = pairs
  BY DEF SetLastPairResult, SetLastPairResults, States
<1>2. pairs[p] = NewResult(s.pairs[p], time, result, force) \/ pairs[p] = s.pairs[p]
  OBVIOUS
<1> HIDE DEF pairs, set, f
<1>3. current > time \/ time >= current
  OBVIOUS
<1> QED
  BY <1>1, <1>2, <1>3 DEF ImportResult

\* The failure of an imported pair is compared with the failure known before,
\* its success with the success known before.
LEMMA ImportPairTimes ==
    ASSUME NEW s \in States, NEW p \in Pairs, NEW d \in TimedPairResult,
           NEW force \in BOOLEAN, ~force
    PROVE  /\ ImportPair(s, p, d, force).pairs[p].failTime >= s.pairs[p].failTime
           /\ ImportPair(s, p, d, force).pairs[p].successTime >= s.pairs[p].successTime
<1> DEFINE fail == FailPairResult(FailureOf(d)[2])
           time == FailureOf(d)[1]
           success == SuccessPairResult(d.successAmt)
           failedAt == s.pairs[p].failTime
           succeededAt == s.pairs[p].successTime
           failed == ImportResult(s, p, failedAt, time, fail, force)
           new == ImportPair(s, p, d, force).pairs[p]
<1>1. /\ d.failTime \in Nat /\ d.failAmt \in Nat
      /\ d.successTime \in Nat /\ d.successAmt \in Nat
  BY DEF TimedPairResult
<1>2. time \in Nat /\ FailureOf(d)[2] \in Nat
  BY <1>1 DEF FailureOf
<1>3. fail \in PairResult /\ success \in PairResult /\ ~fail.success /\ success.success
  BY <1>1, <1>2 DEF FailPairResult, SuccessPairResult, PairResult
<1>4. failedAt \in Nat /\ succeededAt \in Nat
  BY DEF States, TimedPairResult
<1>5. ImportPair(s, p, d, force) =
        ImportResult(failed, p, succeededAt, d.successTime, success, force)
  BY DEF ImportPair
<1>0. s.pairs[p].failTime = failedAt /\ s.pairs[p].successTime = succeededAt
  OBVIOUS
<1> HIDE DEF fail, success, time, failedAt, succeededAt
<1>6. failed \in States
  BY <1>2, <1>3, <1>4, ImportResultType
<1>7. /\ failed.pairs[p].successTime = succeededAt
      /\ \/ failed.pairs[p].failTime = failedAt
         \/ failed.pairs[p].failTime = time /\ (force \/ time >= failedAt)
  <2>1. \/ failed.pairs[p] = s.pairs[p]
        \/ /\ failed.pairs[p] = NewResult(s.pairs[p], time, fail, force)
           /\ force \/ time >= failedAt
    BY <1>2, <1>3, <1>4, ImportResultPair
  <2>2. s.pairs[p] \in TimedPairResult
    BY DEF States
  <2>3. /\ NewResult(s.pairs[p], time, fail, force).failTime = time
        /\ NewResult(s.pairs[p], time, fail, force).successTime = s.pairs[p].successTime
    BY <1>2, <1>3, <2>2, NewResultTimes
  <2> HIDE DEF failed
  <2> QED
    BY <1>0, <2>1, <2>3
<1> HIDE DEF failed
<1>8. /\ new.failTime = failed.pairs[p].failTime
      /\ \/ new.successTime = failed.pairs[p].successTime
         \/ new.successTime = d.successTime /\ (force \/ d.successTime >= succeededAt)
  <2>1. \/ new = failed.pairs[p]
        \/ /\ new = NewResult(failed.pairs[p], d.successTime, success, force)
           /\ force \/ d.successTime >= succeededAt
    BY <1>1, <1>3, <1>4, <1>5, <1>6, ImportResultPair
  <2>2. failed.pairs[p] \in TimedPairResult
    BY <1>6 DEF States
  <2>3. /\ NewResult(failed.pairs[p], d.successTime, success, force).successTime = d.successTime
        /\ NewResult(failed.pairs[p], d.successTime, success, force).failTime
              = failed.pairs[p].failTime
    BY <1>1, <1>3, <2>2, NewResultTimes
  <2> HIDE DEF new
  <2> QED
    BY <2>1, <2>3
<1> HIDE DEF new
<1>9. new.failTime >= failedAt /\ new.successTime >= succeededAt
  BY <1>1, <1>2, <1>4, <1>7, <1>8
<1> QED
  BY <1>0, <1>9 DEF new

\* No import without force makes what is known of a pair older, whatever the
\* snapshot holds and however often it is imported.
THEOREM ImportSafety == Spec => ImportKeepsFresher
<1>1. ASSUME Inv, NEW snapshot \in Snapshots, NEW force \in BOOLEAN, ~force,
             ImportHistory(snapshot, force), NEW p \in Pairs
      PROVE  /\ state'.pairs[p].failTime >= state.pairs[p].failTime
             /\ state'.pairs[p].successTime >= state.pairs[p].successTime
  <2>1. state \in States
    BY <1>1 DEF Inv, TypeOK
  <2>2. state.pairs[p].failTime \in Nat /\ state.pairs[p].successTime \in Nat
    BY <2>1 DEF States, TimedPairResult
  <2>3. state' = state \/ state' = ImportSnapshot(state, snapshot, force)
    BY <1>1 DEF ImportHistory
  <2>4. ASSUME state' = ImportSnapshot(state, snapshot, force), p \in DOMAIN snapshot
        PROVE  state'.pairs[p] = ImportPair(state, p, snapshot[p], force).pairs[p]
    BY <2>1, <2>4 DEF ImportSnapshot, States
  <2>5. ASSUME state' = ImportSnapshot(state, snapshot, force), p \notin DOMAIN snapshot
        PROVE  state'.pairs[p] = state.pairs[p]
    BY <2>1, <2>5 DEF ImportSnapshot, States
  <2>6. ASSUME p \in DOMAIN snapshot PROVE snapshot[p] \in TimedPairResult
    BY <2>6, SnapshotsAssumption DEF IsPairData
  <2>7. ASSUME p \in DOMAIN snapshot
        PROVE  /\ ImportPair(state, p, snapshot[p], force).pairs[p].failTime
                    >= state.pairs[p].failTime
               /\ ImportPair(state, p, snapshot[p], force).pairs[p].successTime
                    >= state.pairs[p].successTime
    BY <1>1, <2>1, <2>6, <2>7, ImportPairTimes
  <2>8. CASE state'.pairs[p] = state.pairs[p]
    BY <2>2, <2>8
  <2> QED
    BY <2>3, <2>4, <2>5, <2>7, <2>8
<1>2. Inv => [\A snapshot \in Snapshots : ImportHistory(snapshot, FALSE) =>
                \A p \in Pairs :
                   /\ state'.pairs[p].failTime >= state.pairs[p].failTime
                   /\ state'.pairs[p].successTime >= state.pairs[p].successTime]_vars
  BY <1>1, Zenon
<1> QED
  BY <1>2, InductiveInvariant, PTL DEF ImportKeepsFresher
\* No failure of less than every amount.
Whole(f) == \A p \in DOMAIN f : f[p].success \/ f[p].amt = 0

\* A result that makes a node fail blames its pairs for every amount.
LEMMA NodeFailureWhole ==
    ASSUME NEW rt, NEW outcome
    PROVE  LET i == InterpretResult(rt, outcome)
           IN  i.node = {} \/ Whole(i.pairs)
<1> USE DEF Whole
<1>1. \A amt : FailPairResult(amt).amt = amt /\ SuccessPairResult(amt).success
  BY DEF FailPairResult, SuccessPairResult
<1>2. Whole(NoPairs)
  BY DEF NoPairs
<1>3. \A f, g : Whole(f) /\ Whole(g) => Whole(Then(f, g))
  BY DEF Then
<1>4. \A route, from, to : Whole(FailPairRange(route, from, to))
  BY <1>1 DEF FailPairRange
<1>5. \A route, from, to : Whole(SuccessPairRange(route, from, to))
  BY <1>1 DEF SuccessPairRange
<1> HIDE DEF Whole
<1>6. \A i : Whole(FailNodePairs(rt, i))
  BY <1>4 DEF FailNodePairs
<1>7. \A i, f, final : Whole(f) => Whole(NodeFailed(rt, i, f, final).pairs)
  BY <1>3, <1>6 DEF NodeFailed, Interpretation
<1>8. \A f : OnlyPairs(f).node = {}
  BY DEF OnlyPairs, Interpretation
<1> DEFINE Fine(i) == i.node = {} \/ Whole(i.pairs)
<1>9. Fine(OutcomeUnknown(rt))
  BY <1>2, <1>7, <1>8 DEF OutcomeUnknown
<1>10. \A source : Fine(OutcomeBadIntro(rt, source))
  BY <1>5, <1>7 DEF OutcomeBadIntro
<1>11. \A failure : Fine(OutcomeSelf(rt, failure))
  BY <1>2, <1>7, <1>8 DEF OutcomeSelf
<1>12. \A failure : Fine(OutcomeFinal(rt, failure))
  <2> TAKE failure
  <2>1. CASE failure = "FinalIncorrectHtlc"
    BY <2>1, <1>2, <1>7, <1>8 DEF OutcomeFinal
  <2>2. CASE failure \in {"IncorrectDetails", "FinalExpiryTooSoon", "MPPTimeout"}
    BY <2>2, <1>8 DEF OutcomeFinal, Interpretation
  <2>3. CASE failure \notin {"FinalIncorrectHtlc", "IncorrectDetails", "FinalExpiryTooSoon",
                             "MPPTimeout"}
    BY <2>3, <1>5, <1>7 DEF OutcomeFinal
  <2> QED
    BY <2>1, <2>2, <2>3
<1>13. \A source, policy : Fine(Incoming(rt, source, policy))
  BY <1>6 DEF Incoming, Interpretation
<1>14. OutcomeBlinded(rt).node = {}
  BY DEF OutcomeBlinded, OnlyPairs, Interpretation
<1>15. \A source, failure : Fine(OutcomeIntermediate(rt, source, failure))
  <2> TAKE source, failure
  <2> DEFINE outgoing == {"InvalidOnion", "UnknownNextPeer", "PermanentChannelFailure"}
  <2>1. CASE failure \in outgoing \cup {"TemporaryChannelFailure"}
    BY <2>1, <1>8 DEF OutcomeIntermediate
  <2>2. CASE failure = "ChannelDisabled"
    BY <2>2 DEF OutcomeIntermediate, Interpretation
  <2>3. CASE failure = "Policy"
    BY <2>3, <1>13 DEF OutcomeIntermediate
  <2>4. CASE failure = "ExpiryTooSoon"
    BY <2>4, <1>2, <1>7, <1>8 DEF OutcomeIntermediate
  <2>5. CASE failure = "InvalidOnionPayload"
    BY <2>5, <1>5, <1>7 DEF OutcomeIntermediate
  <2>6. CASE failure = "InvalidBlinding"
    BY <2>6, <1>5, <1>7, <1>14 DEF OutcomeIntermediate
  <2>7. CASE failure \notin outgoing \cup {"TemporaryChannelFailure", "ChannelDisabled", "Policy",
                                "ExpiryTooSoon", "InvalidOnionPayload", "InvalidBlinding"}
    BY <2>7, <1>2, <1>7 DEF OutcomeIntermediate
  <2> QED
    BY <2>1, <2>2, <2>3, <2>4, <2>5, <2>6, <2>7
<1> HIDE DEF Fine
<1>16. Fine(InterpretResult(rt, outcome))
  <2>1. \A f : Fine(OnlyPairs(f))
    BY <1>8 DEF Fine
  <2> QED
    BY <2>1, <1>9, <1>10, <1>11, <1>12, <1>15 DEF InterpretResult
<1> QED
  BY <1>16 DEF Fine

\* The success amount falls only for a failure at the time, and below it.
FallsOnlyByFailure(old, new, time) ==
    new.successAmt < old.successAmt =>
        new.failAmt <= old.successAmt /\ new.failTime = time

\* One result, put on top of what is known.
LEMMA NewResultFall ==
    ASSUME NEW current \in TimedPairResult, NEW time \in Nat,
           NEW result \in PairResult, NEW force \in BOOLEAN, ~force
    PROVE  FallsOnlyByFailure(current, NewResult(current, time, result, force), time)
<1>1. result.amt \in Nat
  BY DEF PairResult
<1>2. /\ current.failTime \in Nat /\ current.failAmt \in Nat
      /\ current.successTime \in Nat /\ current.successAmt \in Nat
  BY DEF TimedPairResult
<1>3. CASE result.success
  <2>1. NewResult(current, time, result, force).successAmt
            = Higher(current.successAmt, result.amt)
    BY <1>3 DEF NewResult, Success, TimedPairResult
  <2> QED
    BY <2>1, <1>1, <1>2 DEF FallsOnlyByFailure, Higher
<1>4. CASE ~result.success
  <2>1. NewResult(current, time, result, force) = Failure(current, time, result.amt)
    BY <1>4 DEF NewResult
  <2>2. /\ Failure(current, time, result.amt).failTime = time
        /\ Failure(current, time, result.amt).failAmt = result.amt
        /\ Failure(current, time, result.amt).successAmt =
                IF result.amt = 0 THEN 0
                ELSE IF result.amt <= current.successAmt THEN result.amt - 1
                ELSE current.successAmt
    BY DEF Failure, TimedPairResult
  <2> QED
    BY <2>1, <2>2, <1>1, <1>2 DEF FallsOnlyByFailure
<1> QED
  BY <1>3, <1>4

\* One result, put on top of the failure of a node at the same time.
LEMMA NodeThenResultFall ==
    ASSUME NEW old \in TimedPairResult, NEW time \in Nat, NEW result \in PairResult,
           result.success \/ result.amt = 0, NEW force \in BOOLEAN, ~force
    PROVE  FallsOnlyByFailure(old,
                NewResult([NoResult EXCEPT !.failTime = time], time, result, force), time)
<1> DEFINE failed == [NoResult EXCEPT !.failTime = time]
<1>1. failed = [failTime |-> time, failAmt |-> 0, successTime |-> 0, successAmt |-> 0]
  BY DEF NoResult
<1> HIDE DEF failed
<1>2. result.amt \in Nat /\ old.successAmt \in Nat
  BY DEF PairResult, TimedPairResult
<1>3. CASE result.success
  <2>1. NewResult(failed, time, result, force) = Success(failed, time, result.amt, force)
    BY <1>3 DEF NewResult
  <2>2. /\ Success(failed, time, result.amt, force).failTime = time
        /\ Success(failed, time, result.amt, force).successAmt = Higher(0, result.amt)
        /\ Success(failed, time, result.amt, force).failAmt \in {0, result.amt + 1}
    BY <1>1 DEF Success
  <2>3. Higher(0, result.amt) = result.amt
    BY <1>2 DEF Higher
  <2> QED
    BY <2>1, <2>2, <2>3, <1>2 DEF FallsOnlyByFailure, failed
<1>4. CASE ~result.success
  <2>1. NewResult(failed, time, result, force) = Failure(failed, time, result.amt)
    BY <1>4 DEF NewResult
  <2>2. /\ Failure(failed, time, result.amt).failTime = time
        /\ Failure(failed, time, result.amt).failAmt = 0
    BY <1>1, <1>4 DEF Failure
  <2> QED
    BY <2>1, <2>2, <1>2 DEF FallsOnlyByFailure, failed
<1> QED
  BY <1>3, <1>4

\* A reported result, with all it says of nodes and pairs.
LEMMA ApplyPaymentResultFall ==
    ASSUME NEW s \in States, NEW result \in Results, NEW p \in Pairs
    PROVE  FallsOnlyByFailure(s.pairs[p], ApplyPaymentResult(s, result).pairs[p], result.time)
<1> DEFINE i == InterpretResult(result.route, result.outcome)
           time == result.time
           granted == {q \in i.policy : SecondChance(s, q, time)}
           mid == SetAllFail(s, i.node, time)
           new == ApplyPaymentResult(s, result).pairs[p]
           failed == [NoResult EXCEPT !.failTime = time]
<1>1. time \in Nat /\ result.outcome \in Outcomes(result.route) /\ IsRoute(result.route)
  BY MissionControlAssumption DEF Results
<1>2. IsPairResults(i.pairs) /\ (i.node = {} \/ Whole(i.pairs))
  BY <1>1, InterpretResultType, NodeFailureWhole
<1>3. s.pairs[p] \in TimedPairResult /\ s.pairs[p].successAmt \in Nat
  BY DEF States, TimedPairResult
<1>4. mid \in States
  BY <1>1, SetAllFailType
<1>5. \/ mid.pairs[p] = s.pairs[p]
      \/ mid.pairs[p] = failed /\ i.node # {}
  BY DEF SetAllFail, States
<1>6. failed.failAmt = 0 /\ failed.failTime = time
  BY DEF NoResult
<1>7. ASSUME NEW force \in BOOLEAN, ~force
      PROVE  LET set == SetLastPairResults(mid, time, i.pairs, force).pairs[p]
             IN  \/ set = mid.pairs[p]
                 \/ p \in DOMAIN i.pairs /\ set = NewResult(mid.pairs[p], time, i.pairs[p], force)
  <2> HIDE DEF mid, i, time
  <2> QED
    BY <1>4 DEF SetLastPairResults, States
<1>8. \/ new = s.pairs[p]
      \/ new = SetLastPairResults(mid, time, i.pairs, FALSE).pairs[p]
  BY DEF ApplyPaymentResult, States
<1> HIDE DEF i, time, granted, mid, new, failed
<1>9. FallsOnlyByFailure(s.pairs[p], s.pairs[p], time)
  BY <1>3 DEF FallsOnlyByFailure
<1>10. FallsOnlyByFailure(s.pairs[p], failed, time)
  BY <1>3, <1>6 DEF FallsOnlyByFailure
<1>11. ASSUME NEW force \in BOOLEAN, ~force
       PROVE  FallsOnlyByFailure(s.pairs[p],
                    SetLastPairResults(mid, time, i.pairs, force).pairs[p], time)
  <2> DEFINE set == SetLastPairResults(mid, time, i.pairs, force).pairs[p]
  <2>1. CASE set = mid.pairs[p]
    BY <2>1, <1>5, <1>9, <1>10
  <2>2. CASE p \in DOMAIN i.pairs /\ set = NewResult(mid.pairs[p], time, i.pairs[p], force)
    <3>1. i.pairs[p] \in PairResult
      BY <1>2, <2>2 DEF IsPairResults
    <3>2. CASE mid.pairs[p] = s.pairs[p]
      BY <1>1, <1>3, <1>11, <2>2, <3>1, <3>2, NewResultFall
    <3>3. CASE mid.pairs[p] = failed /\ i.node # {}
      <4>1. i.pairs[p].success \/ i.pairs[p].amt = 0
        BY <1>2, <2>2, <3>3 DEF Whole
      <4> QED
        BY <1>1, <1>3, <1>11, <2>2, <3>1, <3>3, <4>1, NodeThenResultFall DEF failed
    <3> QED
      BY <1>5, <3>2, <3>3
  <2> QED
    BY <1>7, <1>11, <2>1, <2>2
<1> QED
  BY <1>8, <1>9, <1>11 DEF new, time

\* Reports lower what a pair is known to carry only for a failure of at most
\* that amount, whatever the order in which concurrent reports are applied.
THEOREM SuccessSafety == Spec => SuccessKept
<1>1. ASSUME Inv, NEW r \in Reporters, Apply(r), NEW p \in Pairs
      PROVE  FallsOnlyByFailure(state.pairs[p], state'.pairs[p], reporter[r].result.time)
  <2>1. state \in States /\ reporter[r].result \in Results
    BY <1>1 DEF Inv, TypeOK, Apply
  <2>2. state' = ApplyPaymentResult(state, reporter[r].result)
    BY <1>1 DEF Apply
  <2> QED
    BY <2>1, <2>2, ApplyPaymentResultFall
<1>2. Inv => [\A r \in Reporters : Apply(r) =>
                \A p \in Pairs :
                   LET old == state.pairs[p]
                       new == state'.pairs[p]
                   IN  new.successAmt < old.successAmt =>
                          /\ new.failAmt <= old.successAmt
                          /\ new.failTime = reporter[r].result.time]_vars
  BY <1>1 DEF FallsOnlyByFailure
<1> QED
  BY <1>2, InductiveInvariant, PTL DEF SuccessKept

-----------------------------------------------------------------------------
(* What a failed attempt leaves.                                           *)

\* A route that uses no pair of nodes twice, as path finding makes them.
IsSimple(rt) ==
    \A i, j \in 0 .. Hops(rt) - 1 : Channel(rt, i) = Channel(rt, j) => i = j

\* The results blame a channel of the route for no more than was sent over it.
Blames(rt, new) ==
    \E i \in 0 .. Hops(rt) - 1 :
        /\ Channel(rt, i) \in DOMAIN new
        /\ ~new[Channel(rt, i)].success
        /\ new[Channel(rt, i)].amt <= Amt(rt, i)

\* A failed range blames each of its channels.
LEMMA FailRangeBlames ==
    ASSUME NEW rt, IsRoute(rt), NEW from \in 0 .. Hops(rt) - 1,
           NEW to \in from .. Hops(rt) - 1, NEW k \in from .. to,
           NEW later, Channel(rt, k) \notin DOMAIN later
    PROVE  /\ Blames(rt, FailPairRange(rt, from, to))
           /\ Blames(rt, Then(FailPairRange(rt, from, to), later))
<1>1. k \in 0 .. Hops(rt) - 1 /\ Amt(rt, k) \in Nat
  <2>1. k \in 0 .. Hops(rt) - 1
    BY DEF IsRoute, Hops
  <2> QED
    BY <2>1, ChannelType
<1>2. /\ Channel(rt, k) \in DOMAIN FailPairRange(rt, from, to)
      /\ FailPairRange(rt, from, to)[Channel(rt, k)] = FailPairResult(0)
  BY DEF FailPairRange
<1>3. /\ Channel(rt, k) \in DOMAIN Then(FailPairRange(rt, from, to), later)
      /\ Then(FailPairRange(rt, from, to), later)[Channel(rt, k)] = FailPairResult(0)
  BY <1>2 DEF Then
<1> QED
  BY <1>1, <1>2, <1>3 DEF Blames, FailPairResult

\* So does a channel that failed for its amount.
LEMMA FailBalanceBlames ==
    ASSUME NEW rt, IsRoute(rt), NEW k \in 0 .. Hops(rt) - 1,
           NEW other
    PROVE  /\ Blames(rt, Then(other, FailPairBalance(rt, k)))
           /\ Channel(rt, k) \notin DOMAIN other
                => Blames(rt, Then(FailPairBalance(rt, k), other))
<1>1. Amt(rt, k) \in Nat
  BY ChannelType
<1>2. /\ Channel(rt, k) \in DOMAIN FailPairBalance(rt, k)
      /\ FailPairBalance(rt, k)[Channel(rt, k)] = FailPairResult(Amt(rt, k))
  BY DEF FailPairBalance
<1>3. /\ Channel(rt, k) \in DOMAIN Then(other, FailPairBalance(rt, k))
      /\ Then(other, FailPairBalance(rt, k))[Channel(rt, k)] = FailPairResult(Amt(rt, k))
  BY <1>2 DEF Then
<1>4. Channel(rt, k) \notin DOMAIN other
        => /\ Channel(rt, k) \in DOMAIN Then(FailPairBalance(rt, k), other)
           /\ Then(FailPairBalance(rt, k), other)[Channel(rt, k)] = FailPairResult(Amt(rt, k))
  BY <1>2 DEF Then
<1> QED
  BY <1>1, <1>3, <1>4 DEF Blames, FailPairResult

\* A channel of a simple route did not succeed if it is behind those that did.
LEMMA BehindSuccess ==
    ASSUME NEW rt, IsRoute(rt), IsSimple(rt), NEW to \in Int, NEW k \in 0 .. Hops(rt) - 1, to < k
    PROVE  Channel(rt, k) \notin DOMAIN SuccessPairRange(rt, 0, to)
<1>1. DOMAIN SuccessPairRange(rt, 0, to) = {Channel(rt, i) : i \in 0 .. to}
  BY DEF SuccessPairRange
<1>2. \A i \in 0 .. to : i \in 0 .. Hops(rt) - 1 /\ i # k
  BY DEF IsRoute, Hops
<1> QED
  BY <1>1, <1>2 DEF IsSimple

\* A failed node is blamed for the channel that leads to it.
LEMMA NodeFailedBlames ==
    ASSUME NEW rt, IsRoute(rt), NEW i \in 1 .. Hops(rt), NEW later, NEW final,
           Channel(rt, i - 1) \notin DOMAIN later
    PROVE  /\ Blames(rt, FailNodePairs(rt, i))
           /\ Blames(rt, NodeFailed(rt, i, later, final).pairs)
           /\ NodeFailed(rt, i, later, final).final = final
<1> DEFINE to == IF i < Hops(rt) THEN i ELSE i - 1
<1>1. /\ i - 1 \in 0 .. Hops(rt) - 1 /\ to \in i - 1 .. Hops(rt) - 1
      /\ i - 1 \in i - 1 .. to
  BY DEF IsRoute, Hops
<1>2. FailNodePairs(rt, i) = FailPairRange(rt, i - 1, to)
  BY DEF FailNodePairs
<1> HIDE DEF to
<1>3. Blames(rt, FailPairRange(rt, i - 1, to))
      /\ Blames(rt, Then(FailPairRange(rt, i - 1, to), later))
  BY <1>1, FailRangeBlames
<1> QED
  BY <1>2, <1>3 DEF NodeFailed, Interpretation

\* No pairs at all.
LEMMA NoPairsDomain == DOMAIN NoPairs = {}
  BY DEF NoPairs

\* Whatever a failed attempt is read as, a channel of its route is blamed,
\* unless nothing is to be blamed or the payment is over.
LEMMA FailureBlames ==
    ASSUME NEW rt, IsRoute(rt), IsSimple(rt), NEW outcome \in Outcomes(rt),
           ~Blameless([time |-> 0, route |-> rt, outcome |-> outcome]),
           InterpretResult(rt, outcome).final = "none"
    PROVE  Blames(rt, InterpretResult(rt, outcome).pairs)
<1> DEFINE n == Hops(rt)
           source == outcome.source
           f == outcome.failure
<1>1. n \in Nat /\ n >= 1 /\ rt.intro \in 0 .. n
  BY DEF IsRoute, Hops
<1>2. source \in Int /\ (source = UnknownSource \/ source \in 0 .. n)
  <2>1. CASE outcome \in [success : {TRUE}, source : {0}, failure : {"other"}]
    BY <2>1, <1>1
  <2>2. CASE outcome \in [success : {FALSE}, source : {UnknownSource}, failure : {"other"}]
    BY <2>2 DEF UnknownSource
  <2>3. CASE outcome \in [success : {FALSE}, source : 0 .. Hops(rt), failure : Failures]
    BY <2>3, <1>1
  <2> QED
    BY <2>1, <2>2, <2>3 DEF Outcomes
<1>3. /\ ~outcome.success
      /\ ~(source = 0 /\ f # "InvalidOnion")
      /\ ~(f = "MPPTimeout" /\ source = n /\ (rt.intro = 0 \/ rt.intro = n))
  BY DEF Blameless
<1>4. \A to \in Int, k \in 0 .. n - 1 :
          to < k => Channel(rt, k) \notin DOMAIN SuccessPairRange(rt, 0, to)
  BY BehindSuccess
<1>5. \A k \in 0 .. n - 1 :
          /\ Blames(rt, FailPair(rt, k))
          /\ Blames(rt, Then(FailPair(rt, k), SuccessPairRange(rt, 0, k - 1)))
          /\ Blames(rt, Then(FailPairBalance(rt, k), SuccessPairRange(rt, 0, k - 1)))
          /\ \A other : Blames(rt, Then(other, FailPairBalance(rt, k)))
  <2> SUFFICES ASSUME NEW k \in 0 .. n - 1
               PROVE  /\ Blames(rt, FailPair(rt, k))
                      /\ Blames(rt, Then(FailPair(rt, k), SuccessPairRange(rt, 0, k - 1)))
                      /\ Blames(rt, Then(FailPairBalance(rt, k), SuccessPairRange(rt, 0, k - 1)))
                      /\ \A other : Blames(rt, Then(other, FailPairBalance(rt, k)))
    OBVIOUS
  <2>1. k - 1 \in Int /\ k - 1 < k /\ k \in k .. Hops(rt) - 1 /\ k \in k .. k
    BY <1>1
  <2>2. Channel(rt, k) \notin DOMAIN SuccessPairRange(rt, 0, k - 1)
    BY <2>1, <1>4
  <2>3. /\ Blames(rt, FailPairRange(rt, k, k))
        /\ Blames(rt, Then(FailPairRange(rt, k, k), SuccessPairRange(rt, 0, k - 1)))
    BY <2>1, <2>2, FailRangeBlames
  <2>4. Blames(rt, Then(FailPairBalance(rt, k), SuccessPairRange(rt, 0, k - 1)))
    BY <2>2, FailBalanceBlames
  <2>5. \A other : Blames(rt, Then(other, FailPairBalance(rt, k)))
    BY FailBalanceBlames
  <2> QED
    BY <2>3, <2>4, <2>5 DEF FailPair
<1>6. \A i \in 1 .. n : \A final :
          /\ Blames(rt, FailNodePairs(rt, i))
          /\ Blames(rt, NodeFailed(rt, i, NoPairs, final).pairs)
          /\ Blames(rt, NodeFailed(rt, i, SuccessPairRange(rt, 0, i - 2), final).pairs)
          /\ NodeFailed(rt, i, NoPairs, final).final = final
          /\ NodeFailed(rt, i, SuccessPairRange(rt, 0, i - 2), final).final = final
  <2> SUFFICES ASSUME NEW i \in 1 .. n, NEW final
               PROVE  /\ Blames(rt, FailNodePairs(rt, i))
                      /\ Blames(rt, NodeFailed(rt, i, NoPairs, final).pairs)
                      /\ Blames(rt, NodeFailed(rt, i, SuccessPairRange(rt, 0, i - 2), final).pairs)
                      /\ NodeFailed(rt, i, NoPairs, final).final = final
                      /\ NodeFailed(rt, i, SuccessPairRange(rt, 0, i - 2), final).final = final
    OBVIOUS
  <2>1. i - 2 \in Int /\ i - 1 \in 0 .. n - 1 /\ i - 2 < i - 1
    BY <1>1
  <2>2. Channel(rt, i - 1) \notin DOMAIN SuccessPairRange(rt, 0, i - 2)
    BY <2>1, <1>4
  <2>3. Channel(rt, i - 1) \notin DOMAIN NoPairs
    BY NoPairsDomain
  <2> QED
    BY <2>2, <2>3, NodeFailedBlames
<1>7. \A to \in 0 .. n - 1 : Blames(rt, FailPairRange(rt, 0, to))
  <2> SUFFICES ASSUME NEW to \in 0 .. n - 1 PROVE Blames(rt, FailPairRange(rt, 0, to))
    OBVIOUS
  <2>1. 0 \in 0 .. Hops(rt) - 1 /\ to \in 0 .. Hops(rt) - 1 /\ 0 \in 0 .. to
    BY <1>1
  <2>2. Channel(rt, 0) \notin DOMAIN NoPairs
    BY NoPairsDomain
  <2> QED
    BY <2>1, <2>2, FailRangeBlames
<1> DEFINE i == InterpretResult(rt, outcome)
<1>8. CASE source = UnknownSource
  <2>1. i = OutcomeUnknown(rt)
    BY <1>3, <1>8 DEF InterpretResult
  <2>2. CASE n = 1
    <3>1. 1 \in 1 .. n
      BY <1>1
    <3>2. NodeFailed(rt, 1, NoPairs, "error").final = "error"
      BY <1>6, <3>1
    <3> QED
      BY <2>1, <2>2, <3>2 DEF OutcomeUnknown
  <2>3. CASE n # 1
    BY <1>1, <1>7, <2>1, <2>3 DEF OutcomeUnknown, OnlyPairs, Interpretation
  <2> QED
    BY <2>2, <2>3
<1>9. CASE source # UnknownSource /\ rt.intro # 0 /\ rt.intro < source
  <2>1. i = OutcomeBadIntro(rt, source)
    BY <1>3, <1>9 DEF InterpretResult
  <2>2. rt.intro \in 1 .. n
    BY <1>1, <1>9
  <2> QED
    BY <1>6, <2>1, <2>2 DEF OutcomeBadIntro
<1>10. CASE source # UnknownSource /\ ~(rt.intro # 0 /\ rt.intro < source) /\ source = 0
  <2>1. i = OutcomeSelf(rt, f)
    BY <1>3, <1>10 DEF InterpretResult
  <2>2. f = "InvalidOnion" /\ 1 \in 1 .. n
    BY <1>1, <1>3, <1>10
  <2> QED
    BY <1>6, <2>1, <2>2 DEF OutcomeSelf
<1>11. CASE source # UnknownSource /\ ~(rt.intro # 0 /\ rt.intro < source)
            /\ source # 0 /\ source = n
  <2>1. i = OutcomeFinal(rt, f)
    BY <1>3, <1>11 DEF InterpretResult
  <2>2. n \in 1 .. n /\ n - 1 \in 0 .. n - 1 /\ (n - 1) - 1 = n - 2
    BY <1>1
  <2>3. CASE f = "FinalIncorrectHtlc"
    <3>1. NodeFailed(rt, n, NoPairs, "error").final = "error"
      BY <1>6, <2>2
    <3>2. Blames(rt, Then(FailPair(rt, n - 1), SuccessPairRange(rt, 0, n - 2)))
      BY <1>5, <2>2
    <3> QED
      BY <2>1, <2>3, <3>1, <3>2 DEF OutcomeFinal, OnlyPairs, Interpretation
  <2>4. CASE f \in {"IncorrectDetails", "FinalExpiryTooSoon"}
    <3>1. CASE f = "IncorrectDetails"
      <4>1. OutcomeFinal(rt, f).final = "incorrect details"
        BY <3>1 DEF OutcomeFinal, Interpretation
      <4> QED
        BY <2>1, <4>1
    <3>2. CASE f = "FinalExpiryTooSoon"
      <4>1. OutcomeFinal(rt, f).final = "incorrect details"
        BY <3>2 DEF OutcomeFinal, Interpretation
      <4> QED
        BY <2>1, <4>1
    <3> QED
      BY <2>4, <3>1, <3>2
  <2>5. f # "MPPTimeout"
    BY <1>1, <1>3, <1>11
  <2>6. CASE f \notin {"FinalIncorrectHtlc", "IncorrectDetails", "FinalExpiryTooSoon", "MPPTimeout"}
    <3>1. NodeFailed(rt, n, SuccessPairRange(rt, 0, n - 2), "error").final = "error"
      BY <1>6, <2>2
    <3> QED
      BY <2>1, <2>6, <3>1 DEF OutcomeFinal
  <2> QED
    BY <2>3, <2>4, <2>5, <2>6
<1>12. CASE source # UnknownSource /\ ~(rt.intro # 0 /\ rt.intro < source)
            /\ source # 0 /\ source # n
  <2>1. i = OutcomeIntermediate(rt, source, f)
    BY <1>3, <1>12 DEF InterpretResult
  <2>2. /\ source \in 1 .. n /\ source \in 0 .. n - 1 /\ source - 1 \in 0 .. n - 1
        /\ (source - 1) - 1 = source - 2 /\ n - 1 \in 0 .. n - 1 /\ 1 \in 1 .. n
    BY <1>1, <1>2, <1>12
  <2>3. CASE f \in {"InvalidOnion", "UnknownNextPeer", "PermanentChannelFailure"}
    BY <1>5, <2>1, <2>2, <2>3 DEF OutcomeIntermediate, OnlyPairs, Interpretation
  <2>4. CASE f = "InvalidOnionPayload"
    BY <1>6, <2>1, <2>2, <2>4 DEF OutcomeIntermediate
  <2>5. CASE f = "ChannelDisabled"
    BY <1>5, <2>1, <2>2, <2>5 DEF OutcomeIntermediate, Interpretation
  <2>6. CASE f = "Policy"
    <3>1. Blames(rt, FailNodePairs(rt, 1))
      BY <1>6, <2>2
    <3>2. Blames(rt, Then(FailPair(rt, source - 1), SuccessPairRange(rt, 0, source - 2)))
      BY <1>5, <2>2
    <3> QED
      BY <2>1, <2>6, <3>1, <3>2 DEF OutcomeIntermediate, Incoming, Interpretation
  <2>7. CASE f = "TemporaryChannelFailure"
    BY <1>5, <2>1, <2>2, <2>7 DEF OutcomeIntermediate, OnlyPairs, Interpretation
  <2>8. CASE f = "ExpiryTooSoon"
    <3>1. Blames(rt, NodeFailed(rt, 1, NoPairs, "none").pairs)
      BY <1>6, <2>2
    <3>2. Blames(rt, FailPairRange(rt, 0, source - 1))
      BY <1>7, <2>2
    <3> QED
      BY <2>1, <2>8, <3>1, <3>2 DEF OutcomeIntermediate, OnlyPairs, Interpretation
  <2>9. CASE f = "InvalidBlinding"
    <3>1. Blames(rt, NodeFailed(rt, source, SuccessPairRange(rt, 0, source - 2), "none").pairs)
      BY <1>6, <2>2
    <3>2. \A other : Blames(rt, Then(other, FailPairBalance(rt, n - 1)))
      BY <1>5, <2>2
    <3> QED
      BY <2>1, <2>9, <3>1, <3>2
      DEF OutcomeIntermediate, OutcomeBlinded, OnlyPairs, Interpretation
  <2>10. CASE f \notin {"InvalidOnion", "UnknownNextPeer", "PermanentChannelFailure",
                        "InvalidOnionPayload", "ChannelDisabled", "Policy",
                        "TemporaryChannelFailure", "ExpiryTooSoon", "InvalidBlinding"}
    BY <1>6, <2>1, <2>2, <2>10 DEF OutcomeIntermediate
  <2> QED
    BY <2>3, <2>4, <2>5, <2>6, <2>7, <2>8, <2>9, <2>10
<1> QED
  BY <1>1, <1>2, <1>8, <1>9, <1>10, <1>11, <1>12

\* The pair whose policy may be out of date is one of the network.
LEMMA PolicyType ==
    ASSUME NEW rt, IsRoute(rt), NEW outcome \in Outcomes(rt)
    PROVE  InterpretResult(rt, outcome).policy \subseteq Pairs
<1> DEFINE source == outcome.source
           i == InterpretResult(rt, outcome)
<1>1. outcome \in [success : BOOLEAN, source : Int, failure : Failures]
  BY OutcomeType
<1>2. CASE source \in 1 .. Hops(rt) - 1
  <2>1. Channel(rt, source) \in Pairs
    <3>1. source \in 0 .. Hops(rt) - 1
      BY <1>2 DEF IsRoute, Hops
    <3> QED
      BY <3>1, ChannelType
  <2>2. i.policy \in {{}, {Channel(rt, source)}}
    BY DEF InterpretResult, OnlyPairs, OutcomeUnknown, OutcomeBadIntro, OutcomeSelf,
           OutcomeFinal, OutcomeIntermediate, OutcomeBlinded, NodeFailed, Incoming,
           Interpretation
  <2> QED
    BY <2>1, <2>2
<1>3. CASE source \notin 1 .. Hops(rt) - 1
  <2>1. source = UnknownSource \/ source = 0 \/ source = Hops(rt)
    <3>1. CASE outcome \in [success : {TRUE}, source : {0}, failure : {"other"}]
      BY <3>1
    <3>2. CASE outcome \in [success : {FALSE}, source : {UnknownSource}, failure : {"other"}]
      BY <3>2
    <3>3. CASE outcome \in [success : {FALSE}, source : 0 .. Hops(rt), failure : Failures]
      <4>1. source \in 0 .. Hops(rt) /\ Hops(rt) \in Nat
        BY <3>3 DEF IsRoute, Hops
      <4> QED
        BY <1>3, <4>1
    <3> QED
      BY <3>1, <3>2, <3>3 DEF Outcomes
  <2>2. i.policy = {}
    BY <2>1 DEF InterpretResult, OnlyPairs, OutcomeUnknown, OutcomeBadIntro, OutcomeSelf,
           OutcomeFinal, NodeFailed, Interpretation
  <2> QED
    BY <2>2
<1> QED
  BY <1>2, <1>3

\* The time of a report is not the zero time.
Timed == \A r \in Reporters : reporter[r].pc # "idle" => /\ reporter[r].result \in Results
                                                       /\ reporter[r].result.time > 0

LEMMA TimedInvariant == Spec => []Timed
<1>1. Init => Timed
  BY DEF Init, Timed
<1>2. ASSUME Inv, Inv', Timed, [Next]_vars
      PROVE  Timed'
  <2>1. ASSUME NEW r \in Reporters, NEW rt \in Routes, NEW outcome \in Outcomes(rt),
               Report(r, rt, outcome)
        PROVE  Timed'
    <3>1. PICK time \in now + 1 .. MaxTime :
              reporter' = [reporter EXCEPT ![r] =
                [pc |-> "timed",
                 result |-> [time |-> time, route |-> rt, outcome |-> outcome]]]
      BY <2>1 DEF Report
    <3>2. time \in Nat /\ time > 0
      BY <1>2, MissionControlAssumption DEF Inv, TypeOK, Times
    <3>3. [time |-> time, route |-> rt, outcome |-> outcome] \in Results
      BY <3>2, OutcomeType DEF Results
    <3>4. reporter \in [Reporters -> [pc : {"idle", "timed", "added"},
                                     result : Results \cup {None}]]
      BY <1>2 DEF Inv, TypeOK
    <3> QED
      BY <1>2, <3>1, <3>2, <3>3, <3>4 DEF Timed
  <2>2. ASSUME NEW r \in Reporters, QueueResult(r) \/ Apply(r)
        PROVE  Timed'
    <3>1. reporter \in [Reporters -> [pc : {"idle", "timed", "added"},
                                     result : Results \cup {None}]]
      BY <1>2 DEF Inv, TypeOK
    <3> QED
      BY <1>2, <2>2, <3>1 DEF QueueResult, Apply, Timed
  <2>3. ASSUME NEW relax \in RelaxIntervals, Restart(relax)
        PROVE  Timed'
    BY <2>3 DEF Restart, Timed
  <2>4. CASE UNCHANGED reporter
    BY <1>2, <2>4 DEF Timed
  <2> QED
    BY <1>2, <2>1, <2>2, <2>3, <2>4
    DEF Next, vars, SetConfig, ResetHistory, ImportHistory, Replay
<1> QED
  BY <1>1, <1>2, InductiveInvariant, PTL DEF Spec

\* A failure that is reported counts, even if it is dropped since a lower
\* amount failed shortly before.
LEMMA BlamedIsPenalised ==
    ASSUME NEW s \in States, NEW result \in Results, result.time > 0,
           NEW new, IsPairResults(new), Blames(result.route, new)
    PROVE  Penalised(SetLastPairResults(s, result.time, new, FALSE), result)
<1> DEFINE rt == result.route
           time == result.time
           t == SetLastPairResults(s, time, new, FALSE)
           set == {p \in DOMAIN new : ~Dropped(s, p, time, new[p], FALSE)}
<1>1. PICK i \in 0 .. Hops(rt) - 1 :
          /\ Channel(rt, i) \in DOMAIN new
          /\ ~new[Channel(rt, i)].success
          /\ new[Channel(rt, i)].amt <= Amt(rt, i)
  BY DEF Blames
<1> DEFINE p == Channel(rt, i)
           old == s.pairs[p]
           amt == new[p].amt
<1>2. p \in Pairs /\ new[p] \in PairResult /\ amt \in Nat /\ Amt(rt, i) \in Nat
  <2>1. IsRoute(rt)
    BY MissionControlAssumption DEF Results
  <2> QED
    BY <1>1, <2>1, ChannelType DEF IsPairResults, PairResult
<1>3. old \in TimedPairResult /\ s.relax \in Nat /\ time \in Nat
  BY <1>2, MissionControlAssumption DEF States, Results
<1>4. t.relax = s.relax
  BY DEF SetLastPairResults, States
<1>5. t.pairs[p] = IF p \in set THEN NewResult(old, time, new[p], FALSE) ELSE old
  BY <1>2 DEF SetLastPairResults, States
<1>6. /\ Penalised(t, result) =
            \E k \in 0 .. Hops(rt) - 1 :
                LET current == t.pairs[Channel(rt, k)]
                IN  /\ current.failTime # 0
                    /\ current.failAmt <= Amt(rt, k)
                    /\ \/ current.failTime = time
                       \/ time - current.failTime < t.relax
  BY DEF Penalised
<1> HIDE DEF t, p
<1>7. CASE p \in set
  <2>1. t.pairs[p] = Failure(old, time, amt)
    BY <1>1, <1>5, <1>7 DEF NewResult, p
  <2>2. t.pairs[p].failTime = time /\ t.pairs[p].failAmt = amt
    BY <1>3, <2>1 DEF Failure, TimedPairResult
  <2>3. time # 0
    BY <1>3
  <2>4. amt <= Amt(rt, i)
    BY <1>1 DEF p
  <2>5. /\ t.pairs[Channel(rt, i)].failTime # 0
        /\ t.pairs[Channel(rt, i)].failAmt <= Amt(rt, i)
        /\ t.pairs[Channel(rt, i)].failTime = time
    BY <2>2, <2>3, <2>4 DEF p
  <2> QED
    BY <1>1, <1>6, <2>5 DEF t
<1>8. CASE p \notin set
  <2>1. Dropped(s, p, time, new[p], FALSE)
    BY <1>1, <1>8 DEF p
  <2>2. amt > old.failAmt /\ Since(time, s.relax, old.failTime)
    BY <2>1 DEF Dropped, TooSoon
  <2>3. old.failTime # 0 /\ time - old.failTime < s.relax
    BY <1>3, <2>2 DEF Since
  <2>4. old.failAmt <= Amt(rt, i)
    <3>1. amt <= Amt(rt, i) /\ old.failAmt \in Nat
      BY <1>1, <1>3 DEF TimedPairResult, p
    <3> QED
      BY <1>2, <2>2, <3>1
  <2>5. /\ t.pairs[Channel(rt, i)].failTime # 0
        /\ t.pairs[Channel(rt, i)].failAmt <= Amt(rt, i)
        /\ time - t.pairs[Channel(rt, i)].failTime < t.relax
    BY <1>4, <1>5, <1>8, <2>3, <2>4 DEF p
  <2> QED
    BY <1>1, <1>6, <2>5 DEF t
<1> QED
  BY <1>7, <1>8 DEF t

\* A failed attempt that may be retried penalises a channel of its route or
\* uses up a second chance, if routes use no pair of nodes twice.  (A pair that
\* is used twice may succeed where it comes first and hide the failure.)
THEOREM PenaltySafety ==
    ASSUME \A rt \in Routes : IsSimple(rt)
    PROVE  Spec => FailurePenalised
<1>1. ASSUME Inv, Timed, NEW r \in Reporters, Apply(r),
             ~Blameless(reporter[r].result),
             InterpretResult(reporter[r].result.route, reporter[r].result.outcome).final = "none"
      PROVE  state'.chances # state.chances \/ Penalised(state', reporter[r].result)
  <2> DEFINE result == reporter[r].result
             rt == result.route
             i == InterpretResult(rt, result.outcome)
             granted == {p \in i.policy : SecondChance(state, p, result.time)}
             failed == SetAllFail(state, i.node, result.time)
  <2>1. result \in Results /\ result.time > 0 /\ state \in States
    BY <1>1 DEF Apply, Timed, Inv, TypeOK
  <2>2. /\ rt \in Routes /\ IsRoute(rt) /\ IsSimple(rt) /\ result.time \in Nat
        /\ result.outcome \in Outcomes(rt)
    BY <2>1, MissionControlAssumption DEF Results
  <2>3. state' = ApplyPaymentResult(state, result)
    BY <1>1 DEF Apply
  <2>4. ~Blameless([time |-> 0, route |-> rt, outcome |-> result.outcome])
    BY <1>1 DEF Blameless
  <2>5. Blames(rt, i.pairs)
    BY <1>1, <2>2, <2>4, FailureBlames
  <2>6. IsPairResults(i.pairs)
    BY <2>2, InterpretResultType
  <2>7. i.policy \subseteq Pairs
    BY <2>2, PolicyType
  <2> HIDE DEF i, rt
  <2>8. CASE granted # {}
    <3>1. PICK p \in granted : TRUE
      BY <2>8
    <3>2. p \in Pairs /\ SecondChance(state, p, result.time)
      BY <2>7
    <3>3. state.chances \in [Pairs -> Nat] /\ MinSecondChanceInterval \in Nat
      BY <2>1, MissionControlAssumption DEF States
    <3>4. state.chances[p] # result.time
      BY <2>1, <2>2, <3>2, <3>3 DEF SecondChance
    <3>5. state'.chances = [q \in Pairs |-> IF q \in granted THEN result.time
                                             ELSE state.chances[q]]
      BY <2>1, <2>3, <2>8 DEF ApplyPaymentResult, States, i, rt
    <3>6. state'.chances[p] = result.time
      BY <3>1, <3>2, <3>5
    <3> QED
      BY <3>4, <3>6
  <2>9. CASE granted = {}
    <3>1. state' = SetLastPairResults(failed, result.time, i.pairs, FALSE)
      BY <2>3, <2>9 DEF ApplyPaymentResult, i, rt
    <3>2. failed \in States
      BY <2>1, <2>2, SetAllFailType
    <3> HIDE DEF failed
    <3> QED
      BY <2>1, <2>5, <2>6, <3>1, <3>2, BlamedIsPenalised DEF rt
  <2> QED
    BY <2>8, <2>9
<1>2. Inv /\ Timed => [\A r \in Reporters :
          LET result == reporter[r].result
          IN  Apply(r) /\ ~Blameless(result)
                /\ InterpretResult(result.route, result.outcome).final = "none"
                => state'.chances # state.chances \/ Penalised(state', result)]_vars
  BY <1>1
<1> QED
  BY <1>2, InductiveInvariant, TimedInvariant, PTL DEF FailurePenalised

-----------------------------------------------------------------------------
(* Where the state comes from.                                             *)

\* More evidence does no harm.
LEMMA BackedGrows ==
    ASSUME NEW d, NEW E, NEW F, E \subseteq F, Backed(d, E)
    PROVE  Backed(d, F)
BY DEF Backed

\* Nothing is held against a new pair.
LEMMA NoResultBacked ==
    ASSUME NEW E
    PROVE  Backed(NoResult, E)
BY DEF Backed, NoResult

\* A result of which there is evidence, whatever the state it meets.
LEMMA NewResultBacked ==
    ASSUME NEW current \in TimedPairResult, NEW time \in Nat,
           NEW result \in PairResult, NEW force \in BOOLEAN,
           NEW E, \A e \in E : e.amt \in Nat,
           Backed(current, E), Said(time, result) \in E
    PROVE  Backed(NewResult(current, time, result, force), E)
<1> DEFINE e == Said(time, result)
<1>1. result.amt \in Nat /\ result.success \in BOOLEAN
  BY DEF PairResult
<1>2. /\ current.failTime \in Nat /\ current.failAmt \in Nat
      /\ current.successTime \in Nat /\ current.successAmt \in Nat
  BY DEF TimedPairResult
<1>3. e \in E /\ e.time = time /\ e.success = result.success /\ e.amt = result.amt
  BY DEF Said
<1> HIDE DEF e
<1>4. CASE result.success
  <2> DEFINE new == Success(current, time, result.amt, force)
             successAmt == IF force THEN result.amt ELSE Higher(current.successAmt, result.amt)
             failAmt == IF force \/ (current.failTime # 0 /\ result.amt >= current.failAmt)
                        THEN result.amt + 1 ELSE current.failAmt
  <2>1. successAmt = result.amt \/ successAmt = current.successAmt
    BY DEF Higher
  <2>2. failAmt = result.amt + 1 \/ failAmt = current.failAmt
    OBVIOUS
  <2>3. new = [current EXCEPT !.successTime = time, !.successAmt = successAmt,
                              !.failAmt = failAmt]
    BY DEF Success
  <2> HIDE DEF successAmt, failAmt, new
  <2>4. /\ new.failTime = current.failTime /\ new.failAmt = failAmt
        /\ new.successTime = time /\ new.successAmt = successAmt
    BY <2>3 DEF TimedPairResult
  <2>5. failAmt # 0 => \E x \in E : failAmt = IF x.success THEN x.amt + 1 ELSE x.amt
    BY <1>3, <1>4, <2>2 DEF Backed
  <2>6. successAmt # 0 => \E x \in E : x.success /\ successAmt <= x.amt
    <3>1. CASE successAmt = result.amt
      <4>1. e.success
        BY <1>3, <1>4
      <4>2. successAmt <= e.amt
        BY <1>1, <1>3, <3>1
      <4> QED
        BY <1>3, <4>1, <4>2
    <3>2. CASE successAmt = current.successAmt
      BY <3>2 DEF Backed
    <3> QED
      BY <2>1, <3>1, <3>2
  <2>7. \E x \in E : x.success /\ x.time = time
    BY <1>3, <1>4
  <2>8. new.failTime # 0 => \E x \in E : ~x.success /\ x.time = new.failTime
    BY <2>4 DEF Backed
  <2>9. Backed(new, E)
    BY <2>4, <2>5, <2>6, <2>7, <2>8 DEF Backed
  <2> QED
    BY <2>9, <1>4 DEF NewResult, new
<1>5. CASE ~result.success
  <2> DEFINE new == Failure(current, time, result.amt)
             successAmt == IF result.amt = 0 THEN 0
                           ELSE IF result.amt <= current.successAmt THEN result.amt - 1
                           ELSE current.successAmt
  <2>1. successAmt = 0 \/ (successAmt \in Nat /\ successAmt <= current.successAmt)
    BY <1>1, <1>2
  <2>2. new = [current EXCEPT !.failTime = time, !.failAmt = result.amt,
                              !.successAmt = successAmt]
    BY DEF Failure
  <2> HIDE DEF successAmt, new
  <2>3. /\ new.failTime = time /\ new.failAmt = result.amt
        /\ new.successTime = current.successTime /\ new.successAmt = successAmt
    BY <2>2 DEF TimedPairResult
  <2>4. ASSUME successAmt # 0
        PROVE  \E x \in E : x.success /\ successAmt <= x.amt
    <3>1. current.successAmt # 0
      BY <1>2, <2>1, <2>4
    <3>2. PICK x \in E : x.success /\ current.successAmt <= x.amt
      BY <3>1 DEF Backed
    <3>3. successAmt <= x.amt
      BY <1>2, <2>1, <2>4, <3>2
    <3> QED
      BY <3>2, <3>3
  <2>5. Backed(new, E)
    BY <1>3, <1>5, <2>3, <2>4 DEF Backed
  <2> QED
    BY <2>5, <1>5 DEF NewResult, new
<1> QED
  BY <1>1, <1>4, <1>5

\* The members of Evidence.
LEMMA EvidenceIs ==
    ASSUME NEW S, NEW p
    PROVE  \A e : e \in Evidence(S, p) <=>
                \/ \E r \in S : \E result \in Tells(r, p) : e = Said(r.time, result)
                \/ \E snapshot \in Snapshots : e \in SaidBy(snapshot, p)
<1> SUFFICES ASSUME NEW e
             PROVE  e \in Evidence(S, p) <=>
                      \/ \E r \in S : \E result \in Tells(r, p) : e = Said(r.time, result)
                      \/ \E snapshot \in Snapshots : e \in SaidBy(snapshot, p)
  OBVIOUS
<1>1. \A r : e \in SaidIn(r, p) <=> \E result \in Tells(r, p) : e = Said(r.time, result)
  BY DEF SaidIn
<1>2. e \in Evidence(S, p) <=> \/ \E r \in S : e \in SaidIn(r, p)
                            \/ \E snapshot \in Snapshots : e \in SaidBy(snapshot, p)
  <2> DEFINE A == UNION {SaidIn(r, p) : r \in S}
             B == UNION {SaidBy(snapshot, p) : snapshot \in Snapshots}
  <2>1. e \in A <=> \E r \in S : e \in SaidIn(r, p)
    OBVIOUS
  <2>2. e \in B <=> \E snapshot \in Snapshots : e \in SaidBy(snapshot, p)
    OBVIOUS
  <2>3. Evidence(S, p) = A \cup B
    BY DEF Evidence
  <2> HIDE DEF A, B
  <2>4. e \in Evidence(S, p) <=> e \in A \/ e \in B
    BY <2>3
  <2> QED
    BY <2>1, <2>2, <2>4
<1> QED
  BY <1>1, <1>2

\* The evidence of a pair consists of times and amounts.
LEMMA EvidenceType ==
    ASSUME NEW S, NEW p \in Pairs, S \subseteq Results
    PROVE  \A e \in Evidence(S, p) : e.amt \in Nat
<1>1. ASSUME NEW r \in S, NEW result \in Tells(r, p)
      PROVE  Said(r.time, result).amt \in Nat
  <2>1. IsPairResults(InterpretResult(r.route, r.outcome).pairs)
    BY InterpretResultType, MissionControlAssumption DEF Results
  <2>2. result \in PairResult
    <3>1. FailPairResult(0) \in PairResult
      BY FailPairResultType
    <3> QED
      BY <1>1, <2>1, <3>1 DEF Tells, IsPairResults
  <2> QED
    BY <2>2 DEF Said, PairResult
<1>2. ASSUME NEW snapshot \in Snapshots, NEW e \in SaidBy(snapshot, p)
      PROVE  e.amt \in Nat
  <2>0. p \in DOMAIN snapshot
    BY <1>2 DEF SaidBy
  <2>1. snapshot[p] \in TimedPairResult
    BY <2>0, SnapshotsAssumption DEF IsPairData
  <2>2. snapshot[p].failAmt \in Nat /\ snapshot[p].successAmt \in Nat
    BY <2>1 DEF TimedPairResult
  <2>3. FailureOf(snapshot[p])[2] \in Nat
    BY <2>2 DEF FailureOf
  <2>4. \/ e = Said(FailureOf(snapshot[p])[1], FailPairResult(FailureOf(snapshot[p])[2]))
        \/ e = Said(snapshot[p].successTime, SuccessPairResult(snapshot[p].successAmt))
    BY <1>2, <2>0 DEF SaidBy
  <2> QED
    BY <2>2, <2>3, <2>4 DEF Said, FailPairResult, SuccessPairResult
<1>3. ASSUME NEW e \in Evidence(S, p)
      PROVE  \/ \E r \in S : \E result \in Tells(r, p) : e = Said(r.time, result)
             \/ \E snapshot \in Snapshots : e \in SaidBy(snapshot, p)
  BY EvidenceIs
<1> QED
  BY <1>1, <1>2, <1>3

\* What is told of the pairs by a result that is in the store.
LEMMA StoredIsEvidence ==
    ASSUME NEW S, NEW r \in S, NEW p \in Pairs
    PROVE  /\ p \in DOMAIN InterpretResult(r.route, r.outcome).pairs
                 => Said(r.time, InterpretResult(r.route, r.outcome).pairs[p]) \in Evidence(S, p)
           /\ (\/ p[1] \in InterpretResult(r.route, r.outcome).node
               \/ p[2] \in InterpretResult(r.route, r.outcome).node)
                 => Said(r.time, FailPairResult(0)) \in Evidence(S, p)
<1> DEFINE i == InterpretResult(r.route, r.outcome)
<1>1. ASSUME NEW result \in Tells(r, p)
      PROVE  Said(r.time, result) \in Evidence(S, p)
  BY EvidenceIs
<1>2. p \in DOMAIN i.pairs => i.pairs[p] \in Tells(r, p)
  BY DEF Tells
<1>3. (\/ p[1] \in i.node
       \/ p[2] \in i.node) => FailPairResult(0) \in Tells(r, p)
  BY DEF Tells
<1> QED
  BY <1>1, <1>2, <1>3

\* A stored result is applied: all that changes is backed by it.
LEMMA ApplyBacked ==
    ASSUME NEW s \in States, NEW S, NEW r \in S, NEW p \in Pairs, S \subseteq Results,
           Backed(s.pairs[p], Evidence(S, p))
    PROVE  /\ Backed(ApplyPaymentResult(s, r).pairs[p], Evidence(S, p))
           /\ \/ ApplyPaymentResult(s, r).chances[p] = s.chances[p]
              \/ /\ ApplyPaymentResult(s, r).chances[p] = r.time
                 /\ p \in InterpretResult(r.route, r.outcome).policy
<1> DEFINE i == InterpretResult(r.route, r.outcome)
           time == r.time
           granted == {q \in i.policy : SecondChance(s, q, time)}
           mid == SetAllFail(s, i.node, time)
           failed == [NoResult EXCEPT !.failTime = time]
           E == Evidence(S, p)
           set == SetLastPairResults(mid, time, i.pairs, FALSE)
<1>1. time \in Nat /\ r.outcome \in Outcomes(r.route) /\ IsRoute(r.route)
  BY MissionControlAssumption DEF Results
<1>2. IsPairResults(i.pairs)
  BY <1>1, InterpretResultType
<1>3. \A e \in E : e.amt \in Nat
  BY EvidenceType
<1>4. mid \in States
  BY <1>1, SetAllFailType
<1>5. Backed(mid.pairs[p], E)
  <2>1. CASE mid.pairs[p] = s.pairs[p]
    BY <2>1
  <2>2. CASE mid.pairs[p] = failed /\ (p[1] \in i.node \/ p[2] \in i.node)
    <3>1. Said(time, FailPairResult(0)) \in E
      BY <2>2, StoredIsEvidence
    <3>2. /\ failed.failTime = time /\ failed.failAmt = 0
          /\ failed.successTime = 0 /\ failed.successAmt = 0
      BY DEF NoResult
    <3>3. /\ ~Said(time, FailPairResult(0)).success
          /\ Said(time, FailPairResult(0)).time = time
      BY DEF Said, FailPairResult
    <3> HIDE DEF failed, time, E
    <3>4. Backed(failed, E)
      BY <3>1, <3>2, <3>3 DEF Backed
    <3> QED
      BY <2>2, <3>4
  <2>3. \/ mid.pairs[p] = s.pairs[p]
        \/ mid.pairs[p] = failed /\ (p[1] \in i.node \/ p[2] \in i.node)
    BY DEF SetAllFail, States
  <2> QED
    BY <2>1, <2>2, <2>3
<1>6. /\ \/ set.pairs[p] = mid.pairs[p]
         \/ /\ p \in DOMAIN i.pairs
            /\ set.pairs[p] = NewResult(mid.pairs[p], time, i.pairs[p], FALSE)
      /\ set.chances = mid.chances
  <2> HIDE DEF mid, i, time
  <2> QED
    BY <1>4 DEF SetLastPairResults, States
<1>7. Backed(set.pairs[p], E)
  <2>1. CASE p \in DOMAIN i.pairs /\ set.pairs[p] = NewResult(mid.pairs[p], time, i.pairs[p], FALSE)
    <3>1. Said(time, i.pairs[p]) \in E
      BY <2>1, StoredIsEvidence
    <3>2. i.pairs[p] \in PairResult
      BY <1>2, <2>1 DEF IsPairResults
    <3>3. mid.pairs[p] \in TimedPairResult
      BY <1>4 DEF States
    <3> HIDE DEF mid, i, time, E, set
    <3>4. Backed(NewResult(mid.pairs[p], time, i.pairs[p], FALSE), E)
      BY <1>1, <1>3, <1>5, <3>1, <3>2, <3>3, NewResultBacked
    <3> QED
      BY <2>1, <3>4
  <2> QED
    BY <1>5, <1>6, <2>1
<1>8. mid.chances = s.chances
  BY DEF SetAllFail, States
<1>9. CASE granted # {}
  <2>1. ApplyPaymentResult(s, r) =
          [s EXCEPT !.chances = [q \in Pairs |-> IF q \in granted THEN time ELSE s.chances[q]]]
    BY <1>9 DEF ApplyPaymentResult
  <2> HIDE DEF granted
  <2>2. /\ ApplyPaymentResult(s, r).pairs = s.pairs
        /\ ApplyPaymentResult(s, r).chances =
                [q \in Pairs |-> IF q \in granted THEN time ELSE s.chances[q]]
    BY <2>1 DEF States
  <2>3. granted \subseteq i.policy
    BY DEF granted
  <2> QED
    BY <2>2, <2>3
<1>10. CASE granted = {}
  <2>1. ApplyPaymentResult(s, r) = set
    BY <1>10 DEF ApplyPaymentResult
  <2> QED
    BY <1>6, <1>7, <1>8, <2>1
<1> QED
  BY <1>9, <1>10

\* An imported result, with or without force.
LEMMA ImportResultBacked ==
    ASSUME NEW s \in States, NEW p \in Pairs, NEW current, NEW time \in Nat,
           NEW result \in PairResult, NEW force \in BOOLEAN,
           NEW E, \A e \in E : e.amt \in Nat,
           Backed(s.pairs[p], E), Said(time, result) \in E
    PROVE  Backed(ImportResult(s, p, current, time, result, force).pairs[p], E)
<1> DEFINE new == [q \in {p} |-> result]
           set == SetLastPairResults(s, time, new, force)
<1>1. DOMAIN new = {p} /\ new[p] = result
  OBVIOUS
<1> HIDE DEF new
<1>2. \/ set.pairs[p] = s.pairs[p]
      \/ set.pairs[p] = NewResult(s.pairs[p], time, result, force)
  BY <1>1 DEF SetLastPairResults, States
<1>3. s.pairs[p] \in TimedPairResult
  BY DEF States
<1>4. Backed(NewResult(s.pairs[p], time, result, force), E)
  BY <1>3, NewResultBacked
<1>5. Backed(set.pairs[p], E)
  BY <1>2, <1>4
<1>6. ImportResult(s, p, current, time, result, force) \in {s, set}
  BY DEF ImportResult, SetLastPairResult, new
<1> QED
  BY <1>5, <1>6

\* A whole snapshot.
LEMMA ImportBacked ==
    ASSUME NEW s \in States, NEW snapshot \in Snapshots, NEW force \in BOOLEAN,
           NEW S, NEW p \in Pairs, S \subseteq Results, Backed(s.pairs[p], Evidence(S, p))
    PROVE  /\ Backed(ImportSnapshot(s, snapshot, force).pairs[p], Evidence(S, p))
           /\ ImportSnapshot(s, snapshot, force).chances = s.chances
<1> DEFINE E == Evidence(S, p)
           d == snapshot[p]
           failure == FailPairResult(FailureOf(d)[2])
           failed == ImportResult(s, p, s.pairs[p].failTime, FailureOf(d)[1], failure, force)
<1>1. \A e \in E : e.amt \in Nat
  BY EvidenceType
<1>2. ASSUME p \in DOMAIN snapshot
      PROVE  Backed(ImportPair(s, p, snapshot[p], force).pairs[p], E)
  <2>1. d \in TimedPairResult
    BY <1>2, SnapshotsAssumption DEF IsPairData
  <2>2. /\ d.failTime \in Nat /\ d.failAmt \in Nat
        /\ d.successTime \in Nat /\ d.successAmt \in Nat
    BY <2>1 DEF TimedPairResult
  <2>3. FailureOf(d)[1] \in Nat /\ FailureOf(d)[2] \in Nat
    BY <2>2 DEF FailureOf
  <2>4. failure \in PairResult /\ SuccessPairResult(d.successAmt) \in PairResult
    BY <2>2, <2>3, FailPairResultType
  <2>5. /\ Said(FailureOf(d)[1], failure) \in E
        /\ Said(d.successTime, SuccessPairResult(d.successAmt)) \in E
    <3>1. /\ Said(FailureOf(d)[1], failure) \in SaidBy(snapshot, p)
          /\ Said(d.successTime, SuccessPairResult(d.successAmt)) \in SaidBy(snapshot, p)
      BY <1>2 DEF SaidBy
    <3>2. SaidBy(snapshot, p) \subseteq E
      BY EvidenceIs
    <3> QED
      BY <3>1, <3>2
  <2>6. failed \in States
    BY <2>3, <2>4, ImportResultType
  <2> HIDE DEF failure, E
  <2>7. Backed(failed.pairs[p], E)
    BY <1>1, <2>3, <2>4, <2>5, ImportResultBacked DEF E
  <2>8. ImportPair(s, p, d, force) =
          ImportResult(failed, p, s.pairs[p].successTime, d.successTime,
                       SuccessPairResult(d.successAmt), force)
    BY DEF ImportPair, failure
  <2> HIDE DEF failed, d
  <2>9. Backed(ImportPair(s, p, d, force).pairs[p], E)
    BY <1>1, <2>2, <2>4, <2>5, <2>6, <2>7, <2>8, ImportResultBacked
  <2> QED
    BY <2>9 DEF d
<1> HIDE DEF E, d, failure, failed
<1>3. /\ ImportSnapshot(s, snapshot, force).pairs[p] =
            IF p \in DOMAIN snapshot THEN ImportPair(s, p, snapshot[p], force).pairs[p]
            ELSE s.pairs[p]
      /\ ImportSnapshot(s, snapshot, force).chances = s.chances
  BY DEF ImportSnapshot, States
<1> QED
  BY <1>2, <1>3 DEF E

\* What is still to be applied is in the store, or was when it was cleared.
Pending ==
    /\ replay \subseteq Stored
    /\ \A r \in Reporters : reporter[r].pc = "added" => reporter[r].result \in Stored

\* A state in which nothing is held against or for any pair.
LEMMA NewStateGrounded ==
    ASSUME NEW relax, state = NewState(relax)
    PROVE  Grounded
BY NoResultBacked DEF NewState, Grounded

\* The evidence grows with the store.
LEMMA GroundedGrows ==
    ASSUME Grounded, state'.pairs = state.pairs, state'.chances = state.chances,
           Stored \subseteq Stored'
    PROVE  Grounded'
<1> SUFFICES ASSUME NEW p \in Pairs
             PROVE  /\ Backed(state'.pairs[p], Evidence(Stored', p))
                    /\ state'.chances[p] # 0 =>
                          \E r \in Stored' :
                              /\ r.time = state'.chances[p]
                              /\ p \in InterpretResult(r.route, r.outcome).policy
  BY DEF Grounded
<1>1. ASSUME NEW S, NEW T, S \subseteq T
      PROVE  Evidence(S, p) \subseteq Evidence(T, p)
  BY <1>1, EvidenceIs
<1>3. Evidence(Stored, p) \subseteq Evidence(Stored', p)
  BY <1>1
<1>4. Backed(state.pairs[p], Evidence(Stored, p))
  BY DEF Grounded
<1> DEFINE E == Evidence(Stored, p)
           F == Evidence(Stored', p)
<1>5. Backed(state.pairs[p], F)
  <2> HIDE DEF E, F
  <2>1. E \subseteq F /\ Backed(state.pairs[p], E)
    BY <1>3, <1>4 DEF E, F
  <2> QED
    BY <2>1, BackedGrows
<1> QED
  BY <1>5 DEF Grounded

\* A result that is in the store is applied.
LEMMA GroundedApply ==
    ASSUME Inv, Grounded, NEW r \in Stored, Stored' = Stored,
           state' = ApplyPaymentResult(state, r)
    PROVE  Grounded'
<1>1. state \in States /\ Stored \subseteq Results
  BY DEF Inv, TypeOK, Stored, ToSet
<1> SUFFICES ASSUME NEW p \in Pairs
             PROVE  /\ Backed(state'.pairs[p], Evidence(Stored', p))
                    /\ state'.chances[p] # 0 =>
                          \E x \in Stored' :
                              /\ x.time = state'.chances[p]
                              /\ p \in InterpretResult(x.route, x.outcome).policy
  BY DEF Grounded
<1>2. Backed(state.pairs[p], Evidence(Stored, p))
  BY DEF Grounded
<1>3. /\ Backed(state'.pairs[p], Evidence(Stored, p))
      /\ \/ state'.chances[p] = state.chances[p]
         \/ /\ state'.chances[p] = r.time
            /\ p \in InterpretResult(r.route, r.outcome).policy
  BY <1>1, <1>2, ApplyBacked
<1> QED
  BY <1>3 DEF Grounded

\* One step keeps the state grounded.
LEMMA GroundedNext ==
    ASSUME Inv, Inv', Grounded, Pending, [Next]_vars
    PROVE  Grounded' /\ Pending'
<1>1. /\ state \in States
      /\ results \in Seq(Results) /\ results' \in Seq(Results)
      /\ reporter \in [Reporters -> [pc : {"idle", "timed", "added"}, result : Results \cup {None}]]
      /\ Stored \subseteq Results
  BY DEF Inv, TypeOK, Stored, ToSet
<1>2. ASSUME NEW r \in Reporters, NEW rt \in Routes, NEW outcome \in Outcomes(rt),
             Report(r, rt, outcome)
      PROVE  Grounded' /\ Pending'
  <2>1. Stored' = Stored
    BY <1>2 DEF Report, Stored
  <2>2. PICK new : new.pc = "timed" /\ reporter' = [reporter EXCEPT ![r] = new]
    BY <1>2 DEF Report
  <2>3. Pending'
    BY <1>1, <1>2, <2>1, <2>2 DEF Report, Pending
  <2> QED
    BY <1>2, <2>1, <2>3, GroundedGrows DEF Report
<1>3. ASSUME NEW r \in Reporters, QueueResult(r)
      PROVE  Grounded' /\ Pending'
  <2>1. reporter[r].result \in Results
    BY <1>1, <1>3 DEF QueueResult, Inv, TypeOK
  <2>2. Stored' = Stored \cup {reporter[r].result}
    BY <1>1, <1>3, <2>1 DEF QueueResult, Stored, ToSet
  <2>3. Pending'
    BY <1>1, <1>3, <2>2 DEF QueueResult, Pending
  <2> QED
    BY <1>3, <2>2, <2>3, GroundedGrows DEF QueueResult
<1>4. ASSUME NEW r \in Reporters, Apply(r)
      PROVE  Grounded' /\ Pending'
  <2>1. Stored' = Stored /\ reporter[r].result \in Stored
    BY <1>4 DEF Apply, Stored, Pending
  <2>2. Grounded'
    BY <1>4, <2>1, GroundedApply DEF Apply
  <2>3. Pending'
    BY <1>1, <1>4, <2>1 DEF Apply, Pending
  <2> QED
    BY <2>2, <2>3
<1>5. ASSUME NEW relax \in RelaxIntervals, SetConfig(relax)
      PROVE  Grounded' /\ Pending'
  <2>1. Stored' = Stored /\ state'.pairs = state.pairs /\ state'.chances = state.chances
    BY <1>1, <1>5 DEF SetConfig, Stored, States
  <2>2. Pending'
    BY <1>5, <2>1 DEF SetConfig, Pending
  <2> QED
    BY <2>1, <2>2, GroundedGrows
<1>6. ASSUME ResetHistory
      PROVE  Grounded' /\ Pending'
  <2>1. Grounded'
    BY <1>6, NoResultBacked DEF ResetHistory, NewState, Grounded
  <2>2. \A r \in Reporters : reporter[r].pc = "added" => reporter[r].result \in Stored'
    BY <1>6 DEF ResetHistory, Stored
  <2>3. replay' = {} /\ reporter' = reporter
    BY <1>6 DEF ResetHistory, Ready
  <2> QED
    BY <2>1, <2>2, <2>3 DEF Pending
<1>7. ASSUME NEW snapshot \in Snapshots, NEW force \in BOOLEAN, ImportHistory(snapshot, force)
      PROVE  Grounded' /\ Pending'
  <2>1. Stored' = Stored
    BY <1>7 DEF ImportHistory, Stored
  <2>2. Pending'
    BY <1>7, <2>1 DEF ImportHistory, Pending
  <2>3. CASE state' = state
    BY <2>1, <2>2, <2>3, GroundedGrows
  <2>4. CASE state' = ImportSnapshot(state, snapshot, force)
    <3> SUFFICES ASSUME NEW p \in Pairs
                 PROVE  /\ Backed(state'.pairs[p], Evidence(Stored', p))
                        /\ state'.chances[p] # 0 =>
                              \E x \in Stored' :
                                  /\ x.time = state'.chances[p]
                                  /\ p \in InterpretResult(x.route, x.outcome).policy
      BY <2>2 DEF Grounded
    <3>1. Backed(state.pairs[p], Evidence(Stored, p))
      BY DEF Grounded
    <3>2. Backed(state'.pairs[p], Evidence(Stored, p)) /\ state'.chances = state.chances
      BY <1>1, <2>4, <3>1, ImportBacked
    <3> QED
      BY <2>1, <3>2 DEF Grounded
  <2> QED
    BY <1>7, <2>2, <2>3, <2>4 DEF ImportHistory
<1>8. ASSUME NEW relax \in RelaxIntervals, Restart(relax)
      PROVE  Grounded' /\ Pending'
  <2>1. Grounded'
    BY <1>8, NoResultBacked DEF Restart, NewState, Grounded
  <2>2. replay' \subseteq Stored' /\ \A r \in Reporters : reporter'[r].pc = "idle"
    BY <1>8 DEF Restart, Stored
  <2> QED
    BY <2>1, <2>2 DEF Pending
<1>9. ASSUME Replay
      PROVE  Grounded' /\ Pending'
  <2>1. PICK result \in replay : /\ state' = ApplyPaymentResult(state, result)
                                 /\ replay' = replay \ {result}
    BY <1>9 DEF Replay
  <2>2. Stored' = Stored /\ result \in Stored
    BY <1>9 DEF Replay, Stored, Pending
  <2>3. Grounded'
    BY <2>1, <2>2, GroundedApply
  <2> QED
    BY <1>9, <2>1, <2>2, <2>3 DEF Replay, Pending
<1>10. CASE UNCHANGED vars
  <2>1. Stored' = Stored
    BY <1>10 DEF vars, Stored
  <2> QED
    BY <1>10, <2>1, GroundedGrows DEF vars, Pending
<1> QED
  BY <1>2, <1>3, <1>4, <1>5, <1>6, <1>7, <1>8, <1>9, <1>10 DEF Next

\* For any number of concurrent reporters, any routes, messages and snapshots,
\* through resets, changes of the configuration and restarts that lose results:
\* all that mission control holds of a pair comes from a result in the store or
\* from a snapshot, with its time.
THEOREM GroundedSafety == Spec => []Grounded
<1>1. Init => Grounded /\ Pending
  BY NewStateGrounded DEF Init, Pending
<1>2. Inv /\ Inv' /\ Grounded /\ Pending /\ [Next]_vars => Grounded' /\ Pending'
  BY GroundedNext
<1> QED
  BY <1>1, <1>2, InductiveInvariant, PTL DEF Spec

-----------------------------------------------------------------------------
(* The store that keeps the results.                                       *)

\* The bounds and limits of the store are numbers.
LEMMA StoreParameters ==
    /\ MaxResult \in Nat
    /\ MaxRecords \subseteq Nat /\ InitialMax \in MaxRecords
BY MissionControlStoreAssumption

\* newMissionControlStore finds every record of the bucket, each once.
LEMMA ChronologicalLists ==
    ASSUME NEW S \in SUBSET Nat, IsFiniteSet(S)
    PROVE  /\ Chronological(S) \in Seq(S)
           /\ Range(Chronological(S)) = S
           /\ IsInjective(Chronological(S))
<1> DEFINE n == Cardinality(S)
           s == Chronological(S)
<1>1. n \in Nat
  BY FS_CardinalityType
<1>2. s \in [1 .. n -> S] /\ \A i, j \in DOMAIN s : i < j => s[i] < s[j]
  <2>1. s = CHOOSE t \in [1 .. n -> S] : \A i, j \in DOMAIN t : i < j => t[i] < t[j]
    BY DEF Chronological
  <2>2. \E t \in [1 .. n -> S] : \A i, j \in DOMAIN t : i < j => t[i] < t[j]
    BY SortedExists
  <2> HIDE DEF s, n
  <2> QED
    BY <2>1, <2>2
<1> HIDE DEF s
<1>3. \A i, j \in 1 .. n : s[i] = s[j] => i = j
  BY <1>2, SortedListing
<1>4. \A x \in S : \E i \in 1 .. n : s[i] = x
  BY <1>2, SortedListing
<1>5. s \in Seq(S)
  BY <1>1, <1>2
<1>6. Range(s) = S
  BY <1>2, <1>4 DEF Range
<1>7. IsInjective(s)
  BY <1>2, <1>3 DEF IsInjective
<1> QED
  BY <1>5, <1>6, <1>7 DEF s

-----------------------------------------------------------------------------

\* What the loop over the batch leaves is a sequence of results.
LEMMA DedupType ==
    ASSUME StoreTypeOK
    PROVE  /\ Dedup(batch).list \in Seq(ResultKeys)
           /\ Dedup(batch).count \in Nat
<1>1. batch \in Seq(ResultKeys)
  BY DEF StoreTypeOK
<1>2. CASE Repeated(batch) = {}
  BY <1>1, <1>2 DEF Dedup
<1>3. CASE Repeated(batch) # {}
  <2> DEFINE R == Repeated(batch)
             i == CHOOSE i \in R : \A j \in R : i <= j
  <2>1. R \in SUBSET Nat /\ R \subseteq 1 .. Len(batch)
    BY <1>1 DEF Repeated
  <2>2. i \in R
    <3> HIDE DEF R
    <3>1. \E k \in R : \A j \in R : k <= j
      BY <1>3, <2>1, SmallestNat DEF R
    <3> QED
      BY <3>1
  <2>3. i \in 1 .. Len(batch)
    BY <2>1, <2>2
  <2> HIDE DEF i
  <2>4. Dedup(batch) = [list |-> SubSeq(batch, 1, i - 1) \o SubSeq(batch, i + 1, Len(batch)),
                             count |-> i - 1]
    BY <1>3 DEF Dedup, i
  <2>5. /\ SubSeq(batch, 1, i - 1) \in Seq(ResultKeys)
        /\ SubSeq(batch, i + 1, Len(batch)) \in Seq(ResultKeys)
    BY <1>1, <2>3
  <2> QED
    BY <2>3, <2>4, <2>5
<1> QED
  BY <1>2, <1>3

\* What the transaction does: it deletes the first old keys and drops the
\* first results of the list.
LEMMA StoreStep ==
    ASSUME StoreTypeOK, StoreResults
    PROVE  \E o \in 0 .. Len(keys), n \in 0 .. Len(Dedup(batch).list) :
              LET d    == Dedup(batch)
                  over == Len(keys) + d.count - maxRecords
                  list == SubSeq(d.list, n + 1, Len(d.list))
              IN  /\ keys' = SubSeq(keys, o + 1, Len(keys)) \o list
                  /\ db' = (db \cup Range(list)) \ Range(SubSeq(keys, 1, o))
                  /\ keysMap' = keysMap \ Range(SubSeq(keys, 1, o))
                  /\ batch' = <<>> /\ ticker' = "check"
                  /\ UNCHANGED <<queue, maxRecords, done, stopper, reported, cleared>>
                  /\ n > 0 => o = Len(keys)
                  /\ maxRecords > 0 /\ d.count = Len(d.list) => Len(keys') <= maxRecords
<1> DEFINE d == Dedup(batch)
           o == OldToDelete(d)
           n == NewToDrop(d)
           t == ToDelete(d)
<1>1. /\ keys \in Seq(ResultKeys) /\ Len(keys) \in Nat
      /\ d.list \in Seq(ResultKeys) /\ Len(d.list) \in Nat
      /\ d.count \in Nat /\ maxRecords \in Nat
  BY DedupType, StoreParameters DEF StoreTypeOK
<1>2. /\ keys' = SubSeq(keys, o + 1, Len(keys)) \o SubSeq(d.list, n + 1, Len(d.list))
      /\ db' = (db \cup Range(SubSeq(d.list, n + 1, Len(d.list))))
                 \ Range(SubSeq(keys, 1, o))
      /\ keysMap' = keysMap \ Range(SubSeq(keys, 1, o))
      /\ batch' = <<>> /\ ticker' = "check"
      /\ UNCHANGED <<queue, maxRecords, done, stopper, reported, cleared>>
  BY DEF StoreResults, Drop, At
<1>3. t = IF maxRecords = 0 \/ Len(keys) + d.count <= maxRecords THEN 0
          ELSE Len(keys) + d.count - maxRecords
  BY DEF ToDelete
<1>4. o = Min({t, Len(keys)}) /\ n = Min({t - o, Len(d.list)})
  BY DEF OldToDelete, NewToDrop
<1>5. \A a, b \in Int : Min({a, b}) = IF a <= b THEN a ELSE b
  <2> SUFFICES ASSUME NEW a \in Int, NEW b \in Int
               PROVE  Min({a, b}) = IF a <= b THEN a ELSE b
    OBVIOUS
  <2>1. CASE a <= b
    BY <2>1 DEF Min
  <2>2. CASE ~ (a <= b)
    BY <2>2 DEF Min
  <2> QED
    BY <2>1, <2>2
<1> DEFINE k == Len(keys)
           l == Len(d.list)
<1> HIDE DEF d, o, n, t, k, l
<1>6. k \in Nat /\ l \in Nat /\ t \in Nat
  BY <1>1, <1>3 DEF k, l
<1>7. o = IF t <= k THEN t ELSE k
  BY <1>4, <1>5, <1>6 DEF k
<1>8. o \in 0 .. k /\ t - o \in Nat
  BY <1>6, <1>7
<1>9. n = IF t - o <= l THEN t - o ELSE l
  <2> DEFINE m == t - o
  <2>1. m \in Int /\ l \in Int /\ n = Min({m, l})
    BY <1>4, <1>6, <1>8 DEF l
  <2> HIDE DEF m
  <2>2. n = IF m <= l THEN m ELSE l
    BY <1>5, <2>1
  <2> QED
    BY <2>2 DEF m
<1>10. n \in 0 .. l /\ (n > 0 => o = k)
  BY <1>6, <1>7, <1>8, <1>9
<1>11. Len(keys') = (k - o) + (l - n)
  <2>1. /\ SubSeq(keys, o + 1, Len(keys)) \in Seq(ResultKeys)
        /\ Len(SubSeq(keys, o + 1, Len(keys))) = k - o
    BY <1>1, <1>6, <1>8 DEF k
  <2>2. /\ SubSeq(d.list, n + 1, Len(d.list)) \in Seq(ResultKeys)
        /\ Len(SubSeq(d.list, n + 1, Len(d.list))) = l - n
    BY <1>1, <1>6, <1>10 DEF l
  <2> QED
    BY <1>2, <2>1, <2>2
<1>12. maxRecords > 0 /\ d.count = l => Len(keys') <= maxRecords
  <2> SUFFICES ASSUME maxRecords > 0, d.count = l
               PROVE  Len(keys') <= maxRecords
    OBVIOUS
  <2>1. t = IF k + l <= maxRecords THEN 0 ELSE k + l - maxRecords
    BY <1>1, <1>3, <1>6 DEF k
  <2>2. (k - o) + (l - n) <= maxRecords
    BY <1>1, <1>6, <1>7, <1>9, <2>1
  <2> QED
    BY <1>11, <2>2
<1> QED
  BY <1>2, <1>8, <1>10, <1>12 DEF d, k, l

\* What is stored is a finite set of numbers.
LEMMA StoredFinite ==
    ASSUME StoreTypeOK
    PROVE  db \in SUBSET Nat /\ IsFiniteSet(db)
<1>1. MaxResult \in Nat /\ db \in SUBSET (1 .. MaxResult)
  BY StoreParameters DEF ResultKeys, StoreTypeOK
<1>2. IsFiniteSet(1 .. MaxResult)
  BY <1>1, FS_Interval
<1>3. IsFiniteSet(db)
  BY <1>1, <1>2, FS_Subset
<1> QED
  BY <1>1, <1>3

\* The keys and the database change only when a batch is stored, the store is
\* cleared or the process starts again.
LEMMA OnlyStores ==
    ASSUME [StoreNext]_storeVars
    PROVE  \/ StoreResults
           \/ StoreRestart
           \/ UNCHANGED keys /\ db' \subseteq db /\ (ticker = "store" /\ ticker' = "check" => UNCHANGED db)
  BY DEF StoreNext, storeVars, AddResult, Clear, SetMaxRecords, Stop,
         StopClose, StopSignal, StopReturn, Ticker, CheckQueue,
         Wait, Woken, TimerDone, TakeQueue, StoreResultsError,
         At, Signalled

\* The elements of a concatenation.
LEMMA RangeConcat ==
    ASSUME NEW S, NEW s \in Seq(S), NEW t \in Seq(S)
    PROVE  Range(s \o t) = Range(s) \cup Range(t)
<1>1. /\ DOMAIN (s \o t) = 1 .. Len(s) + Len(t)
      /\ \A i \in 1 .. Len(s) : (s \o t)[i] = s[i]
      /\ \A i \in Len(s) + 1 .. Len(s) + Len(t) : (s \o t)[i] = t[i - Len(s)]
  OBVIOUS
<1>2. \A i \in 1 .. Len(s) : s[i] \in Range(s \o t)
  BY <1>1 DEF Range
<1>3. \A i \in 1 .. Len(t) : t[i] \in Range(s \o t)
  <2> SUFFICES ASSUME NEW i \in 1 .. Len(t)
               PROVE  t[i] \in Range(s \o t)
    OBVIOUS
  <2>1. (s \o t)[Len(s) + i] = t[i] /\ Len(s) + i \in DOMAIN (s \o t)
    BY <1>1
  <2> QED
    BY <2>1 DEF Range
<1>4. ASSUME NEW x \in Range(s \o t)
      PROVE  x \in Range(s) \cup Range(t)
  <2>1. PICK i \in 1 .. Len(s) + Len(t) : x = (s \o t)[i]
    BY <1>1, <1>4 DEF Range
  <2>2. CASE i <= Len(s)
    BY <1>1, <2>1, <2>2 DEF Range
  <2>3. CASE i > Len(s)
    <3>1. i - Len(s) \in DOMAIN t /\ x = t[i - Len(s)]
      BY <1>1, <2>1, <2>3
    <3> QED
      BY <3>1 DEF Range
  <2> QED
    BY <2>1, <2>2, <2>3
<1>5. /\ \A x \in Range(s) : \E i \in 1 .. Len(s) : x = s[i]
      /\ \A x \in Range(t) : \E i \in 1 .. Len(t) : x = t[i]
  BY DEF Range
<1>6. Range(s) \cup Range(t) \subseteq Range(s \o t)
  BY <1>2, <1>3, <1>5
<1> QED
  BY <1>4, <1>6

\* The elements of a part.
LEMMA RangeSubSeq ==
    ASSUME NEW S, NEW s \in Seq(S), NEW m \in 1 .. Len(s) + 1, NEW n \in 0 .. Len(s)
    PROVE  Range(SubSeq(s, m, n)) = {s[i] : i \in m .. n}
<1> DEFINE t == SubSeq(s, m, n)
<1>1. DOMAIN t = 1 .. n - m + 1 /\ \A i \in 1 .. n - m + 1 : t[i] = s[m + i - 1]
  OBVIOUS
<1> HIDE DEF t
<1>2. \A i \in m .. n : i - m + 1 \in DOMAIN t /\ t[i - m + 1] = s[i]
  BY <1>1
<1>3. \A i \in DOMAIN t : m + i - 1 \in m .. n /\ t[i] = s[m + i - 1]
  BY <1>1
<1>4. \A x \in Range(t) : x \in {s[i] : i \in m .. n}
  BY <1>3 DEF Range
<1>5. \A i \in m .. n : s[i] \in Range(t)
  BY <1>2 DEF Range
<1> QED
  BY <1>4, <1>5 DEF t

\* What is not pruned, and what is stored of the list, is among the keys.
LEMMA StoreKeepsTrack ==
    ASSUME StoreTypeOK, StoreResults
    PROVE  /\ db \subseteq Range(keys) => db' \subseteq Range(keys')
           /\ keysMap \subseteq Range(keys) => keysMap' \subseteq Range(keys')
<1>1. PICK o \in 0 .. Len(keys), n \in 0 .. Len(Dedup(batch).list) :
         LET l == Dedup(batch).list
         IN  /\ keys' = SubSeq(keys, o + 1, Len(keys)) \o SubSeq(l, n + 1, Len(l))
             /\ db' = (db \cup Range(SubSeq(l, n + 1, Len(l))))
                         \ Range(SubSeq(keys, 1, o))
             /\ keysMap' = keysMap \ Range(SubSeq(keys, 1, o))
  BY StoreStep
<1> DEFINE l == SubSeq(Dedup(batch).list, n + 1, Len(Dedup(batch).list))
           r == SubSeq(keys, o + 1, Len(keys))
<1>2. keys \in Seq(ResultKeys) /\ Dedup(batch).list \in Seq(ResultKeys)
  BY DedupType DEF StoreTypeOK
<1>3. l \in Seq(ResultKeys) /\ r \in Seq(ResultKeys)
  BY <1>2
<1>4. \A i \in 1 .. Len(keys) : i <= o => keys[i] \in Range(SubSeq(keys, 1, o))
  <2> SUFFICES ASSUME NEW i \in 1 .. Len(keys), i <= o
               PROVE  keys[i] \in Range(SubSeq(keys, 1, o))
    OBVIOUS
  <2>1. i \in DOMAIN SubSeq(keys, 1, o) /\ SubSeq(keys, 1, o)[i] = keys[i]
    BY <1>2
  <2> QED
    BY <2>1 DEF Range
<1>5. \A i \in 1 .. Len(keys) : i > o => keys[i] \in Range(r)
  <2> SUFFICES ASSUME NEW i \in 1 .. Len(keys), i > o
               PROVE  keys[i] \in Range(r)
    OBVIOUS
  <2>1. i - o \in DOMAIN r /\ r[i - o] = keys[i]
    BY <1>2
  <2> QED
    BY <2>1 DEF Range
<1> HIDE DEF l, r
<1>6. Range(r \o l) = Range(r) \cup Range(l)
  BY <1>3, RangeConcat
<1>7. ASSUME NEW x \in Range(keys), x \notin Range(SubSeq(keys, 1, o))
      PROVE  x \in Range(r)
  <2>1. PICK i \in 1 .. Len(keys) : x = keys[i]
    BY <1>2 DEF Range
  <2> QED
    BY <1>2, <1>4, <1>5, <1>7, <2>1
<1> QED
  BY <1>1, <1>6, <1>7 DEF l, r

\* The types of the store, step by step.
LEMMA StoreTypeNext ==
    ASSUME StoreTypeOK, [StoreNext]_storeVars
    PROVE  StoreTypeOK'
<1> USE DEF StoreTypeOK
<1>1. ASSUME NEW r \in ResultKeys, AddResult(r)
      PROVE  StoreTypeOK'
  BY <1>1 DEF AddResult, Signalled
<1>2. CASE Clear
  BY <1>2 DEF Clear
<1>3. ASSUME NEW n \in MaxRecords, SetMaxRecords(n)
      PROVE  StoreTypeOK'
  BY <1>3 DEF SetMaxRecords
<1>4. ASSUME NEW s \in Stoppers, Stop(s)
      PROVE  StoreTypeOK'
  BY <1>4 DEF Stop, StopClose, StopSignal, StopReturn,
              Signalled
<1>5. CASE CheckQueue \/ Wait \/ Woken \/ TimerDone
  BY <1>5 DEF CheckQueue, Wait, Woken, TimerDone, At
<1>6. CASE TakeQueue
  BY <1>6 DEF TakeQueue, At
<1>7. CASE StoreResults
  <2>1. PICK o \in 0 .. Len(keys), n \in 0 .. Len(Dedup(batch).list) :
           LET l == Dedup(batch).list
           IN  /\ keys' = SubSeq(keys, o + 1, Len(keys)) \o SubSeq(l, n + 1, Len(l))
               /\ db' = (db \cup Range(SubSeq(l, n + 1, Len(l))))
                           \ Range(SubSeq(keys, 1, o))
               /\ keysMap' = keysMap \ Range(SubSeq(keys, 1, o))
               /\ batch' = <<>> /\ ticker' = "check"
               /\ UNCHANGED <<queue, maxRecords, done, stopper, reported, cleared>>
    BY <1>7, StoreStep
  <2> DEFINE l == Dedup(batch).list
  <2>2. l \in Seq(ResultKeys) /\ keys \in Seq(ResultKeys)
    BY DedupType
  <2> HIDE DEF l
  <2>3. /\ SubSeq(l, n + 1, Len(l)) \in Seq(ResultKeys)
        /\ SubSeq(keys, o + 1, Len(keys)) \in Seq(ResultKeys)
    BY <2>2 DEF l
  <2>4. keys' \in Seq(ResultKeys)
    BY <2>1, <2>3 DEF l
  <2>5. Range(SubSeq(l, n + 1, Len(l))) \subseteq ResultKeys
    BY <2>3 DEF Range
  <2>6. db' \subseteq ResultKeys
    BY <2>1, <2>5 DEF l
  <2> QED
    BY <2>1, <2>4, <2>6
<1>8. CASE StoreResultsError
  BY <1>8 DEF StoreResultsError, At
<1>9. CASE StoreRestart
  <2>1. db \in SUBSET Nat /\ IsFiniteSet(db)
    BY StoredFinite
  <2>2. Chronological(db) \in Seq(db)
    BY <2>1, ChronologicalLists
  <2>3. Chronological(db) \in Seq(ResultKeys)
    BY <2>2, SeqMonotonic
  <2>4. InitialMax \in MaxRecords
    BY StoreParameters
  <2>5. /\ keys' \in Seq(ResultKeys)
        /\ keysMap' = db /\ UNCHANGED <<db, reported, cleared>>
        /\ maxRecords' \in MaxRecords
        /\ queue' = <<>> /\ batch' = <<>>
        /\ ticker' = "check" /\ done' = FALSE
        /\ stopper' \in [Stoppers -> {"idle", "signal", "wait", "stopped"}]
    BY <1>9, <2>3, <2>4 DEF StoreRestart
  <2>6. maxRecords' \in MaxRecords /\ db' \subseteq ResultKeys /\ keysMap' \subseteq ResultKeys
    BY <2>5
  <2>7. queue' \in Seq(ResultKeys) /\ batch' \in Seq(ResultKeys)
    BY <2>5, EmptySeq
  <2>8. ~ (ticker' = "store") /\ ~ (batch' # <<>>) /\ ticker' = "check" /\ done' \in BOOLEAN
    BY <2>5
  <2>9. reported' \subseteq ResultKeys /\ cleared' \subseteq ResultKeys
    BY <2>5
  <2> QED
    BY <2>5, <2>6, <2>7, <2>8, <2>9
<1>10. CASE UNCHANGED storeVars
  BY <1>10 DEF storeVars
<1> HIDE DEF StoreTypeOK
<1> QED
  BY <1>1, <1>2, <1>3, <1>4, <1>5, <1>6, <1>7, <1>8, <1>9, <1>10
  DEF StoreNext, Ticker

-----------------------------------------------------------------------------
(* Types of the store, and the records it knows of.                        *)

\* The store is well typed.
THEOREM StoreTyping == StoreSpec => []StoreTypeOK
<1>1. StoreInit => StoreTypeOK
  BY EmptySeq, StoreParameters DEF StoreInit, StoreTypeOK
<1>2. StoreTypeOK /\ [StoreNext]_storeVars
        => StoreTypeOK'
  BY StoreTypeNext
<1> QED
  BY <1>1, <1>2, PTL DEF StoreSpec

\* Every record on disk stays known in memory.
THEOREM StoreTracks == StoreSpec => []RecordsTracked
<1>1. StoreInit => RecordsTracked
  BY DEF StoreInit, RecordsTracked
<1>2. ASSUME StoreTypeOK, RecordsTracked, [StoreNext]_storeVars
      PROVE  RecordsTracked'
  <2>1. CASE StoreResults
    BY <1>2, <2>1, StoreKeepsTrack DEF RecordsTracked
  <2>2. CASE StoreRestart
    <3>1. db \in SUBSET Nat /\ IsFiniteSet(db)
      BY <1>2, StoredFinite
    <3> QED
      BY <2>2, <3>1, ChronologicalLists DEF StoreRestart, RecordsTracked
  <2>3. CASE UNCHANGED keys /\ db' \subseteq db
    BY <1>2, <2>3 DEF RecordsTracked
  <2> QED
    BY <1>2, <2>1, <2>2, <2>3, OnlyStores DEF RecordsTracked
<1> QED
  BY <1>1, <1>2, StoreTyping, PTL DEF StoreSpec

-----------------------------------------------------------------------------
(* Results that come once: the limit, and the order of storage.            *)

\* When no result is added twice, a result is in one place only, and what is
\* in the database or in keysMap is among the keys.
Once ==
    /\ db \subseteq Range(keys) /\ keysMap \subseteq Range(keys)
    /\ IsInjective(keys) /\ IsInjective(batch) /\ IsInjective(queue)
    /\ Range(keys) \cap Range(batch) = {}
    /\ Range(keys) \cap Range(queue) = {}
    /\ Range(batch) \cap Range(queue) = {}
    /\ Range(keys) \cup Range(batch) \cup Range(queue) \subseteq reported

\* Then there is nothing to remove from a batch.
LEMMA NothingRepeated ==
    ASSUME StoreTypeOK, Once
    PROVE  Dedup(batch) = [list |-> batch, count |-> Len(batch)]
<1>1. batch \in Seq(ResultKeys)
  BY DEF StoreTypeOK
<1>2. ASSUME NEW i \in Repeated(batch) PROVE FALSE
  <2>1. i \in 1 .. Len(batch)
    BY <1>1, <1>2 DEF Repeated
  <2>2. batch[i] \in Range(batch)
    BY <1>1, <2>1 DEF Range
  <2>3. batch[i] \notin keysMap
    BY <2>2 DEF Once
  <2>4. PICK j \in 1 .. i - 1 : batch[j] = batch[i]
    BY <1>2, <2>3 DEF Repeated
  <2>5. j \in DOMAIN batch /\ i \in DOMAIN batch /\ i # j
    BY <1>1, <2>1
  <2> QED
    BY <2>4, <2>5 DEF Once, IsInjective
<1>3. Repeated(batch) = {}
  BY <1>2
<1> QED
  BY <1>3 DEF Dedup

\* What StoreStep is then.
LEMMA StoreOnceStep ==
    ASSUME StoreTypeOK, Once, StoreResults
    PROVE  \E o \in 0 .. Len(keys), n \in 0 .. Len(batch) :
              LET list == SubSeq(batch, n + 1, Len(batch))
              IN  /\ keys' = SubSeq(keys, o + 1, Len(keys)) \o list
                  /\ db' = (db \cup Range(list)) \ Range(SubSeq(keys, 1, o))
                  /\ keysMap' = keysMap \ Range(SubSeq(keys, 1, o))
                  /\ batch' = <<>> /\ UNCHANGED <<queue, reported>>
                  /\ n > 0 => o = Len(keys)
                  /\ maxRecords > 0 => Len(keys') <= maxRecords
<1> DEFINE d == Dedup(batch)
<1>1. d.list = batch /\ d.count = Len(d.list)
  BY NothingRepeated
<1>2. PICK o \in 0 .. Len(keys), n \in 0 .. Len(d.list) :
         LET list == SubSeq(d.list, n + 1, Len(d.list))
         IN  /\ keys' = SubSeq(keys, o + 1, Len(keys)) \o list
             /\ db' = (db \cup Range(list)) \ Range(SubSeq(keys, 1, o))
             /\ keysMap' = keysMap \ Range(SubSeq(keys, 1, o))
             /\ batch' = <<>> /\ UNCHANGED <<queue, reported>>
             /\ n > 0 => o = Len(keys)
             /\ maxRecords > 0 /\ d.count = Len(d.list) => Len(keys') <= maxRecords
  BY StoreStep
<1> HIDE DEF d
<1> QED
  BY <1>1, <1>2

\* Sequences without common elements have none, and their
\* concatenation has no element twice.
LEMMA InjectiveConcat ==
    ASSUME NEW S, NEW s \in Seq(S), NEW t \in Seq(S),
           IsInjective(s), IsInjective(t),
           Range(s) \cap Range(t) = {}
    PROVE  IsInjective(s \o t)
<1>1. /\ DOMAIN (s \o t) = 1 .. Len(s) + Len(t)
      /\ \A i \in 1 .. Len(s) : (s \o t)[i] = s[i]
      /\ \A i \in Len(s) + 1 .. Len(s) + Len(t) : (s \o t)[i] = t[i - Len(s)]
  OBVIOUS
<1>2. \A i \in 1 .. Len(s), j \in 1 .. Len(t) : s[i] # t[j]
  BY DEF Range
<1>3. SUFFICES ASSUME NEW i \in DOMAIN (s \o t), NEW j \in DOMAIN (s \o t),
                      (s \o t)[i] = (s \o t)[j]
               PROVE  i = j
  BY DEF IsInjective
<1>4. CASE i <= Len(s) /\ j <= Len(s)
  BY <1>1, <1>3, <1>4 DEF IsInjective
<1>5. CASE i > Len(s) /\ j > Len(s)
  <2>1. /\ i - Len(s) \in DOMAIN t /\ j - Len(s) \in DOMAIN t
        /\ t[i - Len(s)] = t[j - Len(s)]
    BY <1>1, <1>3, <1>5
  <2>2. i - Len(s) = j - Len(s)
    BY <2>1 DEF IsInjective
  <2> QED
    BY <1>1, <2>2
<1>6. CASE i <= Len(s) /\ j > Len(s)
  <2>1. i \in 1 .. Len(s) /\ j - Len(s) \in 1 .. Len(t) /\ s[i] = t[j - Len(s)]
    BY <1>1, <1>3, <1>6
  <2> QED
    BY <1>2, <2>1
<1>7. CASE i > Len(s) /\ j <= Len(s)
  <2>1. j \in 1 .. Len(s) /\ i - Len(s) \in 1 .. Len(t) /\ s[j] = t[i - Len(s)]
    BY <1>1, <1>3, <1>7
  <2> QED
    BY <1>2, <2>1
<1> QED
  BY <1>1, <1>4, <1>5, <1>6, <1>7

\* Nor has what follows the first elements.
LEMMA InjectiveTail ==
    ASSUME NEW S, NEW s \in Seq(S), IsInjective(s), NEW n \in 0 .. Len(s)
    PROVE  LET t == SubSeq(s, n + 1, Len(s))
           IN  t \in Seq(S) /\ IsInjective(t) /\ Range(t) \subseteq Range(s)
<1> DEFINE t == SubSeq(s, n + 1, Len(s))
<1>1. t \in Seq(S) /\ DOMAIN t = 1 .. Len(s) - n /\ \A i \in 1 .. Len(s) - n : t[i] = s[n + i]
  OBVIOUS
<1> HIDE DEF t
<1>2. \A i \in 1 .. Len(s) - n : n + i \in DOMAIN s
  OBVIOUS
<1>3. ASSUME NEW i \in DOMAIN t, NEW j \in DOMAIN t, t[i] = t[j]
      PROVE  i = j
  <2>1. n + i \in DOMAIN s /\ n + j \in DOMAIN s /\ s[n + i] = s[n + j]
    BY <1>1, <1>2, <1>3
  <2>2. n + i = n + j
    BY <2>1 DEF IsInjective
  <2> QED
    BY <1>1, <2>2
<1>4. Range(t) \subseteq Range(s)
  BY <1>1, <1>2 DEF Range
<1> QED
  BY <1>1, <1>3, <1>4 DEF IsInjective, t

\* No step puts a result in a second place.
LEMMA OnceStep ==
    ASSUME AddTwice = FALSE, StoreTypeOK, Once,
           [StoreNext]_storeVars
    PROVE  Once'
<1>1. /\ keys \in Seq(ResultKeys) /\ batch \in Seq(ResultKeys)
      /\ queue \in Seq(ResultKeys)
  BY DEF StoreTypeOK
<1>2. Range(<<>>) = {} /\ IsInjective(<<>>)
  BY DEF Range, IsInjective
<1>3. ASSUME NEW r \in ResultKeys, AddResult(r)
      PROVE  Once'
  <2>1. queue' = queue \o <<r>> /\ r \notin reported /\ reported' = reported \cup {r}
    BY <1>1, <1>3 DEF AddResult
  <2>2. /\ <<r>> \in Seq(ResultKeys) /\ Range(<<r>>) = {r}
        /\ IsInjective(<<r>>)
    BY DEF Range, IsInjective
  <2>3. Range(queue') = Range(queue) \cup {r}
    <3> DEFINE t == <<r>>
    <3>1. t \in Seq(ResultKeys) /\ queue \in Seq(ResultKeys)
      BY <1>1, <2>2
    <3> HIDE DEF t
    <3>2. Range(queue \o t) = Range(queue) \cup Range(t)
      BY <3>1, RangeConcat
    <3> QED
      BY <2>1, <2>2, <3>2 DEF t
  <2>4. IsInjective(queue')
    BY <1>1, <2>1, <2>2, InjectiveConcat DEF Once
  <2> QED
    BY <1>3, <2>1, <2>3, <2>4 DEF Once, AddResult
<1>4. CASE Clear
  BY <1>2, <1>4 DEF Clear, Once
<1>5. CASE TakeQueue
  <2>1. batch' = queue /\ queue' = <<>> /\ UNCHANGED <<db, keys, keysMap, reported>>
    BY <1>5 DEF TakeQueue, At
  <2>2. /\ Range(batch') = Range(queue) /\ Range(queue') = {}
        /\ IsInjective(batch') = IsInjective(queue)
        /\ IsInjective(queue')
    BY <1>2, <2>1
  <2> QED
    BY <2>1, <2>2 DEF Once
<1>6. CASE StoreResults
  <2>1. PICK o \in 0 .. Len(keys), n \in 0 .. Len(batch) :
           /\ keys' = SubSeq(keys, o + 1, Len(keys)) \o SubSeq(batch, n + 1, Len(batch))
           /\ keysMap' = keysMap \ Range(SubSeq(keys, 1, o))
           /\ batch' = <<>> /\ UNCHANGED <<queue, reported>>
    BY <1>6, StoreOnceStep
  <2>2. db' \subseteq Range(keys') /\ keysMap' \subseteq Range(keys')
    BY <1>6, StoreKeepsTrack DEF Once
  <2> DEFINE k == SubSeq(keys, o + 1, Len(keys))
             b == SubSeq(batch, n + 1, Len(batch))
  <2>3. /\ k \in Seq(ResultKeys) /\ IsInjective(k)
        /\ Range(k) \subseteq Range(keys)
    BY <1>1, InjectiveTail DEF Once
  <2>4. /\ b \in Seq(ResultKeys) /\ IsInjective(b)
        /\ Range(b) \subseteq Range(batch)
    BY <1>1, InjectiveTail DEF Once
  <2> HIDE DEF k, b
  <2>5. Range(k \o b) = Range(k) \cup Range(b)
    BY <2>3, <2>4, RangeConcat
  <2>6. IsInjective(k \o b)
    BY <2>3, <2>4, InjectiveConcat DEF Once
  <2>7. keys' = k \o b
    BY <2>1 DEF k, b
  <2> QED
    BY <1>2, <2>1, <2>2, <2>3, <2>4, <2>5, <2>6, <2>7 DEF Once
<1>7. CASE StoreRestart
  <2>1. /\ Range(Chronological(db)) = db
        /\ IsInjective(Chronological(db))
    BY StoredFinite, ChronologicalLists
  <2> QED
    BY <1>2, <1>7, <2>1 DEF StoreRestart, Once
<1>8. CASE StoreResultsError
  BY <1>2, <1>8 DEF StoreResultsError, At, Once
<1>9. CASE UNCHANGED <<db, queue, keys, keysMap, batch, reported>>
  BY <1>9 DEF Once
<1> QED
  BY <1>3, <1>4, <1>5, <1>6, <1>7, <1>8, <1>9
  DEF StoreNext, storeVars, SetMaxRecords, Stop, StopClose, StopSignal,
      StopReturn, Ticker, CheckQueue, Wait, Woken,
      TimerDone, At

LEMMA OnceInvariant ==
    ASSUME AddTwice = FALSE
    PROVE  StoreSpec => []Once
<1>1. StoreInit => Once
  BY DEF StoreInit, Once, Range, IsInjective
<1>2. StoreTypeOK /\ Once /\ [StoreNext]_storeVars => Once'
  BY OnceStep
<1> QED
  BY <1>1, <1>2, StoreTyping, PTL DEF StoreSpec

\* A key is not stored twice.
THEOREM StoreKeysOnce ==
    ASSUME AddTwice = FALSE
    PROVE  StoreSpec => []NoKeyTwice
<1>1. Once => NoKeyTwice
  BY DEF Once, NoKeyTwice, IsInjective
<1> QED
  BY <1>1, OnceInvariant, PTL

\* A batch leaves no more records than the limit: no record is in the
\* database without a key, and the keys are pruned to the limit.
THEOREM StoreLimit ==
    ASSUME AddTwice = FALSE
    PROVE  StoreSpec => LimitKept
<1>1. ASSUME StoreTypeOK, Once, StoreTypeOK', Once', [StoreNext]_storeVars,
             Stores, maxRecords > 0
      PROVE  Cardinality(db') <= maxRecords
  <2>1. StoreResults
    <3>1. ticker = "store" /\ ticker' = "check" /\ db' # db
      BY <1>1 DEF Stores
    <3>2. ~ StoreRestart
      BY <3>1 DEF StoreRestart
    <3> QED
      BY <1>1, <3>1, <3>2, OnlyStores
  <2>2. Len(keys') <= maxRecords /\ keys' \in Seq(ResultKeys)
    BY <1>1, <2>1, StoreOnceStep DEF StoreTypeOK
  <2>3. maxRecords \in Nat /\ Len(keys') \in Nat
    BY <1>1, <2>2, StoreParameters DEF StoreTypeOK
  <2>4. Range(keys') = {keys'[i] : i \in 1 .. Len(keys')}
    BY <2>2 DEF Range
  <2> DEFINE R == Range(keys')
  <2>5. keys' \in Surjection(1 .. Len(keys'), R)
    BY <2>2, <2>4 DEF Surjection
  <2>6. ExistsSurjection(1 .. Len(keys'), R)
    BY <2>5 DEF ExistsSurjection
  <2>7. IsFiniteSet(R)
    BY <2>3, <2>6, FS_NatSurjection
  <2>8. Cardinality(R) <= Len(keys') /\ Cardinality(R) \in Nat
    BY <2>3, <2>6, <2>7, FS_SurjCardinalityBound, FS_CardinalityType
  <2>9. db' \in SUBSET R
    BY <1>1 DEF Once
  <2>10. Cardinality(db') <= Cardinality(R) /\ Cardinality(db') \in Nat
    BY <2>7, <2>9, FS_Subset, FS_CardinalityType
  <2>11. Cardinality(db') <= maxRecords
    BY <2>2, <2>3, <2>8, <2>10
  <2> QED
    BY <2>11
<1> QED
  BY <1>1, StoreTyping, OnceInvariant, PTL DEF StoreSpec, LimitKept

\* A position in the keys, or in the batch, is one in both together.
LEMMA OrderOf ==
    ASSUME StoreTypeOK
    PROVE  LET order == keys \o batch
           IN  /\ DOMAIN order = 1 .. Len(keys) + Len(batch)
               /\ \A i \in 1 .. Len(keys) : i \in DOMAIN order /\ order[i] = keys[i]
               /\ \A i \in 1 .. Len(batch) : /\ Len(keys) + i \in DOMAIN order
                                             /\ order[Len(keys) + i] = batch[i]
  BY DEF StoreTypeOK

\* What goes came before what stays.
THEOREM StoreOldest ==
    ASSUME AddTwice = FALSE
    PROVE  StoreSpec => OldestPruned
<1> DEFINE order == keys \o batch
           Pruned == \A gone \in (db \cup Range(batch)) \ db', kept \in db' :
                        \E i, j \in DOMAIN order :
                            i < j /\ order[i] = gone /\ order[j] = kept
<1>1. ASSUME StoreTypeOK, Once, [StoreNext]_storeVars, Stores
      PROVE  Pruned
  <2>1. StoreResults
    <3>1. ticker = "store" /\ ticker' = "check" /\ db' # db
      BY <1>1 DEF Stores
    <3>2. ~ StoreRestart
      BY <3>1 DEF StoreRestart
    <3> QED
      BY <1>1, <3>1, <3>2, OnlyStores
  <2>2. PICK o \in 0 .. Len(keys), n \in 0 .. Len(batch) :
           /\ db' = (db \cup Range(SubSeq(batch, n + 1, Len(batch))))
                      \ Range(SubSeq(keys, 1, o))
           /\ n > 0 => o = Len(keys)
    BY <1>1, <2>1, StoreOnceStep
  <2> DEFINE k == Len(keys)
             b == Len(batch)
  <2>3. /\ keys \in Seq(ResultKeys) /\ batch \in Seq(ResultKeys)
        /\ k \in Nat /\ b \in Nat
    BY <1>1 DEF StoreTypeOK
  <2>4. Range(SubSeq(keys, 1, o)) = {keys[i] : i \in 1 .. o}
    BY <2>3, RangeSubSeq
  <2>5. Range(SubSeq(batch, n + 1, b)) = {batch[i] : i \in n + 1 .. b}
    <3>1. n + 1 \in 1 .. Len(batch) + 1 /\ Len(batch) \in 0 .. Len(batch)
      BY <2>3
    <3> QED
      BY <2>3, <3>1, RangeSubSeq
  <2>6. SUFFICES ASSUME NEW gone \in (db \cup Range(batch)) \ db', NEW kept \in db'
                 PROVE  \E i, j \in DOMAIN order :
                            i < j /\ order[i] = gone /\ order[j] = kept
    OBVIOUS
  <2>7. /\ \A i \in 1 .. k : i \in DOMAIN order /\ order[i] = keys[i]
        /\ \A i \in 1 .. b : k + i \in DOMAIN order /\ order[k + i] = batch[i]
    BY <1>1, OrderOf
  <2> HIDE DEF order, k, b
  <2>8. \/ \E i \in 1 .. o : keys[i] = gone
        \/ \E i \in 1 .. n : batch[i] = gone
    <3>1. CASE gone \in Range(SubSeq(keys, 1, o))
      BY <2>4, <3>1
    <3>2. CASE gone \notin Range(SubSeq(keys, 1, o))
      <4>1. gone \in Range(batch) /\ gone \notin {batch[i] : i \in n + 1 .. b}
        BY <2>2, <2>5, <2>6, <3>2 DEF b
      <4>2. PICK i \in 1 .. b : batch[i] = gone
        BY <2>3, <4>1 DEF Range, b
      <4>3. ~ (i \in n + 1 .. b)
        BY <4>1, <4>2
      <4> QED
        BY <2>3, <4>2, <4>3
    <3> QED
      BY <3>1, <3>2
  <2>9. \/ \E j \in o + 1 .. k : keys[j] = kept
        \/ \E j \in n + 1 .. b : batch[j] = kept
    <3>1. CASE kept \in db
      <4>1. PICK j \in 1 .. k : keys[j] = kept
        BY <1>1, <2>3, <3>1 DEF Once, Range, k
      <4>2. ~ (j \in 1 .. o)
        BY <2>2, <2>4, <2>6, <4>1
      <4> QED
        BY <2>3, <4>1, <4>2
    <3>2. CASE kept \notin db
      BY <2>2, <2>5, <2>6, <3>2 DEF b
    <3> QED
      BY <3>1, <3>2
  <2>10. o \in 0 .. k /\ n \in 0 .. b /\ (n > 0 => o = k)
    BY <2>2 DEF k, b
  <2>11. ASSUME NEW i \in 1 .. o, keys[i] = gone, NEW j \in o + 1 .. k, keys[j] = kept
         PROVE  \E x, y \in DOMAIN order : x < y /\ order[x] = gone /\ order[y] = kept
    <3>1. i \in 1 .. k /\ j \in 1 .. k /\ i < j
      BY <2>3, <2>10
    <3> QED
      BY <2>7, <2>11, <3>1
  <2>12. ASSUME NEW i \in 1 .. o, keys[i] = gone, NEW j \in n + 1 .. b, batch[j] = kept
         PROVE  \E x, y \in DOMAIN order : x < y /\ order[x] = gone /\ order[y] = kept
    <3>1. i \in 1 .. k /\ j \in 1 .. b /\ i < k + j
      BY <2>3, <2>10
    <3> QED
      BY <2>7, <2>12, <3>1
  <2>13. ASSUME NEW i \in 1 .. n, batch[i] = gone, NEW j \in n + 1 .. b, batch[j] = kept
         PROVE  \E x, y \in DOMAIN order : x < y /\ order[x] = gone /\ order[y] = kept
    <3>1. i \in 1 .. b /\ j \in 1 .. b /\ k + i < k + j
      BY <2>3, <2>10
    <3> QED
      BY <2>7, <2>13, <3>1
  <2>14. ~ \E i \in 1 .. n, j \in o + 1 .. k : TRUE
    BY <2>3, <2>10
  <2> QED
    BY <2>8, <2>9, <2>11, <2>12, <2>13, <2>14
<1> QED
  BY <1>1, StoreTyping, OnceInvariant, PTL DEF StoreSpec, OldestPruned
=============================================================================
