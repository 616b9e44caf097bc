-------------------------- MODULE MissionControl --------------------------
(***************************************************************************)
(* Mission control, routing/missioncontrol.go and missioncontrol_state.go: *)
(* what is remembered of the pairs of nodes that payment attempts used.    *)
(* Payment lifecycles report outcomes concurrently (processPaymentResult): *)
(* the time is taken, the result put in the queue of the store, and only   *)
(* then the state locked and updated.  The store is seen here as the       *)
(* sequence of results given to it, of which a restart finds a part        *)
(* (MissionControlStore says which); they are then applied again, in the   *)
(* order of their times.                                                   *)
(*                                                                         *)
(* Time is a number that grows with every report, 0 the zero time.         *)
(***************************************************************************)
EXTENDS ResultInterpretation, FiniteSets, SequencesExt

CONSTANTS
    Routes,                   \* routes of the reported attempts
    Messages,                 \* failures they may end with
    Reporters,                \* goroutines that report outcomes
    MinSecondChanceInterval,  \* minSecondChanceInterval
    RelaxIntervals,           \* values of MinFailureRelaxInterval
    Snapshots,                \* histories to import: pairs to PairData
    ResetAllowed,             \* the model includes ResetHistory
    RestartAllowed,           \* the model includes restarts
    MaxTime                   \* bound of the model: the last time

ASSUME MissionControlAssumption ==
    /\ \A rt \in Routes : IsRoute(rt)
    /\ Messages \subseteq Failures
    /\ MinSecondChanceInterval \in Nat
    /\ RelaxIntervals \subseteq Nat /\ RelaxIntervals # {}
    /\ ResetAllowed \in BOOLEAN /\ RestartAllowed \in BOOLEAN
    /\ MaxTime \in Nat

Times == 0 .. MaxTime

TimedPairResult == [failTime : Nat, failAmt : Nat, successTime : Nat, successAmt : Nat]
NoResult == [failTime |-> 0, failAmt |-> 0, successTime |-> 0, successAmt |-> 0]

\* What the RPC accepts as data of a pair: a success has time and amount.
IsPairData(d) ==
    /\ d \in TimedPairResult
    /\ d.successTime = 0 <=> d.successAmt = 0

\* Every snapshot is a function from some pairs to data the RPC may be given.
ASSUME SnapshotsAssumption ==
    \A snapshot \in Snapshots :
        DOMAIN snapshot \subseteq Pairs /\ \A p \in DOMAIN snapshot : IsPairData(snapshot[p])

Results ==
    {r \in [time : Nat, route : Routes,
            outcome : [success : BOOLEAN, source : Int, failure : Failures]] :
        r.outcome \in Outcomes(r.route)}
None == [time |-> 0]

VARIABLES
    state,     \* missionControlState: pairs is lastPairResult, known its
               \* domain, chances is lastSecondChance (0 for none), relax is
               \* minFailureRelaxInterval
    results,   \* the results given to the store, in that order
    replay,    \* results that init has still to apply
    reporter,  \* where each reporting goroutine is, and its result
    now,       \* of the model: the clock
    orphans,   \* of the model: results that ResetHistory took out of the store
               \* before they were applied
    refused    \* of the model: the last step was an import that was refused

vars == <<state, results, replay, reporter, now, orphans, refused>>

States == [pairs   : [Pairs -> TimedPairResult],
           known   : SUBSET Pairs,
           chances : [Pairs -> Nat],
           relax   : RelaxIntervals]

TypeOK ==
    /\ state \in States
    /\ results \in Seq(Results) /\ replay \subseteq Results
    /\ orphans \subseteq Results
    /\ reporter \in [Reporters -> [pc : {"idle", "timed", "added"},
                                   result : Results \cup {None}]]
    /\ \A r \in Reporters : reporter[r].pc # "idle" => reporter[r].result # None
    /\ now \in Times
    /\ refused \in BOOLEAN

\* newMissionControlState, and resetHistory.
NewState(relax) ==
    [pairs |-> [p \in Pairs |-> NoResult], known |-> {},
     chances |-> [p \in Pairs |-> 0], relax |-> relax]

-----------------------------------------------------------------------------
(* setLastPairResult                                                       *)

Higher(a, b) == IF a > b THEN a ELSE b

\* Faulty: the failure range stays where it is.
SuccessInFailure(current, time, amt, force) ==
    [current EXCEPT !.successTime = time,
                    !.successAmt = IF force THEN amt ELSE Higher(@, amt)]

\* Faulty: the last success amount instead of the highest.
SuccessLast(current, time, amt, force) ==
    [current EXCEPT !.successTime = time,
                    !.successAmt = amt,
                    !.failAmt = IF force \/ (current.failTime # 0 /\ amt >= @)
                                THEN amt + 1 ELSE @]

\* The success range grows and pushes the failure range up.
Success(current, time, amt, force) ==
    [current EXCEPT !.successTime = time,
                    !.successAmt = IF force THEN amt ELSE Higher(@, amt),
                    !.failAmt = IF force \/ (current.failTime # 0 /\ amt >= @)
                                THEN amt + 1 ELSE @]

\* The failure range replaces the last one and pushes the success range down;
\* amount 0 stands for every amount.
Failure(current, time, amt) ==
    [current EXCEPT !.failTime = time,
                    !.failAmt = amt,
                    !.successAmt = IF amt = 0 THEN 0
                                   ELSE IF amt <= @ THEN amt - 1 ELSE @]

\* The zero time is infinitely long ago.
Since(time, relax, last) ==
    IF last = 0 THEN time = 0 /\ relax > 0 ELSE time - last < relax

\* Faulty: a failure of a lower amount is dropped as well.
TooSoonForAny(current, time, amt, relax) ==
    amt # current.failAmt /\ Since(time, relax, current.failTime)

\* A failure of a higher amount soon after the last one is dropped.
TooSoon(current, time, amt, relax) ==
    amt > current.failAmt /\ Since(time, relax, current.failTime)

Dropped(s, p, time, result, force) ==
    ~force /\ ~result.success /\ TooSoon(s.pairs[p], time, result.amt, s.relax)

NewResult(current, time, result, force) ==
    IF result.success THEN Success(current, time, result.amt, force)
    ELSE Failure(current, time, result.amt)

\* setLastPairResult for every pair of a function from pairs to results.
SetLastPairResults(s, time, new, force) ==
    LET set == {p \in DOMAIN new : ~Dropped(s, p, time, new[p], force)}
    IN  [s EXCEPT !.pairs = [p \in Pairs |->
                                IF p \in set THEN NewResult(@[p], time, new[p], force)
                                ELSE @[p]],
                  !.known = @ \cup set]

SetLastPairResult(s, p, time, result, force) ==
    SetLastPairResults(s, time, [q \in {p} |-> result], force)

\* setAllFail: the known pairs to and from the nodes.
SetAllFail(s, nodes, time) ==
    [s EXCEPT !.pairs = [p \in Pairs |->
        IF p \in s.known /\ (p[1] \in nodes \/ p[2] \in nodes)
        THEN [NoResult EXCEPT !.failTime = time] ELSE @[p]]]

\* requestSecondChance
SecondChance(s, p, time) ==
    s.chances[p] = 0 \/ time - s.chances[p] > MinSecondChanceInterval

\* applyPaymentResult.  policy has at most one pair.
ApplyPaymentResult(s, result) ==
    LET i == InterpretResult(result.route, result.outcome)
        granted == {p \in i.policy : SecondChance(s, p, result.time)}
    IN  IF granted # {}
        THEN [s EXCEPT !.chances = [p \in Pairs |->
                                        IF p \in granted THEN result.time ELSE @[p]]]
        ELSE SetLastPairResults(SetAllFail(s, i.node, result.time),
                                result.time, i.pairs, FALSE)

-----------------------------------------------------------------------------
(* importSnapshot                                                          *)

\* The RPC takes a failure without an amount for none.
FailureOf(d) ==
    IF d.failTime # 0 /\ d.failAmt # 0 THEN <<d.failTime, d.failAmt>> ELSE <<0, 0>>

\* Faulty: whatever is imported replaces what is known.
ImportResultAlways(s, p, current, time, result, force) ==
    SetLastPairResult(s, p, time, result, force)

ImportResult(s, p, current, time, result, force) ==
    IF ~force /\ current > time THEN s
    ELSE SetLastPairResult(s, p, time, result, force)

\* Failure first, then success, each against the times found before.
ImportPair(s, p, d, force) ==
    LET failed == ImportResult(s, p, s.pairs[p].failTime, FailureOf(d)[1],
                               FailPairResult(FailureOf(d)[2]), force)
    IN  ImportResult(failed, p, s.pairs[p].successTime, d.successTime,
                     SuccessPairResult(d.successAmt), force)

ImportSnapshot(s, snapshot, force) ==
    [s EXCEPT
        !.pairs = [p \in Pairs |->
            IF p \in DOMAIN snapshot
            THEN ImportPair(s, p, snapshot[p], force).pairs[p] ELSE @[p]],
        !.known = @ \cup {p \in DOMAIN snapshot :
                            p \in ImportPair(s, p, snapshot[p], force).known}]

\* XImportMissionControl refuses a pair without any amount.
Importable(snapshot) ==
    /\ DOMAIN snapshot # {}
    /\ \A p \in DOMAIN snapshot :
            FailureOf(snapshot[p])[2] # 0 \/ snapshot[p].successAmt # 0

-----------------------------------------------------------------------------

Init ==
    /\ \E relax \in RelaxIntervals : state = NewState(relax)
    /\ results = <<>> /\ replay = {}
    /\ reporter = [r \in Reporters |-> [pc |-> "idle", result |-> None]]
    /\ now = 0
    /\ orphans = {}
    /\ refused = FALSE

\* Mission control is in use once init is done.
Ready == replay = {}

\* ReportPaymentSuccess and ReportPaymentFail take the time.
Report(r, rt, outcome) ==
    /\ Ready
    /\ reporter[r].pc = "idle"
    /\ \E time \in now + 1 .. MaxTime :
          /\ now' = time
          /\ reporter' = [reporter EXCEPT ![r] =
                [pc |-> "timed",
                 result |-> [time |-> time, route |-> rt, outcome |-> outcome]]]
    /\ refused' = FALSE
    /\ UNCHANGED <<state, results, replay, orphans>>

QueueResult(r) ==
    /\ Ready
    /\ reporter[r].pc = "timed"
    /\ results' = Append(results, reporter[r].result)
    /\ reporter' = [reporter EXCEPT ![r].pc = "added"]
    /\ refused' = FALSE
    /\ UNCHANGED <<state, replay, now, orphans>>

\* Faulty: the time at which the result is applied.
ApplyNow(r) ==
    /\ Ready
    /\ reporter[r].pc = "added"
    /\ reporter' = [reporter EXCEPT ![r] = [pc |-> "idle", result |-> None]]
    /\ state' = ApplyPaymentResult(state, [reporter[r].result EXCEPT !.time = now])
    /\ refused' = FALSE
    /\ UNCHANGED <<results, replay, now, orphans>>

\* Under the lock of mission control, as the actions below.
Apply(r) ==
    /\ Ready
    /\ reporter[r].pc = "added"
    /\ reporter' = [reporter EXCEPT ![r] = [pc |-> "idle", result |-> None]]
    /\ state' = ApplyPaymentResult(state, reporter[r].result)
    /\ refused' = FALSE
    /\ UNCHANGED <<results, replay, now, orphans>>

SetConfig(relax) ==
    /\ Ready
    /\ state' = [state EXCEPT !.relax = relax]
    /\ refused' = FALSE
    /\ UNCHANGED <<results, replay, reporter, now, orphans>>

ResetHistory ==
    /\ ResetAllowed /\ Ready
    /\ results' = <<>>
    /\ state' = NewState(state.relax)
    /\ orphans' = orphans \cup
                    {reporter[r].result : r \in {q \in Reporters : reporter[q].pc = "added"}}
    /\ refused' = FALSE
    /\ UNCHANGED <<replay, reporter, now>>

ImportHistory(snapshot, force) ==
    /\ Ready
    /\ UNCHANGED <<results, replay, reporter, now, orphans>>
    /\ refused' = ~Importable(snapshot)
    /\ state' = IF refused' THEN state ELSE ImportSnapshot(state, snapshot, force)

\* NewMissionControl with what the store kept: it may have pruned the oldest
\* results and not yet written the latest.
Restart(relax) ==
    /\ RestartAllowed
    /\ \E first \in 1 .. Len(results) + 1, last \in 0 .. Len(results) :
          /\ results' = SubSeq(results, first, last)
          /\ replay' = ToSet(results')
    /\ state' = NewState(relax)
    /\ reporter' = [r \in Reporters |-> [pc |-> "idle", result |-> None]]
    /\ orphans' = {}
    /\ refused' = FALSE
    /\ UNCHANGED now

\* One step of the loop of init, in the order of the keys.
Replay ==
    /\ \E result \in replay :
          /\ \A other \in replay : result.time <= other.time
          /\ state' = ApplyPaymentResult(state, result)
          /\ replay' = replay \ {result}
    /\ refused' = FALSE
    /\ UNCHANGED <<results, reporter, now, orphans>>

Next == \/ \E r \in Reporters :
              \/ \E rt \in Routes : \E outcome \in Outcomes(rt) :
                    outcome.failure \in Messages /\ Report(r, rt, outcome)
              \/ QueueResult(r)
              \/ Apply(r)
        \/ \E relax \in RelaxIntervals : SetConfig(relax) \/ Restart(relax)
        \/ ResetHistory
        \/ \E snapshot \in Snapshots, force \in BOOLEAN :
              ImportHistory(snapshot, force)
        \/ Replay

Spec == Init /\ [][Next]_vars

-----------------------------------------------------------------------------

\* The success range of a pair and its failure range never overlap, unless
\* both amounts are 0: whatever was reported or imported, in whatever order,
\* the probability estimators get a consistent pair.
RangesConsistent ==
    \A p \in Pairs :
        LET r == state.pairs[p]
        IN  r.failTime # 0 => \/ r.successAmt < r.failAmt
                              \/ r.successAmt = 0 /\ r.failAmt = 0

\* Attempts that leave nothing to blame: we failed ourselves and the links
\* know, or the receiver let the shards expire.
Blameless(result) ==
    \/ result.outcome.success
    \/ result.outcome.source = 0 /\ result.outcome.failure # "InvalidOnion"
    \/ result.outcome.failure = "MPPTimeout"
            /\ result.outcome.source = Hops(result.route)
            /\ (result.route.intro = 0 \/ result.route.intro = Hops(result.route))

\* Some channel of the route counts as failed for its amount, since less than
\* the relax interval or since this very result.
Penalised(s, result) ==
    LET rt == result.route
    IN  \E i \in 0 .. Hops(rt) - 1 :
          LET current == s.pairs[Channel(rt, i)]
          IN  /\ current.failTime # 0
              /\ current.failAmt <= Amt(rt, i)
              /\ \/ current.failTime = result.time
                 \/ result.time - current.failTime < s.relax

\* A failed attempt that may be retried penalises its route or uses up the
\* second chance of a pair: "this check makes it easier for payment processes
\* to converge to a final state".
FailurePenalised ==
    [][\A r \in Reporters :
          LET result == reporter[r].result
          IN  Apply(r) /\ ~Blameless(result)
                /\ InterpretResult(result.route, result.outcome).final = "none"
                => state'.chances # state.chances \/ Penalised(state', result)]_vars

\* Reports lower the success amount of a pair only for a failure below it.
SuccessKept ==
    [][\A r \in Reporters : Apply(r) =>
          \A p \in Pairs :
             LET old == state.pairs[p]
                 new == state'.pairs[p]
             IN  new.successAmt < old.successAmt =>
                    /\ new.failAmt <= old.successAmt
                    /\ new.failTime = reporter[r].result.time]_vars

\* An import without force never makes what is known of a pair older:
\* "using all results which are more recent than our existing values".
ImportKeepsFresher ==
    [][\A snapshot \in Snapshots : ImportHistory(snapshot, FALSE) =>
          \A p \in Pairs :
             /\ state'.pairs[p].failTime >= state.pairs[p].failTime
             /\ state'.pairs[p].successTime >= state.pairs[p].successTime]_vars

\* "Only entries that are fresher than our existing state will be used": a
\* success that is older than the known one, without any failure, changes
\* nothing.
StaleImportIgnored ==
    [][\A snapshot \in Snapshots : ImportHistory(snapshot, FALSE) =>
          \A p \in DOMAIN snapshot :
             /\ snapshot[p].failTime = 0
             /\ snapshot[p].successTime < state.pairs[p].successTime
             => state'.pairs[p] = state.pairs[p]]_vars

\* "importmc now accepts 0 failure amounts": a snapshot with a time for every
\* pair is not refused.
ZeroFailureAccepted ==
    [][\A snapshot \in Snapshots, force \in BOOLEAN :
          ImportHistory(snapshot, force)
          /\ (\A p \in DOMAIN snapshot :
                snapshot[p].failTime # 0 \/ snapshot[p].successTime # 0)
          => ~refused']_vars

-----------------------------------------------------------------------------
(* Where the state comes from.                                             *)

\* The results stored since the last reset or start, and those that were being
\* reported when the store was cleared.
Stored == ToSet(results) \cup orphans

\* What a result tells of a pair; a failed node fails its pairs for any amount.
Tells(r, p) ==
    LET i == InterpretResult(r.route, r.outcome)
    IN  {i.pairs[q] : q \in DOMAIN i.pairs \cap {p}}
            \cup {FailPairResult(0) : n \in i.node \cap {p[1], p[2]}}

Said(time, result) == [time |-> time, success |-> result.success, amt |-> result.amt]

SaidIn(r, p) == {Said(r.time, result) : result \in Tells(r, p)}

SaidBy(snapshot, p) ==
    LET d == snapshot[p]
    IN  IF p \notin DOMAIN snapshot THEN {}
        ELSE {Said(FailureOf(d)[1], FailPairResult(FailureOf(d)[2])),
              Said(d.successTime, SuccessPairResult(d.successAmt))}

\* What the node was told of a pair, by the results of a set and by snapshots.
Evidence(S, p) ==
    (UNION {SaidIn(r, p) : r \in S})
        \cup (UNION {SaidBy(snapshot, p) : snapshot \in Snapshots})

\* Each time of a pair is that of a failure or a success told of it, its
\* failure amount is that of a failure or next to that of a success, and no
\* more counts as carried than some success carried.
Backed(d, evidence) ==
    /\ d.failTime # 0 =>
          \E e \in evidence : ~e.success /\ e.time = d.failTime
    /\ d.failAmt # 0 =>
          \E e \in evidence : d.failAmt = IF e.success THEN e.amt + 1 ELSE e.amt
    /\ d.successTime # 0 =>
          \E e \in evidence : e.success /\ e.time = d.successTime
    /\ d.successAmt # 0 =>
          \E e \in evidence : e.success /\ d.successAmt <= e.amt

\* Whatever the order in which concurrent reporters store and apply their
\* results, and whenever the history is reset or the node restarts, all that
\* mission control holds against a pair or for it, and every second chance that
\* is used up, comes from a result that is in the store (or was cleared while
\* it was reported) or from a snapshot, with the time that it carries there.
Grounded ==
    \A p \in Pairs :
        /\ Backed(state.pairs[p], Evidence(Stored, p))
        /\ state.chances[p] # 0 =>
              \E r \in Stored :
                  /\ r.time = state.chances[p]
                  /\ p \in InterpretResult(r.route, r.outcome).policy

\* The results of a set in the order of their times.
ByTime(S) ==
    CHOOSE s \in [1 .. Cardinality(S) -> S] :
        \A i, j \in DOMAIN s : i < j => s[i].time < s[j].time

\* The state of init after the results of a set.
Rederived(relax, S) == FoldLeft(ApplyPaymentResult, NewState(relax), ByTime(S))

\* The store has "the raw payment attempt data from which the internal mission
\* controls state can be rederived on startup": whenever nothing is under way,
\* a restart that lost nothing would lead to the same state.
Rederivable ==
    Ready /\ (\A r \in Reporters : reporter[r].pc = "idle")
    => state = Rederived(state.relax, ToSet(results))
=============================================================================
