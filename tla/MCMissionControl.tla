------------------------- MODULE MCMissionControl -------------------------
(* Instances of MissionControl for TLC.                                    *)
EXTENDS MissionControl

CONSTANTS s, a, b, c

Direct  == [nodes |-> <<s, a>>, amts |-> <<1>>, intro |-> 0]
Small   == [nodes |-> <<s, a, b>>, amts |-> <<1, 1>>, intro |-> 0]
Large   == [nodes |-> <<s, a, b>>, amts |-> <<2, 2>>, intro |-> 0]
Long    == [nodes |-> <<s, a, b, c>>, amts |-> <<2, 1, 1>>, intro |-> 0]
Blinded == [nodes |-> <<s, a, b, c>>, amts |-> <<2, 0, 0>>, intro |-> 1]
Late    == [nodes |-> <<s, a, b>>, amts |-> <<2, 2>>, intro |-> 2]

AllMessages == Failures

AllRoutes == {Direct, Small, Long, Blinded, Late}
OneRoute  == {Small}
TwoRoutes == {Small, Large}

Data(ft, fa, st, sa) ==
    [failTime |-> ft, failAmt |-> fa, successTime |-> st, successAmt |-> sa]

\* Failures, amount-independent ones and successes, old and new.
SomeData == {Data(2, 2, 1, 1), Data(2, 0, 1, 2), Data(0, 0, 1, 1), Data(0, 0, 2, 2)}
SomeSnapshots == {[p \in {<<s, a>>} |-> d] : d \in SomeData}

\* With one that is refused.
MoreSnapshots == SomeSnapshots \cup {[p \in {<<s, a>>} |-> Data(1, 0, 0, 0)]}
=============================================================================
