----------------------- MODULE InvoiceRegistryProofs -----------------------
(***************************************************************************)
(* Theorems of the invoice registry, for any number of HTLCs and links,    *)
(* any amounts and totals, and any number of blocks, flaps and restarts.   *)
(*                                                                         *)
(*   PreimageSafety   a preimage is only given away for a full payment     *)
(*   AnswersSafety    answers to the peer agree with the invoice           *)
(*   HearsSafety      links that never stop hear of every resolution       *)
(*   HeldSafety       what is held has somebody who will release it        *)
(*                                                                         *)
(* The first two follow from Inv, which says where the goroutines stand    *)
(* with respect to the lock, what the links and their queues may hold, and *)
(* what may be underway or answered for each state of the invoice.  The    *)
(* third adds HearInv: who is subscribed, and what is on whose list; the   *)
(* fourth ReleaseInv: what has a timer, and what the watcher knows.        *)
(***************************************************************************)
EXTENDS InvoiceRegistry, SumTheorems, TLAPS

-----------------------------------------------------------------------------
(* The invoice.                                                            *)

InvoiceType == [state : ContractState, hodl : BOOLEAN,
                htlcs : [Htlc -> HtlcState], amtPaid : Nat]
PayloadType == [Htlc -> [amt : Nat, total : Nat, expiry : Nat]]

\* The HTLCs the invoice knows; those that count.
Known(inv) == {h \in Htlc : inv.htlcs[h] # "None"}
Counted(inv) == HTLCSet(inv, "Accepted") \cup HTLCSet(inv, "Settled")

\* The HTLCs that count pay the invoice, and each payment they are a part of.
PaidUp(inv) ==
    /\ inv.amtPaid = Amount(payload, Counted(inv))
    /\ inv.amtPaid >= Value
    /\ \A h \in Counted(inv) : inv.amtPaid >= payload[h].total

\* An invoice on disk: its HTLCs are in a state that goes with its own.
Good(inv) ==
    /\ inv \in InvoiceType
    /\ IsFiniteSet(Known(inv))
    /\ inv.state \in {"Absent", "Deleted"} => Known(inv) = {}
    /\ inv.state \in {"Open", "Accepted"} => HTLCSet(inv, "Settled") = {}
    /\ inv.state = "Settled" => HTLCSet(inv, "Accepted") = {}
    /\ inv.state = "Canceled" => Counted(inv) = {}
    /\ inv.state \in {"Accepted", "Settled"} => PaidUp(inv)
    /\ inv.state = "Accepted" => inv.hodl /\ HTLCSet(inv, "Accepted") # {}

\* An invoice that is not on disk, and a new one, are good.
LEMMA NewInvoiceGood ==
    /\ \A s \in {"Absent", "Deleted"} : Good(NoInvoice(s)) /\ NoInvoice(s).state = s
    /\ \A hodl \in BOOLEAN : Good(NewInvoice(hodl))
    /\ \A s, hodl : Known(NoInvoice(s)) = {} /\ Known(NewInvoice(hodl)) = {}
  <1>1. ASSUME NEW inv \in InvoiceType, Known(inv) = {},
               inv.state \in {"Absent", "Deleted", "Open"}
        PROVE  Good(inv)
    <2>1. HTLCSet(inv, "Settled") = {}
      BY <1>1 DEF Known, HTLCSet
    <2> QED
      BY <1>1, <2>1, FS_EmptySet DEF Good
  <1>2. ASSUME NEW hodl \in BOOLEAN
        PROVE  /\ NewInvoice(hodl) \in InvoiceType
               /\ NewInvoice(hodl).state = "Open"
    BY DEF NewInvoice, InvoiceType, ContractState, HtlcState
  <1>3. ASSUME NEW s \in {"Absent", "Deleted"}
        PROVE  /\ NoInvoice(s) \in InvoiceType
               /\ NoInvoice(s).state = s
    <2> DEFINE new == NewInvoice(FALSE)
    <2>1. new \in InvoiceType
      BY <1>2
    <2> HIDE DEF new
    <2>2. [new EXCEPT !.state = s] \in InvoiceType /\ [new EXCEPT !.state = s].state = s
      BY <2>1 DEF InvoiceType, ContractState
    <2> QED
      BY <2>2 DEF NoInvoice, new
  <1>4. ASSUME NEW s, NEW hodl
        PROVE  Known(NoInvoice(s)) = {} /\ Known(NewInvoice(hodl)) = {}
    BY DEF Known, NoInvoice, NewInvoice
  <1> QED
    BY <1>1, <1>2, <1>3, <1>4

\* The amounts are summed up.
LEMMA AmountSum ==
    ASSUME payload \in PayloadType, NEW S \in SUBSET Htlc, IsFiniteSet(S)
    PROVE  /\ Amount(payload, S) \in Nat
           /\ \A h \in S : payload[h].amt <= Amount(payload, S)
           /\ \A h \in Htlc \ S :
                  Amount(payload, S \cup {h}) = Amount(payload, S) + payload[h].amt
  <1> DEFINE amts == [h \in Htlc |-> payload[h].amt]
  <1>1. ASSUME NEW T \in SUBSET Htlc, IsFiniteSet(T)
        PROVE  Amount(payload, T) = Sum(amts, T)
    <2>1. Amount(payload, T) = Sum([h \in T |-> payload[h].amt], T)
      BY <1>1, MapSumAmt DEF Amount
    <2>2. \A h \in T : [k \in T |-> payload[k].amt][h] = amts[h]
      OBVIOUS
    <2> HIDE DEF amts
    <2> QED
      BY <1>1, <2>1, <2>2, SumSame
  <1>2. \A h \in Htlc : amts[h] = payload[h].amt /\ amts[h] \in Nat
    BY DEF PayloadType
  <1> HIDE DEF amts
  <1>3. Sum(amts, S) \in Nat /\ \A h \in S : amts[h] <= Sum(amts, S)
    <2>1. \A h \in S : amts[h] \in Nat
      BY <1>2
    <2> QED
      BY <2>1, SumElement, SumMonotone
  <1>4. ASSUME NEW h \in Htlc \ S
        PROVE  Amount(payload, S \cup {h}) = Amount(payload, S) + payload[h].amt
    <2>1. IsFiniteSet(S \cup {h})
      BY FS_AddElement
    <2>2. Sum(amts, S \cup {h}) = Sum(amts, S) + amts[h]
      <3>1. \A k \in S : amts[k] \in Nat
        BY <1>2
      <3>2. h \notin S /\ amts[h] \in Nat
        BY <1>2
      <3> QED
        BY <3>1, <3>2, SumAdd
    <2>3. /\ Amount(payload, S \cup {h}) = Sum(amts, S \cup {h})
          /\ Amount(payload, S) = Sum(amts, S)
      BY <1>1, <2>1
    <2> QED
      BY <1>2, <2>2, <2>3
  <1>5. Amount(payload, S) = Sum(amts, S)
    BY <1>1
  <1> QED
    BY <1>2, <1>3, <1>4, <1>5

\* What counts is known.
LEMMA CountedKnown ==
    ASSUME NEW inv, Good(inv)
    PROVE  /\ Counted(inv) \in SUBSET Htlc /\ Counted(inv) \subseteq Known(inv)
           /\ IsFiniteSet(Counted(inv))
           /\ HTLCSet(inv, "Accepted") \subseteq Counted(inv)
  <1>1. /\ Counted(inv) \in SUBSET Htlc /\ Counted(inv) \subseteq Known(inv)
        /\ HTLCSet(inv, "Accepted") \subseteq Counted(inv)
    BY DEF Counted, Known, HTLCSet
  <1> QED
    BY <1>1, FS_Subset DEF Good

\* addHTLCs records the HTLC, moves the invoice and settles the others with it.
LEMMA AddHtlcEffect ==
    ASSUME payload \in PayloadType,
           NEW inv, Good(inv), NEW h \in Htlc \ Known(inv),
           NEW state \in {"Open", "Accepted", "Settled"},
           NEW new, new = AddHtlc(inv, payload, h, state)
    PROVE  /\ new.state = state /\ new.hodl = inv.hodl
           /\ \A k \in Htlc : new.htlcs[k] =
                  IF k = h \/ inv.htlcs[k] = "Accepted"
                  THEN (IF state = "Settled" THEN "Settled" ELSE "Accepted")
                  ELSE inv.htlcs[k]
           /\ Counted(new) = Counted(inv) \cup {h}
           /\ new.amtPaid = IF state = "Open" THEN 0 ELSE Amount(payload, Counted(new))
           /\ new \in InvoiceType /\ IsFiniteSet(Known(new))
  <1> DEFINE added == [inv EXCEPT !.htlcs[h] = "Accepted", !.state = state]
             aligned == AlignHtlcs(added)
  <1>1. inv \in InvoiceType /\ h \in Htlc /\ inv.htlcs[h] = "None"
    BY DEF Good, Known
  <1>2. /\ added \in InvoiceType /\ added.state = state /\ added.hodl = inv.hodl
        /\ \A k \in Htlc : added.htlcs[k] = IF k = h THEN "Accepted" ELSE inv.htlcs[k]
    BY <1>1 DEF InvoiceType, ContractState, HtlcState
  <1> HIDE DEF added
  <1>3. /\ aligned = [added EXCEPT !.htlcs = aligned.htlcs]
        /\ aligned.htlcs = [k \in Htlc |->
               IF state = "Settled" /\ added.htlcs[k] = "Accepted" THEN "Settled"
               ELSE added.htlcs[k]]
    BY <1>2 DEF AlignHtlcs, InvoiceType
  <1> HIDE DEF aligned
  <1>4. aligned.htlcs \in [Htlc -> HtlcState]
    BY <1>2, <1>3 DEF InvoiceType, HtlcState
  <1>5. /\ aligned \in InvoiceType /\ aligned.state = state
        /\ aligned.hodl = inv.hodl
    BY <1>2, <1>3, <1>4 DEF InvoiceType
  <1>6. \A k \in Htlc : aligned.htlcs[k] =
             IF k = h \/ inv.htlcs[k] = "Accepted"
             THEN (IF state = "Settled" THEN "Settled" ELSE "Accepted")
             ELSE inv.htlcs[k]
    BY <1>2, <1>3
  <1>7. Counted(aligned) = Counted(inv) \cup {h} /\ Known(aligned) = Known(inv) \cup {h}
    BY <1>1, <1>6 DEF Counted, Known, HTLCSet
  <1>8. IsFiniteSet(Known(aligned)) /\ IsFiniteSet(Counted(aligned))
    BY <1>7, CountedKnown, FS_AddElement DEF Good
  <1>9. Counted(aligned) \in SUBSET Htlc
    BY DEF Counted, HTLCSet
  <1>10. Amount(payload, Counted(aligned)) \in Nat
    BY <1>8, <1>9, AmountSum
  <1> DEFINE amt == IF state = "Open" THEN 0 ELSE Amount(payload, Counted(aligned))
  <1>11. new = [aligned EXCEPT !.amtPaid = amt]
    BY DEF AddHtlc, Counted, aligned, added
  <1>12. amt \in Nat
    BY <1>10
  <1> HIDE DEF amt
  <1>13. /\ new \in InvoiceType /\ new.state = state /\ new.hodl = inv.hodl
         /\ new.htlcs = aligned.htlcs /\ new.amtPaid = amt
    BY <1>5, <1>11, <1>12 DEF InvoiceType
  <1>14. Counted(new) = Counted(aligned) /\ Known(new) = Known(aligned)
    BY <1>13 DEF Counted, Known, HTLCSet
  <1> QED
    BY <1>6, <1>7, <1>8, <1>13, <1>14 DEF amt

-----------------------------------------------------------------------------
(* How an invoice may change, S being the HTLCs that are recorded.         *)

Later == {"Accepted", "Settled", "Canceled", "Deleted"}

Moves(inv, new, S) ==
    /\ Good(new)
    /\ \A h \in Htlc :
        /\ inv.htlcs[h] = "Settled" => new.htlcs[h] = "Settled"
        /\ inv.htlcs[h] = "Canceled" => new.htlcs[h] = "Canceled" \/ new.state = "Deleted"
        /\ inv.htlcs[h] = "None" /\ h \notin S => new.htlcs[h] = "None"
    /\ inv.state = "Canceled" => new.state \in {"Canceled", "Deleted"}
    /\ inv.state = "Deleted" => new.state = "Deleted"
    /\ inv.state \in Later => new.state \in Later
    /\ new.state = "Absent" => inv.state = "Absent"

\* The HTLCs still waiting are settled together, or wait on.
SettlesOnly(inv, new) ==
    \A h \in HTLCSet(inv, "Accepted") : new.htlcs[h] \in {"Accepted", "Settled"}

\* With h the payments are complete.
Enough(inv, h) ==
    LET S == Counted(inv) \cup {h}
    IN  /\ Amount(payload, S) >= Value
        /\ \A k \in S : Amount(payload, S) >= payload[k].total

\* The HTLC is settled with the invoice, or waits with all the others.
Records(inv, h, state, new) ==
    /\ Moves(inv, new, {h})
    /\ SettlesOnly(inv, new)
    /\ new.state = state
    /\ new.htlcs[h] = IF state = "Settled" THEN "Settled" ELSE "Accepted"
    /\ state # "Settled" => \A k \in HTLCSet(inv, "Accepted") : new.htlcs[k] = "Accepted"

\* Recording an HTLC is such a change, if the invoice only becomes accepted or
\* settled when enough is paid.
LEMMA AddHtlcMoves ==
    ASSUME payload \in PayloadType,
           NEW inv, Good(inv), NEW h \in Htlc \ Known(inv),
           NEW state \in {"Open", "Accepted", "Settled"},
           state # "Open" => Enough(inv, h),
           inv.state \in {"Open", state}, state = "Accepted" => inv.hodl,
           NEW new, new = AddHtlc(inv, payload, h, state)
    PROVE  Records(inv, h, state, new)
  <1>1. /\ new.state = state /\ new.hodl = inv.hodl
        /\ \A k \in Htlc : new.htlcs[k] =
               IF k = h \/ inv.htlcs[k] = "Accepted"
               THEN (IF state = "Settled" THEN "Settled" ELSE "Accepted")
               ELSE inv.htlcs[k]
        /\ Counted(new) = Counted(inv) \cup {h}
        /\ new.amtPaid = IF state = "Open" THEN 0 ELSE Amount(payload, Counted(new))
        /\ new \in InvoiceType /\ IsFiniteSet(Known(new))
    BY AddHtlcEffect
  <1>2. state # "Open" => PaidUp(new)
    BY <1>1 DEF PaidUp, Enough
  <1>3. inv.htlcs[h] = "None"
    BY DEF Known
  <1>4. state # "Settled" => HTLCSet(new, "Settled") = {}
    BY <1>1, <1>3 DEF HTLCSet, Good
  <1>5. state = "Settled" => HTLCSet(new, "Accepted") = {}
    BY <1>1 DEF HTLCSet
  <1>6. state = "Accepted" => new.hodl /\ h \in HTLCSet(new, "Accepted")
    BY <1>1 DEF HTLCSet
  <1>7. Good(new)
    BY <1>1, <1>2, <1>4, <1>5, <1>6 DEF Good
  <1> QED
    BY <1>1, <1>3, <1>7 DEF Records, Moves, Later, SettlesOnly, HTLCSet

\* Nothing changes.
LEMMA SameMoves ==
    ASSUME NEW inv, Good(inv)
    PROVE  Moves(inv, inv, {}) /\ SettlesOnly(inv, inv)
  BY DEF Moves, Later, SettlesOnly, HTLCSet

\* What updateInvoice does with an HTLC, and what it answers.
Outcome == {"Settled", "Accepted", "Partial", "DuplicateToAccepted", "ReplayToAccepted",
            "ReplayToCanceled", "InvoiceNotFound", "InvoiceNotOpen",
            "InvoiceAlreadyCanceled", "HtlcSetTotalTooLow", "HtlcSetTotalMismatch",
            "AmountTooLow", "MppInProgress", "ExpiryTooSoon"}
HtlcResolution == [kind : {"hold", "settle", "fail"}, outcome : Outcome]

Updates(inv, h, new, res) ==
    /\ Moves(inv, new, {h})
    /\ SettlesOnly(inv, new)
    /\ res \in HtlcResolution
    /\ res.kind = "settle" => new.htlcs[h] = "Settled"
    /\ res.kind = "hold" => new.htlcs[h] = "Accepted"
    /\ res.kind = "fail" => new = inv /\ inv.htlcs[h] \in {"None", "Canceled"}
    /\ res.kind # "settle" => \A k \in HTLCSet(inv, "Accepted") : new.htlcs[k] = "Accepted"
    /\ res.outcome = "Accepted" => res.kind = "hold" /\ new.state = "Accepted"
    /\ new.state = "Accepted" =>
           \/ res.outcome = "Accepted"
           \/ inv.state = "Accepted" /\ (new = inv \/ payload[h].total = 0)

\* An HTLC that is refused.
LEMMA FailUpdates ==
    ASSUME NEW inv, Good(inv), NEW h \in Htlc, inv.htlcs[h] \in {"None", "Canceled"},
           NEW outcome \in Outcome \ {"Accepted"}, NEW u, u = Unchanged(inv, FailRes(outcome))
    PROVE  Updates(inv, h, u.invoice, u.res)
  <1>1. u.invoice = inv /\ u.res.kind = "fail" /\ u.res \in HtlcResolution
        /\ u.res.outcome # "Accepted"
    BY DEF Unchanged, FailRes, HtlcResolution, Outcome
  <1>2. Moves(inv, inv, {h}) /\ SettlesOnly(inv, inv)
    BY SameMoves DEF Moves
  <1> QED
    BY <1>1, <1>2 DEF Updates, HTLCSet

\* An HTLC that is recorded.
LEMMA AddUpdates ==
    ASSUME payload \in PayloadType,
           NEW inv, Good(inv), NEW h \in Htlc \ Known(inv),
           NEW state \in {"Open", "Accepted", "Settled"},
           state # "Open" => Enough(inv, h),
           inv.state \in {"Open", state}, state = "Accepted" => inv.hodl,
           NEW u, NEW res, u = [invoice |-> AddHtlc(inv, payload, h, state), res |-> res],
           res \in HtlcResolution, res.kind = IF state = "Settled" THEN "settle" ELSE "hold",
           res.outcome = "Accepted" => state = "Accepted",
           state = "Accepted" => \/ res.outcome = "Accepted"
                                 \/ inv.state = "Accepted" /\ payload[h].total = 0
    PROVE  Updates(inv, h, u.invoice, u.res)
  <1> DEFINE new == AddHtlc(inv, payload, h, state)
  <1>1. u.invoice = new /\ u.res = res
    OBVIOUS
  <1>2. new = AddHtlc(inv, payload, h, state)
    OBVIOUS
  <1> HIDE DEF new
  <1>3. Records(inv, h, state, new)
    BY <1>2, AddHtlcMoves
  <1> QED
    BY <1>1, <1>3 DEF Updates, Records

\* An HTLC that makes up the payment settles the invoice, or is held for the
\* preimage with all the others.
LEMMA CompleteUpdates ==
    ASSUME payload \in PayloadType,
           NEW inv, Good(inv), NEW h \in Htlc \ Known(inv),
           inv.state = "Open", Enough(inv, h),
           NEW u, u = Complete(inv, payload, h)
    PROVE  Updates(inv, h, u.invoice, u.res)
  <1>1. CASE inv.hodl
    <2>1. /\ u = [invoice |-> AddHtlc(inv, payload, h, "Accepted"), res |-> Held("Accepted")]
          /\ Held("Accepted").kind = "hold" /\ Held("Accepted").outcome = "Accepted"
          /\ Held("Accepted") \in HtlcResolution
      BY <1>1 DEF Complete, Held, HtlcResolution, Outcome
    <2> QED
      BY <1>1, <2>1, AddUpdates
  <1>2. CASE ~ inv.hodl
    <2>1. /\ u = [invoice |-> AddHtlc(inv, payload, h, "Settled"), res |-> SettleRes]
          /\ SettleRes.kind = "settle" /\ SettleRes.outcome = "Settled"
          /\ SettleRes \in HtlcResolution
      BY <1>2 DEF Complete, SettleRes, HtlcResolution, Outcome
    <2> QED
      BY <2>1, AddUpdates
  <1> QED
    BY <1>1, <1>2

\* An HTLC of a multi-path payment.
LEMMA MppUpdates ==
    ASSUME payload \in PayloadType, Value \in Nat,
           NEW inv, Good(inv), NEW h \in Htlc \ Known(inv),
           NEW u, u = updateMpp(inv, payload, h, height)
    PROVE  Updates(inv, h, u.invoice, u.res)
  <1> DEFINE set == HTLCSet(inv, "Accepted")
             total == payload[h].total
  <1>0. inv.htlcs[h] = "None"
    BY DEF Known
  <1>1. CASE \/ inv.state # "Open" \/ total < Value
             \/ \E k \in set : payload[k].total # total
             \/ TooSoon(payload, h, height)
    <2>1. \E outcome \in Outcome \ {"Accepted"} : u = Unchanged(inv, FailRes(outcome))
      BY <1>1 DEF updateMpp, Outcome
    <2> QED
      BY <1>0, <2>1, FailUpdates
  <1>2. CASE /\ inv.state = "Open" /\ ~ total < Value
             /\ \A k \in set : payload[k].total = total
             /\ ~ TooSoon(payload, h, height)
    <2>1. u = IF Amount(payload, set) + payload[h].amt < total
              THEN [invoice |-> AddHtlc(inv, payload, h, "Open"), res |-> Held("Partial")]
              ELSE Complete(inv, payload, h)
      BY <1>2 DEF updateMpp
    <2>2. CASE Amount(payload, set) + payload[h].amt < total
      <3>1. /\ Held("Partial").kind = "hold" /\ Held("Partial").outcome = "Partial"
            /\ Held("Partial") \in HtlcResolution
        BY DEF Held, HtlcResolution, Outcome
      <3>2. u = [invoice |-> AddHtlc(inv, payload, h, "Open"), res |-> Held("Partial")]
        BY <2>1, <2>2
      <3> QED
        BY <1>2, <3>1, <3>2, AddUpdates
    <2>3. CASE ~ Amount(payload, set) + payload[h].amt < total
      <3>1. Counted(inv) = set /\ set \in SUBSET Htlc /\ h \notin set /\ IsFiniteSet(set)
        <4>1. HTLCSet(inv, "Settled") = {}
          BY <1>2 DEF Good
        <4>2. Counted(inv) = set
          BY <4>1 DEF Counted
        <4> QED
          BY <4>2, CountedKnown
      <3>2. /\ Amount(payload, set) \in Nat
            /\ Amount(payload, set \cup {h}) = Amount(payload, set) + payload[h].amt
        BY <3>1, AmountSum
      <3>3. total \in Nat /\ payload[h].amt \in Nat
        BY DEF PayloadType
      <3>4. Amount(payload, set \cup {h}) >= total /\ total >= Value
        BY <1>2, <2>3, <3>2, <3>3
      <3>5. Amount(payload, set \cup {h}) >= Value
        BY <3>2, <3>3, <3>4
      <3>6. \A k \in set \cup {h} : payload[k].total = total
        BY <1>2
      <3> HIDE DEF set, total
      <3>7. Enough(inv, h)
        BY <3>1, <3>4, <3>5, <3>6 DEF Enough
      <3> QED
        BY <1>2, <2>1, <2>3, <3>7, CompleteUpdates
    <2> QED
      BY <2>2, <2>3
  <1> QED
    BY <1>1, <1>2

\* An HTLC that pays alone.
LEMMA LegacyUpdates ==
    ASSUME payload \in PayloadType, Value \in Nat,
           NEW inv, Good(inv), NEW h \in Htlc \ Known(inv),
           inv.state \notin {"Absent", "Deleted"}, payload[h].total = 0,
           NEW u, u = updateLegacy(inv, payload, h, height)
    PROVE  Updates(inv, h, u.invoice, u.res)
  <1> DEFINE set == HTLCSet(inv, "Accepted")
             S == Counted(inv) \cup {h}
  <1>0. inv.htlcs[h] = "None"
    BY DEF Known
  <1>1. CASE \/ inv.state = "Canceled" \/ payload[h].amt < Value
             \/ \E k \in set : payload[k].total > 0
             \/ TooSoon(payload, h, height)
    <2>1. \E outcome \in Outcome \ {"Accepted"} : u = Unchanged(inv, FailRes(outcome))
      BY <1>1 DEF updateLegacy, Outcome
    <2> QED
      BY <1>0, <2>1, FailUpdates
  <1>2. CASE /\ inv.state # "Canceled" /\ ~ payload[h].amt < Value
             /\ ~ \E k \in set : payload[k].total > 0
             /\ ~ TooSoon(payload, h, height)
    <2>1. u = IF inv.state = "Accepted"
              THEN [invoice |-> AddHtlc(inv, payload, h, "Accepted"),
                    res |-> Held("DuplicateToAccepted")]
              ELSE IF inv.state = "Settled"
              THEN [invoice |-> AddHtlc(inv, payload, h, "Settled"), res |-> SettleRes]
              ELSE Complete(inv, payload, h)
      BY <1>2 DEF updateLegacy
    <2>2. inv.state \in {"Open", "Accepted", "Settled"}
      BY <1>2 DEF Good, InvoiceType, ContractState
    <2>3. /\ Counted(inv) \in SUBSET Htlc /\ IsFiniteSet(Counted(inv)) /\ h \notin Counted(inv)
      BY CountedKnown
    <2>4. /\ Amount(payload, Counted(inv)) \in Nat
          /\ Amount(payload, S) = Amount(payload, Counted(inv)) + payload[h].amt
      BY <2>3, AmountSum
    <2>5. payload[h].amt \in Nat
      BY DEF PayloadType
    <2>6. Amount(payload, S) \in Nat /\ Amount(payload, S) >= Value
      BY <1>2, <2>4, <2>5
    <2>7. \A k \in S : Amount(payload, S) >= payload[k].total
      <3>1. ASSUME NEW k \in set \cup {h} PROVE Amount(payload, S) >= payload[k].total
        <4>1. k \in Htlc
          BY DEF HTLCSet
        <4>2. payload[k].total \in Nat
          BY <4>1 DEF PayloadType
        <4>3. payload[k].total = 0
          BY <1>2, <4>2
        <4> QED
          BY <2>6, <4>3
      <3>2. ASSUME NEW k \in HTLCSet(inv, "Settled") PROVE Amount(payload, S) >= payload[k].total
        <4>1. inv.state = "Settled"
          BY <2>2, <3>2 DEF Good
        <4>2. PaidUp(inv)
          BY <4>1 DEF Good
        <4>3. k \in Htlc /\ k \in Counted(inv)
          BY DEF HTLCSet, Counted
        <4>4. payload[k].total \in Nat
          BY <4>3 DEF PayloadType
        <4>5. Amount(payload, Counted(inv)) >= payload[k].total
          BY <4>2, <4>3 DEF PaidUp
        <4> QED
          BY <2>4, <2>5, <4>4, <4>5
      <3> QED
        BY <3>1, <3>2 DEF Counted
    <2>8. Enough(inv, h)
      BY <2>6, <2>7 DEF Enough
    <2>9. CASE inv.state = "Accepted"
      <3>1. /\ u = [invoice |-> AddHtlc(inv, payload, h, "Accepted"),
                    res |-> Held("DuplicateToAccepted")]
            /\ Held("DuplicateToAccepted").kind = "hold"
            /\ Held("DuplicateToAccepted").outcome = "DuplicateToAccepted"
            /\ inv.hodl
            /\ Held("DuplicateToAccepted") \in HtlcResolution
        BY <2>1, <2>9 DEF Held, Good, HtlcResolution, Outcome
      <3> QED
        BY <2>8, <2>9, <3>1, AddUpdates
    <2>10. CASE inv.state = "Settled"
      <3>1. /\ u = [invoice |-> AddHtlc(inv, payload, h, "Settled"), res |-> SettleRes]
            /\ SettleRes.kind = "settle" /\ SettleRes.outcome = "Settled"
          /\ SettleRes \in HtlcResolution
        BY <2>1, <2>10 DEF SettleRes, HtlcResolution, Outcome
      <3> QED
        BY <2>8, <2>10, <3>1, AddUpdates
    <2>11. CASE inv.state = "Open"
      BY <2>1, <2>8, <2>11, CompleteUpdates
    <2> QED
      BY <2>2, <2>9, <2>10, <2>11
  <1> QED
    BY <1>1, <1>2

\* Any HTLC: replays are answered from the invoice.
LEMMA InvoiceUpdates ==
    ASSUME payload \in PayloadType, Value \in Nat,
           NEW inv, Good(inv), NEW h \in Htlc,
           NEW u, u = updateInvoice(inv, payload, h, height)
    PROVE  Updates(inv, h, u.invoice, u.res)
  <1>1. inv.htlcs[h] \in HtlcState
    BY DEF Good, InvoiceType
  <1>2. CASE ~ Exists(inv)
    <2>1. u = Unchanged(inv, FailRes("InvoiceNotFound"))
      BY <1>2 DEF updateInvoice
    <2>2. inv.htlcs[h] = "None"
      BY <1>2 DEF Good, Known, Exists
    <2> QED
      BY <2>1, <2>2, FailUpdates DEF Outcome
  <1>3. CASE Exists(inv) /\ inv.htlcs[h] = "Canceled"
    <2>1. u = Unchanged(inv, FailRes("ReplayToCanceled"))
      BY <1>3 DEF updateInvoice
    <2> QED
      BY <1>3, <2>1, FailUpdates DEF Outcome
  <1>4. CASE Exists(inv) /\ inv.htlcs[h] \in {"Accepted", "Settled"}
    <2>1. /\ u.invoice = inv /\ u.res \in HtlcResolution /\ u.res.outcome # "Accepted"
          /\ u.res.kind = IF inv.htlcs[h] = "Settled" THEN "settle" ELSE "hold"
      BY <1>4 DEF updateInvoice, Unchanged, Held, SettleRes, HtlcResolution, Outcome
    <2>2. Moves(inv, inv, {h}) /\ SettlesOnly(inv, inv)
      BY SameMoves DEF Moves
    <2> QED
      BY <1>4, <2>1, <2>2 DEF Updates, HTLCSet
  <1>5. CASE Exists(inv) /\ inv.htlcs[h] = "None"
    <2>1. u = IF payload[h].total = 0 THEN updateLegacy(inv, payload, h, height)
              ELSE updateMpp(inv, payload, h, height)
      BY <1>5 DEF updateInvoice
    <2>2. h \in Htlc \ Known(inv) /\ inv.state \notin {"Absent", "Deleted"}
      BY <1>5 DEF Known, Exists
    <2> QED
      BY <2>1, <2>2, LegacyUpdates, MppUpdates
  <1> QED
    BY <1>1, <1>2, <1>3, <1>4, <1>5 DEF HtlcState

\* The HTLCs are settled or cancelled with the invoice.
Aligned(inv, state, new) ==
    /\ new \in InvoiceType /\ new.state = state
    /\ \A h \in Htlc : new.htlcs[h] =
           IF state = "Settled" /\ inv.htlcs[h] = "Accepted" THEN "Settled"
           ELSE IF state = "Canceled" /\ inv.htlcs[h] # "None" THEN "Canceled"
           ELSE inv.htlcs[h]
    /\ Known(new) = Known(inv)

\* getUpdatedHtlcState does that.
LEMMA AlignEffect ==
    ASSUME NEW inv \in InvoiceType, NEW state \in {"Settled", "Canceled"}
    PROVE  Aligned(inv, state, AlignHtlcs([inv EXCEPT !.state = state]))
  <1> DEFINE htlcs == [h \in Htlc |->
                  IF state = "Settled" /\ inv.htlcs[h] = "Accepted" THEN "Settled"
                  ELSE IF state = "Canceled" /\ inv.htlcs[h] # "None" THEN "Canceled"
                  ELSE inv.htlcs[h]]
             moved == [inv EXCEPT !.state = state]
             new == AlignHtlcs(moved)
  <1>1. moved \in InvoiceType /\ moved.state = state /\ moved.htlcs = inv.htlcs
    BY DEF InvoiceType, ContractState
  <1>2. htlcs \in [Htlc -> HtlcState]
    BY DEF InvoiceType, HtlcState
  <1> HIDE DEF moved
  <1>3. new = [moved EXCEPT !.htlcs = htlcs]
    BY <1>1 DEF AlignHtlcs
  <1> HIDE DEF new
  <1>4. \A h \in Htlc : htlcs[h] # "None" <=> inv.htlcs[h] # "None"
    OBVIOUS
  <1>5. \A h \in Htlc : htlcs[h] =
             IF state = "Settled" /\ inv.htlcs[h] = "Accepted" THEN "Settled"
             ELSE IF state = "Canceled" /\ inv.htlcs[h] # "None" THEN "Canceled"
             ELSE inv.htlcs[h]
    OBVIOUS
  <1> HIDE DEF htlcs
  <1>6. new \in InvoiceType /\ new.state = state /\ new.htlcs = htlcs
    BY <1>1, <1>2, <1>3 DEF InvoiceType
  <1> QED
    BY <1>4, <1>5, <1>6 DEF Known, Aligned, new, moved

\* Cancelling resolves every HTLC.
LEMMA CancelMoves ==
    ASSUME NEW inv, Good(inv), inv.state \in {"Open", "Accepted"},
           NEW new, new = cancelInvoice(inv)
    PROVE  /\ Moves(inv, new, {}) /\ new.state = "Canceled"
           /\ \A h \in Htlc : new.htlcs[h] \in {"None", "Canceled"}
  <1>1. inv \in InvoiceType
    BY DEF Good
  <1>2. /\ new \in InvoiceType /\ new.state = "Canceled"
        /\ \A h \in Htlc : new.htlcs[h] = IF inv.htlcs[h] # "None" THEN "Canceled" ELSE "None"
        /\ Known(new) = Known(inv)
    BY <1>1, AlignEffect DEF cancelInvoice, Aligned
  <1>3. Counted(new) = {} /\ HTLCSet(inv, "Settled") = {}
    BY <1>2 DEF Counted, HTLCSet, Good
  <1>4. Good(new)
    BY <1>2, <1>3 DEF Good
  <1> QED
    BY <1>2, <1>3, <1>4 DEF Moves, Later, HTLCSet

\* Settling a hold invoice settles the HTLCs it holds.
LEMMA SettleMoves ==
    ASSUME payload \in PayloadType,
           NEW inv, Good(inv), inv.state = "Accepted",
           NEW new, new = settleHodlInvoice(inv, payload)
    PROVE  /\ Moves(inv, new, {}) /\ new.state = "Settled"
           /\ SettlesOnly(inv, new)
  <1> DEFINE aligned == AlignHtlcs([inv EXCEPT !.state = "Settled"])
             amt == Amount(payload, HTLCSet(inv, "Accepted"))
  <1>1. inv \in InvoiceType /\ HTLCSet(inv, "Settled") = {} /\ PaidUp(inv)
    BY DEF Good
  <1>2. /\ aligned \in InvoiceType /\ aligned.state = "Settled"
        /\ \A h \in Htlc : aligned.htlcs[h] =
               IF inv.htlcs[h] = "Accepted" THEN "Settled" ELSE inv.htlcs[h]
        /\ Known(aligned) = Known(inv)
    <2>1. Aligned(inv, "Settled", aligned)
      BY <1>1, AlignEffect
    <2> HIDE DEF aligned
    <2> QED
      BY <2>1 DEF Aligned
  <1> HIDE DEF aligned
  <1>3. Counted(inv) = HTLCSet(inv, "Accepted")
    BY <1>1 DEF Counted
  <1>4. amt = inv.amtPaid
    BY <1>1, <1>3 DEF PaidUp
  <1>5. amt \in Nat
    BY <1>1, <1>4 DEF InvoiceType
  <1>6. new = [aligned EXCEPT !.amtPaid = amt]
    BY DEF settleHodlInvoice, aligned
  <1> HIDE DEF amt
  <1>7. /\ new \in InvoiceType /\ new.state = "Settled"
        /\ new.htlcs = aligned.htlcs /\ new.amtPaid = amt
    BY <1>2, <1>5, <1>6 DEF InvoiceType
  <1>8. /\ HTLCSet(new, "Accepted") = {}
        /\ Counted(new) = Counted(inv) /\ Known(new) = Known(inv)
    BY <1>1, <1>2, <1>7 DEF Counted, HTLCSet, Known
  <1>9. PaidUp(new)
    BY <1>1, <1>4, <1>7, <1>8 DEF PaidUp
  <1>10. Good(new)
    BY <1>7, <1>8, <1>9 DEF Good
  <1> QED
    BY <1>2, <1>7, <1>10 DEF Moves, Later, SettlesOnly, HTLCSet

\* Releasing an HTLC resolves this one.
LEMMA ReleaseMoves ==
    ASSUME NEW inv, Good(inv), NEW h \in Htlc, CanRelease(inv, h),
           NEW new, new = cancelHTLC(inv, h)
    PROVE  /\ Moves(inv, new, {}) /\ new.state = "Open"
           /\ \A k \in Htlc : new.htlcs[k] = IF k = h THEN "Canceled" ELSE inv.htlcs[k]
  <1>1. inv \in InvoiceType /\ inv.state = "Open" /\ inv.htlcs[h] = "Accepted"
    BY DEF Good, CanRelease
  <1>2. /\ new \in InvoiceType /\ new.state = "Open"
        /\ \A k \in Htlc : new.htlcs[k] = IF k = h THEN "Canceled" ELSE inv.htlcs[k]
    BY <1>1 DEF cancelHTLC, InvoiceType, HtlcState
  <1>3. Known(new) = Known(inv) /\ HTLCSet(new, "Settled") = {}
    BY <1>1, <1>2 DEF Known, HTLCSet, Good
  <1>4. Good(new)
    BY <1>2, <1>3 DEF Good
  <1> QED
    BY <1>1, <1>2, <1>4 DEF Moves, Later

\* The least of a set of naturals.
LEMMA MinNat ==
    ASSUME NEW S \in SUBSET Nat, S # {}
    PROVE  Min(S) \in S /\ \A n \in S : Min(S) <= n
  <1>1. PICK m \in S : TRUE
    OBVIOUS
  <1> DEFINE C == {0 .. n : n \in {k \in S : k <= m}}
  <1>2. C \in SUBSET SUBSET (0 .. m)
    OBVIOUS
  <1>3. C # {}
    OBVIOUS
  <1>4. IsFiniteSet(0 .. m)
    BY FS_Interval
  <1>5. PICK s \in C : \A t \in SUBSET s : t # s => t \notin C
    <2> DEFINE I == 0 .. m
    <2>1. C \in SUBSET SUBSET I /\ IsFiniteSet(I)
      BY <1>2, <1>4
    <2> HIDE DEF C, I
    <2> QED
      BY <1>3, <2>1, MinimalSet
  <1>6. PICK n \in {k \in S : k <= m} : s = 0 .. n
    OBVIOUS
  <1>7. ASSUME NEW k \in S, k < n PROVE FALSE
    <2>1. 0 .. k \in C
      BY <1>6, <1>7
    <2>2. 0 .. k \in SUBSET s /\ 0 .. k # s
      <3>1. n \in 0 .. n /\ n \notin 0 .. k
        BY <1>6, <1>7
      <3> QED
        BY <1>6, <1>7, <3>1
    <2> QED
      BY <1>5, <2>1, <2>2
  <1>8. n \in S /\ \A k \in S : n <= k
    BY <1>6, <1>7
  <1> QED
    BY <1>8 DEF Min

\* The first height at which an HTLC of the invoice times out.
LEMMA MinExpiryNat ==
    ASSUME payload \in PayloadType, NEW inv
    PROVE  /\ MinExpiry(inv, payload) \in Nat
           /\ \A h \in HTLCSet(inv, "Accepted") : MinExpiry(inv, payload) <= payload[h].expiry
           /\ HTLCSet(inv, "Accepted") # {} =>
                  \E h \in HTLCSet(inv, "Accepted") : MinExpiry(inv, payload) = payload[h].expiry
  <1> DEFINE set == HTLCSet(inv, "Accepted")
             S == {payload[h].expiry : h \in set}
  <1>1. S \in SUBSET Nat
    BY DEF HTLCSet, PayloadType
  <1>2. CASE set = {}
    BY <1>2 DEF MinExpiry
  <1>3. CASE set # {}
    <2>1. MinExpiry(inv, payload) = Min(S) /\ S # {}
      BY <1>3 DEF MinExpiry
    <2>2. Min(S) \in S /\ \A n \in S : Min(S) <= n
      <3> HIDE DEF S
      <3> QED
        BY <1>1, <2>1, MinNat
    <2> QED
      BY <1>1, <2>1, <2>2
  <1> QED
    BY <1>2, <1>3

-----------------------------------------------------------------------------
(* Types.                                                                  *)

\* A resolution on its way to the links, and what a goroutine has at hand.
ResolutionType == [kind : {"settle", "fail"}, htlc : Htlc]
CallType == [at : {"idle", "notify", "subscribe", "expiry", "timer", "hold"},
             todo : SUBSET ResolutionType, htlc : Htlc \cup {None},
             res : HtlcResolution \cup {None, "cancel", "settle", "release"},
             expiry : Nat]
LinkType == [incarnation : Nat, stopping : {"no", "unsubscribed", "queue"},
             hodlQueue : SUBSET ResolutionType, hodlMap : SUBSET Htlc,
             asked : SUBSET Htlc, committed : SUBSET Htlc]
RegistryType == [lock : Caller \cup {None}, mux : {"free", "stuck"},
                 subs : SUBSET (Htlc \X (Link \X Nat)), timers : [Htlc -> Nat],
                 timestamp : BOOLEAN, heights : SUBSET Nat]

TypeInv ==
    /\ payload \in PayloadType
    /\ Good(invoice)
    /\ answer \in [Htlc -> Answer] /\ revealed \in SUBSET Htlc
    /\ link \in [Link -> LinkType]
    /\ registry \in RegistryType
    /\ call \in [Caller -> CallType]
    /\ height \in Nat /\ flaps \in Nat

\* A goroutine at rest, and one with resolutions to deliver.
LEMMA CallTypes ==
    /\ Idle \in CallType
    /\ \A res \in HtlcResolution \cup {"cancel", "settle", "release"},
          todo \in SUBSET ResolutionType : Notifying(res, todo) \in CallType
  <1>1. Idle \in CallType
    BY DEF Idle, CallType
  <1>2. ASSUME NEW res \in HtlcResolution \cup {"cancel", "settle", "release"},
               NEW todo \in SUBSET ResolutionType
        PROVE  Notifying(res, todo) \in CallType
    BY DEF Notifying, Idle, CallType
  <1> QED
    BY <1>1, <1>2

\* Resolutions are well typed.
LEMMA ResolutionTypes ==
    ASSUME NEW inv, NEW kind \in {"settle", "fail"}, NEW htlcs \in SUBSET Htlc
    PROVE  /\ Resolution(kind, htlcs) \in SUBSET ResolutionType
           /\ \A state : HTLCSet(inv, state) \in SUBSET Htlc
  BY DEF Resolution, ResolutionType, HTLCSet

\* A link and a registry that start.
LEMMA StartTypes ==
    ASSUME payload \in PayloadType, NEW n \in Nat, NEW inv, NEW committed \in SUBSET Htlc
    PROVE  /\ NewLink(n) \in LinkType
           /\ [NewLink(n) EXCEPT !.committed = committed] \in LinkType
           /\ NewRegistry(inv) \in RegistryType
  <1>1. NewLink(n) \in LinkType
    BY DEF NewLink, LinkType
  <1>2. [NewLink(n) EXCEPT !.committed = committed] \in LinkType
    BY <1>1 DEF LinkType
  <1>3. MinExpiry(inv, payload) \in Nat
    BY MinExpiryNat
  <1>4. NewRegistry(inv) \in RegistryType
    BY <1>3 DEF NewRegistry, RegistryType
  <1> QED
    BY <1>1, <1>2, <1>4

\* What each goroutine may do to its own place.
LEMMA CallStep ==
    ASSUME call \in [Caller -> CallType], NEW p \in Caller,
           NEW c \in CallType, call' = [call EXCEPT ![p] = c]
    PROVE  call' \in [Caller -> CallType]
  OBVIOUS

\* The initial state is well typed.
LEMMA TypeInit == Init => TypeInv
  <1> SUFFICES ASSUME Init PROVE TypeInv
    OBVIOUS
  <1>1. payload \in PayloadType
    BY InvoiceRegistryAssumption DEF Init, PayloadType
  <1>2. Good(invoice)
    BY NewInvoiceGood DEF Init
  <1>3. answer \in [Htlc -> Answer] /\ revealed \in SUBSET Htlc
    BY DEF Init, Answer
  <1>4. link \in [Link -> LinkType] /\ registry \in RegistryType
    BY <1>1, StartTypes DEF Init
  <1>5. call \in [Caller -> CallType]
    BY CallTypes DEF Init
  <1> QED
    BY <1>1, <1>2, <1>3, <1>4, <1>5 DEF Init, TypeInv

-----------------------------------------------------------------------------
(* The invariant.                                                          *)

\* The HTLC cannot become settled any more.
Gone(h) == invoice.htlcs[h] = "Canceled" \/ invoice.state = "Deleted"

\* A resolution says what the invoice says.
TrueRes(r) ==
    /\ r.kind = "settle" => invoice.htlcs[r.htlc] = "Settled"
    /\ r.kind = "fail" => Gone(r.htlc)

\* The goroutine of link l is about to put the HTLC it asked for on hold.
Holding == {"expiry", "timer", "hold"}
Holds(l, h) ==
    \/ h \in link[l].hodlMap
    \/ call[l].at \in Holding /\ call[l].htlc = h

\* The link's queue is subscribed to the HTLC; it has a resolution of it.
Subscribed(l, h) == <<h, QueueOf(l)>> \in registry.subs
Queued(l, h) == \E r \in link[l].hodlQueue : r.htlc = h

\* Where the goroutine of a link stands.
LinkCallOk(l) ==
    /\ call[l].at # "idle" =>
           /\ call[l].htlc \in Htlc /\ LinkOf[call[l].htlc] = l
           /\ call[l].htlc \in link[l].asked
           /\ call[l].res \in HtlcResolution
    /\ call[l].at \in {"notify", "subscribe"} => registry.lock = l
    /\ call[l].at # "notify" => call[l].todo = {}
    /\ call[l].at = "notify" =>
           /\ call[l].res.kind \in {"settle", "fail"}
           /\ call[l].res.kind = "settle" => invoice.htlcs[call[l].htlc] = "Settled"
           /\ call[l].res.kind = "fail" =>
                  invoice.htlcs[call[l].htlc] = "None" \/ Gone(call[l].htlc)
    /\ call[l].at \in {"subscribe"} \cup Holding => call[l].htlc \notin link[l].hodlMap
    /\ call[l].at = "subscribe" =>
           ~ Subscribed(l, call[l].htlc) /\ ~ Queued(l, call[l].htlc)

\* Where the others stand.
OtherCallOk(p) ==
    /\ call[p].at \in {"idle", "notify", "expiry"}
    /\ call[p].at # "notify" => call[p].todo = {}
    /\ call[p].at = "notify" =>
           /\ call[p].res \in {"cancel", "settle", "release"}
           /\ call[p].res = "cancel" => invoice.state \in {"Canceled", "Deleted"}
           /\ p # "loop" => registry.lock = p

CallInv ==
    /\ \A l \in Link : LinkCallOk(l)
    /\ \A p \in {"rpc", "loop", "watcher"} : OtherCallOk(p)
    /\ \A p \in Caller : \A r \in call[p].todo : TrueRes(r)

\* What a link keeps belongs to it; it hears of an HTLC once, and while it
\* holds it.
LinkOk(l) ==
    /\ \A h \in link[l].asked \cup link[l].committed : LinkOf[h] = l
    /\ link[l].hodlMap \subseteq link[l].asked
    /\ \A r \in link[l].hodlQueue : TrueRes(r) /\ Holds(l, r.htlc) /\ r.htlc \in link[l].asked
    /\ \A r1, r2 \in link[l].hodlQueue : r1.htlc = r2.htlc => r1 = r2
    /\ \A h \in Htlc : Subscribed(l, h) =>
           h \in link[l].asked /\ Holds(l, h) /\ ~ Queued(l, h)

\* Queues subscribe on behalf of their link, and are not those of the future.
SubsOk ==
    \A s \in registry.subs :
        /\ s[2][1] = LinkOf[s[1]]
        /\ s[2][2] <= link[s[2][1]].incarnation

\* Answers agree with the invoice.
AnswerOk(h) ==
    /\ answer[h] = "settle" => invoice.htlcs[h] = "Settled"
    /\ answer[h] = "fail" =>
           /\ invoice.htlcs[h] = "None" \/ Gone(h)
           /\ h \in link[LinkOf[h]].asked \cup link[LinkOf[h]].committed
    /\ h \in revealed => invoice.htlcs[h] = "Settled"

Inv ==
    /\ TypeInv /\ CallInv /\ SubsOk
    /\ \A l \in Link : LinkOk(l)
    /\ \A h \in Htlc : AnswerOk(h)

\* While no link has stopped, a link holds an HTLC only if it will hear of it:
\* its queue is subscribed to it, and every HTLC that is resolved is on the list
\* of a goroutine.
Listed(h) == \E p \in Caller : \E r \in call[p].todo : r.htlc = h

HearOk(l) ==
    /\ link[l].stopping = "no"
    /\ \A h \in Htlc : Holds(l, h) => Subscribed(l, h) \/ Queued(l, h)
    /\ \A h \in Htlc : Subscribed(l, h) => invoice.htlcs[h] = "Accepted" \/ Listed(h)
    /\ call[l].at = "subscribe" =>
           invoice.htlcs[call[l].htlc] = "Accepted" /\ registry.timers[call[l].htlc] = 0

HearInv == flaps = 0 =>
    /\ \A l \in Link : HearOk(l)
    /\ \A h \in Htlc : registry.timers[h] > 0 => h \in link[LinkOf[h]].asked

\* NotifyExitHopHtlc leaves a good invoice.
LEMMA NotifyExitHopEffect ==
    ASSUME TypeInv, NEW h \in Htlc, NotifyExitHopHtlc(h)
    PROVE  \E res \in HtlcResolution :
              /\ Updates(invoice, h, invoice', res)
              /\ call'[LinkOf[h]] \in CallType
              /\ call'[LinkOf[h]].htlc = h /\ call'[LinkOf[h]].res = res
              /\ IF res.kind = "hold"
                 THEN /\ call'[LinkOf[h]].at = "subscribe"
                      /\ call'[LinkOf[h]].todo = {}
                      /\ call'[LinkOf[h]].expiry =
                             IF invoice'.hodl THEN MinExpiry(invoice', payload) ELSE 0
                 ELSE /\ call'[LinkOf[h]].at = "notify"
                      /\ call'[LinkOf[h]].todo = AlsoResolved(invoice', res)
              /\ call' = [call EXCEPT ![LinkOf[h]] = call'[LinkOf[h]]]
  <1> DEFINE l == LinkOf[h]
             u == updateInvoice(invoice, payload, h, height)
             held == [Idle EXCEPT !.at = "subscribe", !.htlc = h, !.res = u.res,
                        !.expiry = IF u.invoice.hodl THEN MinExpiry(u.invoice, payload)
                                                     ELSE 0]
             notifying == Notifying(u.res, AlsoResolved(u.invoice, u.res))
             told == [notifying EXCEPT !.htlc = h]
  <1>1. l \in Link /\ l \in Caller
    BY InvoiceRegistryAssumption DEF Caller
  <1>2. Updates(invoice, h, u.invoice, u.res) /\ u.res \in HtlcResolution
    <2>1. payload \in PayloadType /\ Good(invoice) /\ Value \in Nat
      BY InvoiceRegistryAssumption DEF TypeInv
    <2> HIDE DEF u
    <2>2. Updates(invoice, h, u.invoice, u.res)
      BY <2>1, InvoiceUpdates DEF u
    <2> QED
      BY <2>2 DEF Updates
  <1>3. /\ invoice' = u.invoice
        /\ call' = [call EXCEPT ![l] = IF u.res.kind = "hold" THEN held ELSE told]
    BY DEF NotifyExitHopHtlc
  <1>4. MinExpiry(u.invoice, payload) \in Nat
    BY MinExpiryNat DEF TypeInv
  <1>5. AlsoResolved(u.invoice, u.res) \in SUBSET ResolutionType
    BY ResolutionTypes DEF AlsoResolved
  <1> HIDE DEF u
  <1>6. /\ held \in CallType /\ held.at = "subscribe" /\ held.htlc = h
        /\ held.res = u.res /\ held.todo = {}
        /\ held.expiry = IF u.invoice.hodl THEN MinExpiry(u.invoice, payload) ELSE 0
    BY <1>2, <1>4 DEF Idle, CallType
  <1>7. /\ notifying \in CallType /\ notifying.at = "notify"
        /\ notifying.res = u.res /\ notifying.todo = AlsoResolved(u.invoice, u.res)
    BY <1>2, <1>5, CallTypes DEF Notifying, Idle
  <1> HIDE DEF held, notifying
  <1>8. /\ told \in CallType /\ told.at = "notify" /\ told.htlc = h
        /\ told.res = u.res /\ told.todo = AlsoResolved(u.invoice, u.res)
    BY <1>7 DEF CallType
  <1> HIDE DEF told
  <1>9. call'[l] = IF u.res.kind = "hold" THEN held ELSE told
    BY <1>1, <1>3 DEF TypeInv
  <1> HIDE DEF l
  <1> QED
    BY <1>2, <1>3, <1>6, <1>8, <1>9 DEF l


\* What is true of an HTLC remains true, unless it is recorded now.
LEMMA TruthKept ==
    ASSUME Good(invoice), NEW S, Moves(invoice, invoice', S)
    PROVE  /\ \A r \in ResolutionType : TrueRes(r) => TrueRes(r)'
           /\ \A h \in Htlc : invoice.htlcs[h] = "Settled" => invoice'.htlcs[h] = "Settled"
           /\ \A h \in Htlc : Gone(h) => Gone(h)'
           /\ \A h \in Htlc : h \notin S /\ (invoice.htlcs[h] = "None" \/ Gone(h))
                                => invoice'.htlcs[h] = "None" \/ Gone(h)'
  <1>1. \A h \in Htlc : Gone(h) => Gone(h)'
    BY DEF Moves, Gone
  <1> QED
    BY <1>1 DEF Moves, TrueRes, ResolutionType

\* The parts of the invariant.
LEMMA InvFacts ==
    ASSUME Inv
    PROVE  /\ Link \subseteq Caller /\ {"rpc", "loop", "watcher"} \subseteq Caller
           /\ \A l \in Link : l \notin {"rpc", "loop", "watcher"}
           /\ None \notin Caller /\ Caller = Link \cup {"rpc", "loop", "watcher"}
           /\ \A h \in Htlc : LinkOf[h] \in Link
           /\ TypeInv /\ CallInv /\ SubsOk /\ Good(invoice)
           /\ \A l \in Link : LinkOk(l) /\ LinkCallOk(l)
           /\ \A h \in Htlc : AnswerOk(h)
           /\ \A p \in {"rpc", "loop", "watcher"} : OtherCallOk(p)
           /\ call \in [Caller -> CallType] /\ link \in [Link -> LinkType]
           /\ registry \in RegistryType
           /\ \A p \in Caller : \A r \in call[p].todo : TrueRes(r) /\ r \in ResolutionType
  <1>1. \A p \in Caller : call[p].todo \in SUBSET ResolutionType
    BY DEF Inv, TypeInv, CallType
  <1> QED
    BY <1>1, InvoiceRegistryAssumption DEF Caller, Inv, CallInv, TypeInv

\* A link asks the registry for an HTLC.
LEMMA NotifyExitHopStep ==
    ASSUME Inv, NEW h \in Htlc, NotifyExitHopHtlc(h)
    PROVE  Inv'
  <1> DEFINE l == LinkOf[h]
  <1>0. /\ l \in Link /\ l \in Caller /\ Link \subseteq Caller
        /\ l \notin {"rpc", "loop", "watcher"}
        /\ \A k \in Htlc : LinkOf[k] \in Link
        /\ TypeInv /\ CallInv /\ SubsOk
        /\ \A k \in Link : LinkOk(k) /\ LinkCallOk(k)
        /\ \A k \in Htlc : AnswerOk(k)
        /\ call \in [Caller -> CallType] /\ link \in [Link -> LinkType]
        /\ registry \in RegistryType
    BY InvoiceRegistryAssumption DEF Caller, Inv, CallInv, TypeInv
  <1>1. PICK res \in HtlcResolution :
              /\ Updates(invoice, h, invoice', res)
              /\ call'[l] \in CallType
              /\ call'[l].htlc = h /\ call'[l].res = res
              /\ IF res.kind = "hold"
                 THEN call'[l].at = "subscribe" /\ call'[l].todo = {}
                 ELSE /\ call'[l].at = "notify"
                      /\ call'[l].todo = AlsoResolved(invoice', res)
              /\ call' = [call EXCEPT ![l] = call'[l]]
    BY <1>0, NotifyExitHopEffect
  <1>2. /\ Moves(invoice, invoice', {h}) /\ Good(invoice') /\ Good(invoice)
        /\ res.kind = "settle" => invoice'.htlcs[h] = "Settled"
        /\ res.kind = "fail" => invoice' = invoice /\ invoice.htlcs[h] \in {"None", "Canceled"}
    BY <1>0, <1>1 DEF Updates, Moves, TypeInv
  <1>3. /\ call[l].at = "idle" /\ registry.lock = None /\ h \notin link[l].asked
        /\ h \notin link[l].committed
        /\ UNCHANGED <<payload, answer, revealed, height, flaps>>
        /\ link' = [link EXCEPT ![l].asked = @ \cup {h}]
        /\ registry' = [registry EXCEPT !.lock = l]
    BY <1>0 DEF NotifyExitHopHtlc, Locked
  <1>4. /\ call' \in [Caller -> CallType]
        /\ \A p \in Caller : p # l => call'[p] = call[p]
    BY <1>0, <1>1
  <1>5. /\ link' \in [Link -> LinkType]
        /\ \A k \in Link : k # l => link'[k] = link[k]
        /\ link'[l].asked = link[l].asked \cup {h}
        /\ link'[l].hodlMap = link[l].hodlMap
        /\ link'[l].hodlQueue = link[l].hodlQueue
        /\ link'[l].committed = link[l].committed
        /\ link'[l].incarnation = link[l].incarnation
    <2>1. /\ link'[l] = [link[l] EXCEPT !.asked = @ \cup {h}]
          /\ \A k \in Link : k # l => link'[k] = link[k]
          /\ link' = [link EXCEPT ![l] = link'[l]]
      BY <1>0, <1>3
    <2>2. link[l] \in LinkType
      BY <1>0
    <2>3. /\ link'[l] \in LinkType
          /\ link'[l].asked = link[l].asked \cup {h}
          /\ link'[l].hodlMap = link[l].hodlMap
          /\ link'[l].hodlQueue = link[l].hodlQueue
          /\ link'[l].committed = link[l].committed
          /\ link'[l].incarnation = link[l].incarnation
      BY <2>1, <2>2 DEF LinkType
    <2> QED
      BY <1>0, <2>1, <2>3
  <1>6. registry' \in RegistryType /\ registry'.lock = l /\ registry'.subs = registry.subs
    BY <1>0, <1>3 DEF RegistryType
  <1>7. Good(invoice)'
    BY <1>2, <1>3 DEF Good, PaidUp
  <1>8. TypeInv'
    BY <1>0, <1>3, <1>4, <1>5, <1>6, <1>7 DEF TypeInv
  <1> HIDE DEF l
  <1>9. /\ \A r \in ResolutionType : TrueRes(r) => TrueRes(r)'
        /\ \A k \in Htlc : invoice.htlcs[k] = "Settled" => invoice'.htlcs[k] = "Settled"
        /\ \A k \in Htlc \ {h} : invoice.htlcs[k] = "None" \/ Gone(k)
                                => invoice'.htlcs[k] = "None" \/ Gone(k)'
    BY <1>2, TruthKept
  <1>10. \A k \in Link : QueueOf(k)' = QueueOf(k)
    BY <1>5 DEF QueueOf
  <1>11. /\ \A k \in Link, g \in Htlc : Holds(k, g) => Holds(k, g)'
         /\ \A k \in Link, g \in Htlc : Subscribed(k, g)' <=> Subscribed(k, g)
         /\ \A k \in Link, g \in Htlc : Queued(k, g)' <=> Queued(k, g)
    <2>1. ASSUME NEW k \in Link, NEW g \in Htlc, Holds(k, g) PROVE Holds(k, g)'
      <3>1. CASE k = l
        BY <1>3, <1>5, <2>1, <3>1 DEF Holds, Holding
      <3>2. CASE k # l
        BY <1>0, <1>4, <1>5, <2>1, <3>2 DEF Holds
      <3> QED
        BY <3>1, <3>2
    <2>2. \A k \in Link, g \in Htlc : Subscribed(k, g)' <=> Subscribed(k, g)
      BY <1>6, <1>10 DEF Subscribed
    <2>3. \A k \in Link, g \in Htlc : Queued(k, g)' <=> Queued(k, g)
      BY <1>5 DEF Queued
    <2> QED
      BY <2>1, <2>2, <2>3
  <1>12. ASSUME NEW k \in Link PROVE LinkOk(k)'
    <2>1. LinkOk(k)
      BY <1>0
    <2>2. \A r \in link[k].hodlQueue : r \in ResolutionType /\ r.htlc \in Htlc
      BY <1>0 DEF LinkType, ResolutionType
    <2>3. /\ \A g \in link'[k].asked \cup link'[k].committed : LinkOf[g] = k
          /\ link'[k].hodlMap \subseteq link'[k].asked
          /\ link'[k].hodlQueue = link[k].hodlQueue
          /\ link[k].asked \subseteq link'[k].asked
      BY <1>5, <2>1 DEF LinkOk, l
    <2> QED
      BY <1>9, <1>11, <2>1, <2>2, <2>3 DEF LinkOk
  <1>13. ASSUME NEW k \in Link PROVE LinkCallOk(k)'
    <2>1. CASE k = l
      <3>1. h \notin link'[l].hodlMap /\ ~ Subscribed(l, h)' /\ ~ Queued(l, h)'
        BY <1>0, <1>3, <1>5, <1>11 DEF LinkOk, Queued
      <3>2. call'[l].at \in {"subscribe", "notify"}
        BY <1>1
      <3>3. res.kind = "fail" => invoice'.htlcs[h] = "None" \/ Gone(h)'
        BY <1>2 DEF Gone
      <3>4. res.kind = "hold" <=> call'[l].at = "subscribe"
        BY <1>1
      <3>5. res.kind \in {"hold", "settle", "fail"}
        BY <1>1 DEF HtlcResolution
      <3> QED
        BY <1>1, <1>2, <1>5, <1>6, <2>1, <3>1, <3>2, <3>3, <3>4, <3>5
        DEF LinkCallOk, Holding, l
    <2>2. CASE k # l
      <3>1. LinkCallOk(k) /\ call'[k] = call[k] /\ link'[k] = link[k]
        BY <1>0, <1>4, <1>5, <2>2
      <3>2. call[k].at \notin {"notify", "subscribe"}
        BY <1>0, <1>3, <3>1, InvoiceRegistryAssumption DEF LinkCallOk
      <3> QED
        BY <3>1, <3>2 DEF LinkCallOk, Holding
    <2> QED
      BY <2>1, <2>2
  <1>14. \A p \in Caller : \A r \in call'[p].todo : TrueRes(r)'
    <2>1. ASSUME NEW p \in Caller, p # l, NEW r \in call'[p].todo PROVE TrueRes(r)'
      <3>1. r \in call[p].todo /\ TrueRes(r) /\ r \in ResolutionType
        BY <1>0, <1>4, <2>1 DEF CallInv, CallType
      <3> QED
        BY <1>9, <3>1
    <2>2. ASSUME NEW r \in call'[l].todo PROVE TrueRes(r)'
      <3>1. r \in AlsoResolved(invoice', res)
        BY <1>1, <2>2
      <3> QED
        BY <3>1 DEF AlsoResolved, Resolution, HTLCSet, TrueRes, Gone
    <2> QED
      BY <2>1, <2>2
  <1>15. ASSUME NEW p \in {"rpc", "loop", "watcher"} PROVE OtherCallOk(p)'
    <2>1. OtherCallOk(p) /\ call'[p] = call[p]
      BY <1>0, <1>4 DEF CallInv, Caller
    <2>2. invoice.state \in {"Canceled", "Deleted"} => invoice'.state \in {"Canceled", "Deleted"}
      BY <1>2 DEF Moves
    <2>3. call[p].at = "notify" => p = "loop"
      BY <1>3, <2>1, InvoiceRegistryAssumption DEF OtherCallOk
    <2> QED
      BY <2>1, <2>2, <2>3 DEF OtherCallOk
  <1>16. SubsOk'
    BY <1>0, <1>5, <1>6 DEF SubsOk, RegistryType
  <1>17. ASSUME NEW k \in Htlc PROVE AnswerOk(k)'
    <2>1. AnswerOk(k)
      BY <1>0
    <2>2. answer[k] = "fail" => k # h
      BY <1>3, <2>1 DEF AnswerOk, l
    <2>3. link[LinkOf[k]].asked \cup link[LinkOf[k]].committed
            \subseteq link'[LinkOf[k]].asked \cup link'[LinkOf[k]].committed
      BY <1>0, <1>5
    <2> QED
      BY <1>3, <1>9, <2>1, <2>2, <2>3 DEF AnswerOk
  <1> QED
    BY <1>8, <1>12, <1>13, <1>14, <1>15, <1>16, <1>17 DEF Inv, CallInv

\* A step of a goroutine other than the links': no link changes.
LEMMA OtherFrame ==
    ASSUME Inv, NEW p \in {"rpc", "loop", "watcher"},
           Moves(invoice, invoice', {}), height' \in Nat,
           UNCHANGED <<payload, answer, revealed, link, flaps>>,
           registry' \in RegistryType, registry'.subs = registry.subs,
           \/ registry'.lock = registry.lock
           \/ {registry.lock, registry'.lock} \subseteq {None, p},
           call'[p] \in CallType, call' = [call EXCEPT ![p] = call'[p]],
           OtherCallOk(p)', \A r \in call'[p].todo : TrueRes(r)'
    PROVE  Inv'
  <1>0. /\ \A k \in Link : LinkOk(k) /\ LinkCallOk(k) /\ k # p /\ k \in Caller
        /\ \A q \in {"rpc", "loop", "watcher"} : OtherCallOk(q) /\ q \in Caller
        /\ \A h \in Htlc : AnswerOk(h)
        /\ call \in [Caller -> CallType] /\ link \in [Link -> LinkType]
        /\ None \notin Caller
        /\ TypeInv /\ SubsOk /\ Good(invoice)
        /\ \A q \in Caller : \A r \in call[q].todo : TrueRes(r) /\ r \in ResolutionType
    BY InvFacts
  <1>1. /\ call' \in [Caller -> CallType]
        /\ \A q \in Caller : q # p => call'[q] = call[q]
    BY <1>0
  <1>2. Good(invoice)'
    BY DEF Moves, Good, PaidUp
  <1>3. TypeInv'
    BY <1>0, <1>1, <1>2 DEF TypeInv
  <1>4. /\ \A r \in ResolutionType : TrueRes(r) => TrueRes(r)'
        /\ \A h \in Htlc : invoice.htlcs[h] = "Settled" => invoice'.htlcs[h] = "Settled"
        /\ \A h \in Htlc : invoice.htlcs[h] = "None" \/ Gone(h)
                               => invoice'.htlcs[h] = "None" \/ Gone(h)'
    BY <1>0, TruthKept
  <1>5. /\ \A k \in Link, h \in Htlc : Subscribed(k, h)' <=> Subscribed(k, h)
        /\ \A k \in Link, h \in Htlc : Queued(k, h)' <=> Queued(k, h)
        /\ \A k \in Link, h \in Htlc : Holds(k, h)' <=> Holds(k, h)
    <2>1. \A k \in Link : QueueOf(k)' = QueueOf(k) /\ call'[k] = call[k]
      BY <1>0, <1>1 DEF QueueOf
    <2> QED
      BY <2>1 DEF Subscribed, Queued, Holds
  <1>6. ASSUME NEW k \in Link PROVE LinkOk(k)'
    <2>1. LinkOk(k)
      BY <1>0
    <2>2. \A r \in link[k].hodlQueue : r \in ResolutionType /\ r.htlc \in Htlc
      BY <1>0 DEF LinkType, ResolutionType
    <2> QED
      BY <1>4, <1>5, <2>1, <2>2 DEF LinkOk
  <1>7. ASSUME NEW k \in Link PROVE LinkCallOk(k)'
    <2>1. LinkCallOk(k) /\ call'[k] = call[k] /\ k # p /\ k # None
      BY <1>0, <1>1
    <2>2. registry.lock = k => registry'.lock = k
      BY <2>1
    <2> QED
      BY <1>4, <1>5, <2>1, <2>2 DEF LinkCallOk, Holding
  <1>8. ASSUME NEW q \in {"rpc", "loop", "watcher"} PROVE OtherCallOk(q)'
    <2>1. CASE q # p
      <3>1. OtherCallOk(q) /\ call'[q] = call[q] /\ q # None
        BY <1>0, <1>1, <2>1
      <3>2. registry.lock = q => registry'.lock = q
        BY <2>1, <3>1
      <3>3. invoice.state \in {"Canceled", "Deleted"}
                => invoice'.state \in {"Canceled", "Deleted"}
        BY DEF Moves
      <3> QED
        BY <3>1, <3>2, <3>3 DEF OtherCallOk
    <2> QED
      BY <2>1
  <1>9. \A q \in Caller : \A r \in call'[q].todo : TrueRes(r)'
    BY <1>0, <1>1, <1>4
  <1>10. SubsOk'
    BY <1>0 DEF SubsOk
  <1>11. ASSUME NEW h \in Htlc PROVE AnswerOk(h)'
    <2>1. AnswerOk(h)
      BY <1>0
    <2> QED
      BY <1>4, <2>1 DEF AnswerOk
  <1> QED
    BY <1>3, <1>6, <1>7, <1>8, <1>9, <1>10, <1>11 DEF Inv, CallInv

\* A step of one link: the invoice and the other links stay.
LEMMA LinkFrame ==
    ASSUME Inv, NEW l \in Link,
           UNCHANGED <<payload, invoice, height>>, flaps' \in Nat,
           answer' \in [Htlc -> Answer], revealed' \in SUBSET Htlc,
           link'[l] \in LinkType, link' = [link EXCEPT ![l] = link'[l]],
           registry' \in RegistryType,
           \A k \in Link \ {l}, h \in Htlc : Subscribed(k, h)' <=> Subscribed(k, h),
           \/ registry'.lock = registry.lock
           \/ registry.lock = l /\ registry'.lock = None,
           call'[l] \in CallType, call' = [call EXCEPT ![l] = call'[l]],
           \A r \in call'[l].todo : TrueRes(r)',
           LinkOk(l)', LinkCallOk(l)', SubsOk', \A h \in Htlc : AnswerOk(h)'
    PROVE  Inv'
  <1>0. /\ \A k \in Link : LinkOk(k) /\ LinkCallOk(k) /\ k \in Caller
        /\ \A q \in {"rpc", "loop", "watcher"} : OtherCallOk(q) /\ q \in Caller /\ q # l
        /\ call \in [Caller -> CallType] /\ link \in [Link -> LinkType]
        /\ None \notin Caller
        /\ TypeInv /\ Good(invoice)
        /\ \A q \in Caller : \A r \in call[q].todo : TrueRes(r)
    BY InvFacts
  <1>1. /\ call' \in [Caller -> CallType] /\ link' \in [Link -> LinkType]
        /\ \A q \in Caller : q # l => call'[q] = call[q]
        /\ \A k \in Link : k # l => link'[k] = link[k]
    BY <1>0
  <1>2. TypeInv'
    BY <1>0, <1>1 DEF TypeInv, Good, PaidUp
  <1>3. \A r : TrueRes(r)' <=> TrueRes(r)
    BY DEF TrueRes, Gone
  <1>4. ASSUME NEW k \in Link, k # l PROVE LinkOk(k)' /\ LinkCallOk(k)'
    <2>1. /\ LinkOk(k) /\ LinkCallOk(k) /\ call'[k] = call[k] /\ link'[k] = link[k]
          /\ k # None
      BY <1>0, <1>1, <1>4
    <2>2. \A h \in Htlc : Subscribed(k, h)' <=> Subscribed(k, h)
      BY <1>4
    <2>3. /\ \A h \in Htlc : Queued(k, h)' <=> Queued(k, h)
          /\ \A h : Holds(k, h)' <=> Holds(k, h)
      BY <2>1 DEF Queued, Holds
    <2>4. LinkOk(k)'
      BY <1>3, <2>1, <2>2, <2>3 DEF LinkOk
    <2>5. registry.lock = k => registry'.lock = k
      BY <1>4, <2>1
    <2>6. LinkCallOk(k)'
      BY <2>1, <2>2, <2>3, <2>5 DEF LinkCallOk, Holding, Gone
    <2> QED
      BY <2>4, <2>6
  <1>5. ASSUME NEW q \in {"rpc", "loop", "watcher"} PROVE OtherCallOk(q)'
    <2>1. OtherCallOk(q) /\ call'[q] = call[q] /\ q # l /\ q # None
      BY <1>0, <1>1
    <2>2. registry.lock = q => registry'.lock = q
      BY <2>1
    <2> QED
      BY <2>1, <2>2 DEF OtherCallOk
  <1>6. \A q \in Caller : \A r \in call'[q].todo : TrueRes(r)'
    BY <1>0, <1>1, <1>3
  <1> QED
    BY <1>2, <1>4, <1>5, <1>6 DEF Inv, CallInv

\* The link subscribes to the HTLC and lets the lock go.
LEMMA SubscribeStep ==
    ASSUME Inv, NEW l \in Link, hodlSubscribe(l)
    PROVE  Inv'
  <1> DEFINE h == call[l].htlc
             at == AfterSubscribe(call[l].res, invoice.state)
  <1>0. /\ LinkOk(l) /\ LinkCallOk(l) /\ SubsOk /\ TypeInv
        /\ \A k \in Htlc : AnswerOk(k)
        /\ l \in Caller
        /\ call \in [Caller -> CallType] /\ link \in [Link -> LinkType]
        /\ registry \in RegistryType
    BY InvFacts
  <1>1. /\ call[l].at = "subscribe" /\ registry.lock = l
        /\ UNCHANGED <<payload, invoice, answer, revealed, link, height, flaps>>
        /\ registry' = [registry EXCEPT !.subs = @ \cup {<<h, QueueOf(l)>>}, !.lock = None]
        /\ call' = [call EXCEPT ![l].at = at]
    BY <1>0 DEF hodlSubscribe, At, Step, LinkCallOk
  <1>2. /\ h \in Htlc /\ LinkOf[h] = l /\ h \in link[l].asked
        /\ h \notin link[l].hodlMap /\ ~ Queued(l, h) /\ call[l].todo = {}
        /\ call[l].res \in HtlcResolution
    BY <1>0, <1>1 DEF LinkCallOk
  <1>3. QueueOf(l) = <<l, link[l].incarnation>> /\ link[l].incarnation \in Nat
    BY <1>0 DEF QueueOf, LinkType
  <1> DEFINE sub == <<h, QueueOf(l)>>
  <1>4. sub \in Htlc \X (Link \X Nat)
    BY <1>2, <1>3
  <1>5. sub[1] = h /\ sub[2] = QueueOf(l)
    OBVIOUS
  <1>6. registry' = [registry EXCEPT !.subs = @ \cup {sub}, !.lock = None]
    BY <1>1
  <1> HIDE DEF sub
  <1>7. /\ registry' \in RegistryType /\ registry'.lock = None
        /\ registry'.subs = registry.subs \cup {sub}
    BY <1>0, <1>4, <1>6 DEF RegistryType
  <1>8. at \in Holding
    BY DEF AfterSubscribe, Holding
  <1>9. /\ call'[l] \in CallType
        /\ call' = [call EXCEPT ![l] = call'[l]]
        /\ call'[l].at = at /\ call'[l].htlc = h /\ call'[l].todo = {}
        /\ call'[l].res = call[l].res
    <2>1. call'[l] = [call[l] EXCEPT !.at = at]
      BY <1>0, <1>1
    <2> QED
      BY <1>0, <1>1, <1>2, <1>8, <2>1 DEF CallType, Holding
  <1> HIDE DEF h, at
  <1>10. /\ \A k \in Link, g \in Htlc :
               Subscribed(k, g)' <=> Subscribed(k, g) \/ (k = l /\ g = h)
         /\ \A g \in Htlc : Queued(l, g)' <=> Queued(l, g)
         /\ \A g \in Htlc : Holds(l, g)' <=> g \in link[l].hodlMap \/ g = h
    <2>1. \A k \in Link : QueueOf(k)' = QueueOf(k) /\ (QueueOf(k) = QueueOf(l) <=> k = l)
      BY <1>1 DEF QueueOf
    <2>2. \A k \in Link, g \in Htlc :
               Subscribed(k, g)' <=> Subscribed(k, g) \/ (k = l /\ g = h)
      BY <1>7, <2>1 DEF Subscribed, sub
    <2>3. \A g \in Htlc : Queued(l, g)' <=> Queued(l, g)
      BY <1>1 DEF Queued
    <2>4. \A g \in Htlc : Holds(l, g)' <=> g \in link[l].hodlMap \/ g = h
      BY <1>1, <1>8, <1>9 DEF Holds
    <2> QED
      BY <2>2, <2>3, <2>4
  <1>11. \A r : TrueRes(r)' <=> TrueRes(r)
    BY <1>1 DEF TrueRes, Gone
  <1>12. \A g \in Htlc : Holds(l, g) => g \in link[l].hodlMap
    BY <1>1 DEF Holds, Holding
  <1>13. LinkOk(l)'
    <2>1. \A r \in link[l].hodlQueue : r.htlc \in Htlc
      BY <1>0 DEF LinkType, ResolutionType
    <2>2. link' = link
      BY <1>1
    <2>3. \A r \in link[l].hodlQueue :
               TrueRes(r)' /\ Holds(l, r.htlc)' /\ r.htlc \in link[l].asked
      BY <1>0, <1>10, <1>11, <1>12, <2>1 DEF LinkOk
    <2>4. ASSUME NEW g \in Htlc, Subscribed(l, g)'
          PROVE  g \in link[l].asked /\ Holds(l, g)' /\ ~ Queued(l, g)'
      <3>1. CASE g = h
        BY <1>2, <1>10, <3>1
      <3>2. CASE g # h
        BY <1>0, <1>10, <1>12, <2>4, <3>2 DEF LinkOk
      <3> QED
        BY <3>1, <3>2
    <2> QED
      BY <1>0, <2>2, <2>3, <2>4 DEF LinkOk
  <1>14. LinkCallOk(l)'
    BY <1>1, <1>2, <1>8, <1>9 DEF LinkCallOk, Holding
  <1>15. SubsOk'
    BY <1>0, <1>1, <1>2, <1>3, <1>5, <1>7 DEF SubsOk
  <1>16. \A k \in Htlc : AnswerOk(k)'
    BY <1>0, <1>1 DEF AnswerOk, Gone
  <1>17. /\ answer' \in [Htlc -> Answer] /\ revealed' \in SUBSET Htlc /\ flaps' \in Nat
         /\ link'[l] \in LinkType /\ link' = [link EXCEPT ![l] = link'[l]]
    BY <1>0, <1>1 DEF TypeInv
  <1>18. \A k \in Link \ {l}, g \in Htlc : Subscribed(k, g)' <=> Subscribed(k, g)
    BY <1>10
  <1>19. \A r \in call'[l].todo : TrueRes(r)'
    BY <1>9
  <1> QED
    BY <1>1, <1>7, <1>9, <1>13, <1>14, <1>15, <1>16, <1>17, <1>18, <1>19, LinkFrame

\* A goroutine at rest.
LEMMA IdleFields ==
    Idle.at = "idle" /\ Idle.todo = {} /\ Idle \in CallType
  BY CallTypes DEF Idle

\* The HTLC is put on hold, after the watcher or the event loop was told of it.
LEMMA HoldStep ==
    ASSUME Inv, NEW l \in Link, RegisterExpiry(l) \/ startHtlcTimer(l) \/ JustHold(l)
    PROVE  Inv'
  <1> DEFINE h == call[l].htlc
  <1>0. /\ LinkOk(l) /\ LinkCallOk(l) /\ SubsOk /\ TypeInv
        /\ \A k \in Htlc : AnswerOk(k)
        /\ l \in Caller
        /\ call \in [Caller -> CallType] /\ link \in [Link -> LinkType]
        /\ registry \in RegistryType
    BY InvFacts
  <1>1. /\ call[l].at \in Holding
        /\ UNCHANGED <<payload, invoice, answer, revealed, height, flaps>>
        /\ link' = [link EXCEPT ![l].hodlMap = @ \cup {h}]
        /\ call' = [call EXCEPT ![l] = Idle]
    BY DEF RegisterExpiry, startHtlcTimer, JustHold, Hold, At, Holding
  <1>2. h \in Htlc /\ h \in link[l].asked
    BY <1>0, <1>1 DEF LinkCallOk, Holding
  <1>3. /\ registry' \in RegistryType /\ registry'.lock = registry.lock
        /\ registry'.subs = registry.subs
    <2>1. CASE RegisterExpiry(l)
      <3>1. call[l].expiry \in Nat
        BY <1>0 DEF CallType
      <3>2. registry' = [registry EXCEPT !.heights = @ \cup ({call[l].expiry} \ {0})]
        BY <2>1 DEF RegisterExpiry
      <3> QED
        BY <1>0, <3>1, <3>2 DEF RegistryType
    <2>2. CASE startHtlcTimer(l)
      <3>1. registry' = [registry EXCEPT !.timers[h] = @ + 1]
        BY <2>2 DEF startHtlcTimer
      <3> HIDE DEF h
      <3> QED
        BY <1>0, <1>2, <3>1 DEF RegistryType
    <2>3. CASE JustHold(l)
      BY <1>0, <2>3 DEF JustHold
    <2> QED
      BY <2>1, <2>2, <2>3
  <1> HIDE DEF h
  <1>4. /\ call'[l] = Idle /\ call' = [call EXCEPT ![l] = call'[l]]
        /\ call'[l] \in CallType
    BY <1>0, <1>1, IdleFields
  <1>5. /\ link'[l] = [link[l] EXCEPT !.hodlMap = @ \cup {h}]
        /\ link' = [link EXCEPT ![l] = link'[l]]
    BY <1>0, <1>1
  <1>6. /\ link'[l] \in LinkType /\ link'[l].hodlMap = link[l].hodlMap \cup {h}
        /\ link'[l].asked = link[l].asked /\ link'[l].committed = link[l].committed
        /\ link'[l].hodlQueue = link[l].hodlQueue
        /\ \A k \in Link : /\ link'[k].incarnation = link[k].incarnation
                           /\ link'[k].asked = link[k].asked
                           /\ link'[k].committed = link[k].committed
    BY <1>0, <1>1, <1>2, <1>5 DEF LinkType
  <1>7. /\ \A k \in Link, g \in Htlc : Subscribed(k, g)' <=> Subscribed(k, g)
        /\ \A g \in Htlc : Queued(l, g)' <=> Queued(l, g)
        /\ \A g \in Htlc : Holds(l, g)' <=> Holds(l, g)
    <2>1. \A k \in Link : QueueOf(k)' = QueueOf(k)
      BY <1>6 DEF QueueOf
    <2>2. \A k \in Link, g \in Htlc : Subscribed(k, g)' <=> Subscribed(k, g)
      BY <1>3, <2>1 DEF Subscribed
    <2>3. \A g \in Htlc : Queued(l, g)' <=> Queued(l, g)
      BY <1>6 DEF Queued
    <2>4. \A g \in Htlc : Holds(l, g)' <=> Holds(l, g)
      BY <1>1, <1>4, <1>6, IdleFields DEF Holds, Holding, h
    <2> QED
      BY <2>2, <2>3, <2>4
  <1>8. \A r : TrueRes(r)' <=> TrueRes(r)
    BY <1>1 DEF TrueRes, Gone
  <1>9. LinkOk(l)'
    <2>1. \A r \in link[l].hodlQueue : r.htlc \in Htlc
      BY <1>0 DEF LinkType, ResolutionType
    <2> QED
      BY <1>0, <1>2, <1>6, <1>7, <1>8, <2>1 DEF LinkOk
  <1>10. LinkCallOk(l)'
    BY <1>4, IdleFields DEF LinkCallOk, Holding
  <1>11. SubsOk'
    <2>1. \A s \in registry.subs : s[2][1] \in Link
      BY <1>0 DEF RegistryType
    <2> QED
      BY <1>0, <1>3, <1>6, <2>1 DEF SubsOk
  <1>12. \A k \in Htlc : AnswerOk(k)'
    BY <1>0, <1>1, <1>6, InvFacts DEF AnswerOk, Gone
  <1>13. /\ answer' \in [Htlc -> Answer] /\ revealed' \in SUBSET Htlc /\ flaps' \in Nat
         /\ \A k \in Link \ {l}, g \in Htlc : Subscribed(k, g)' <=> Subscribed(k, g)
    BY <1>0, <1>1, <1>7 DEF TypeInv
  <1>14. \A r \in call'[l].todo : TrueRes(r)'
    BY <1>4, IdleFields
  <1> QED
    BY <1>1, <1>3, <1>4, <1>5, <1>6, <1>9, <1>10, <1>11, <1>12, <1>13, <1>14, LinkFrame

\* The link gets an answer for an HTLC it holds.
LEMMA QueueStep ==
    ASSUME Inv, NEW l \in Link, processHodlQueue(l)
    PROVE  Inv'
  <1>0. /\ LinkOk(l) /\ LinkCallOk(l) /\ SubsOk /\ TypeInv
        /\ \A k \in Htlc : AnswerOk(k)
        /\ l \in Caller
        /\ call \in [Caller -> CallType] /\ link \in [Link -> LinkType]
        /\ registry \in RegistryType
        /\ answer \in [Htlc -> Answer] /\ revealed \in SUBSET Htlc
    BY InvFacts DEF TypeInv
  <1>1. PICK r \in link[l].hodlQueue :
        /\ link' = [link EXCEPT ![l].hodlQueue = @ \ {r}, ![l].hodlMap = @ \ {r.htlc}]
        /\ Reply(r.htlc, r.kind)
    BY DEF processHodlQueue
  <1> DEFINE h == r.htlc
  <1>2. /\ call[l].at = "idle"
        /\ UNCHANGED <<payload, invoice, registry, call, height, flaps>>
    BY DEF processHodlQueue, At
  <1>3. r \in ResolutionType /\ h \in Htlc /\ r.kind \in {"settle", "fail"}
    BY <1>0 DEF LinkType, ResolutionType
  <1>4. TrueRes(r) /\ h \in link[l].asked /\ LinkOf[h] = l
    BY <1>0 DEF LinkOk
  <1>5. /\ answer' = [answer EXCEPT ![h] = r.kind]
        /\ revealed' = IF r.kind = "settle" THEN revealed \cup {h} ELSE revealed
    BY <1>1 DEF Reply
  <1>6. /\ link'[l] = [link[l] EXCEPT !.hodlQueue = @ \ {r}, !.hodlMap = @ \ {h}]
        /\ link' = [link EXCEPT ![l] = link'[l]]
    BY <1>0, <1>1
  <1> HIDE DEF h
  <1>7. /\ link'[l] \in LinkType /\ link'[l].hodlMap = link[l].hodlMap \ {h}
        /\ link'[l].hodlQueue = link[l].hodlQueue \ {r}
        /\ link'[l].asked = link[l].asked /\ link'[l].committed = link[l].committed
        /\ \A k \in Link : /\ link'[k].incarnation = link[k].incarnation
                           /\ link'[k].asked = link[k].asked
                           /\ link'[k].committed = link[k].committed
    <2>1. link[l] \in LinkType
      BY <1>0
    <2>2. /\ link'[l] \in LinkType /\ link'[l].hodlMap = link[l].hodlMap \ {h}
          /\ link'[l].hodlQueue = link[l].hodlQueue \ {r}
          /\ link'[l].asked = link[l].asked /\ link'[l].committed = link[l].committed
          /\ link'[l].incarnation = link[l].incarnation
      <3> DEFINE queue == link[l].hodlQueue \ {r}
                 map == link[l].hodlMap \ {h}
      <3>1. link'[l] = [link[l] EXCEPT !.hodlQueue = queue, !.hodlMap = map]
        BY <1>6
      <3>2. queue \in SUBSET ResolutionType /\ map \in SUBSET Htlc
        BY <2>1 DEF LinkType
      <3> HIDE DEF queue, map
      <3>3. link'[l] \in LinkType
        BY <2>1, <3>1, <3>2 DEF LinkType
      <3>4. /\ link'[l].hodlMap = map /\ link'[l].hodlQueue = queue
            /\ link'[l].asked = link[l].asked /\ link'[l].committed = link[l].committed
            /\ link'[l].incarnation = link[l].incarnation
        BY <2>1, <3>1 DEF LinkType
      <3> QED
        BY <3>3, <3>4 DEF queue, map
    <2>3. \A k \in Link : k # l => link'[k] = link[k]
      BY <1>0, <1>6
    <2> QED
      BY <2>2, <2>3
  <1>8. /\ \A k \in Link, g \in Htlc : Subscribed(k, g)' <=> Subscribed(k, g)
        /\ \A g \in Htlc : Queued(l, g)' => Queued(l, g)
        /\ \A g \in Htlc \ {h} : Holds(l, g) => Holds(l, g)'
    <2>1. \A k \in Link : QueueOf(k)' = QueueOf(k)
      BY <1>7 DEF QueueOf
    <2>2. \A k \in Link, g \in Htlc : Subscribed(k, g)' <=> Subscribed(k, g)
      BY <1>2, <2>1 DEF Subscribed
    <2>3. \A g \in Htlc : Queued(l, g)' => Queued(l, g)
      BY <1>7 DEF Queued
    <2>4. \A g \in Htlc \ {h} : Holds(l, g) => Holds(l, g)'
      BY <1>2, <1>7 DEF Holds, Holding
    <2> QED
      BY <2>2, <2>3, <2>4
  <1>9. \A q : TrueRes(q)' <=> TrueRes(q)
    BY <1>2 DEF TrueRes, Gone
  <1>10. Queued(l, h)
    BY DEF Queued, h
  <1>11. LinkOk(l)'
    <2>1. \A q \in link[l].hodlQueue : q.htlc \in Htlc
      BY <1>0 DEF LinkType, ResolutionType
    <2>2. \A q \in link[l].hodlQueue : q # r => q.htlc # h
      BY <1>0 DEF LinkOk, h
    <2>3. \A q \in link'[l].hodlQueue :
               TrueRes(q)' /\ Holds(l, q.htlc)' /\ q.htlc \in link'[l].asked
      BY <1>0, <1>7, <1>8, <1>9, <2>1, <2>2 DEF LinkOk
    <2>4. ASSUME NEW g \in Htlc, Subscribed(l, g)'
          PROVE  g \in link'[l].asked /\ Holds(l, g)' /\ ~ Queued(l, g)'
      <3>1. g \in link[l].asked /\ Holds(l, g) /\ ~ Queued(l, g)
        BY <1>0, <1>8, <2>4 DEF LinkOk
      <3> QED
        BY <1>7, <1>8, <1>10, <3>1
    <2>5. /\ \A g \in link'[l].asked \cup link'[l].committed : LinkOf[g] = l
          /\ link'[l].hodlMap \subseteq link'[l].asked
          /\ \A r1, r2 \in link'[l].hodlQueue : r1.htlc = r2.htlc => r1 = r2
      BY <1>0, <1>7 DEF LinkOk
    <2> QED
      BY <2>3, <2>4, <2>5 DEF LinkOk
  <1>12. LinkCallOk(l)'
    BY <1>0, <1>2 DEF LinkCallOk, Holding
  <1>13. SubsOk'
    <2>1. \A s \in registry.subs : s[2][1] \in Link
      BY <1>0 DEF RegistryType
    <2> QED
      BY <1>0, <1>2, <1>7, <2>1 DEF SubsOk
  <1>14. ASSUME NEW g \in Htlc PROVE AnswerOk(g)'
    <2>1. AnswerOk(g) /\ LinkOf[g] \in Link
      BY <1>0, InvFacts
    <2>2. CASE g # h
      BY <1>0, <1>2, <1>5, <1>7, <2>1, <2>2 DEF AnswerOk, Gone
    <2>3. CASE g = h
      <3>1. answer'[h] = r.kind
        BY <1>0, <1>3, <1>5
      <3>2. r.kind = "settle" => invoice.htlcs[h] = "Settled"
        BY <1>4 DEF TrueRes, h
      <3>3. r.kind = "fail" => Gone(h)
        BY <1>4 DEF TrueRes, h
      <3>4. h \in revealed' => invoice.htlcs[h] = "Settled"
        BY <1>5, <2>1, <2>3, <3>2 DEF AnswerOk
      <3> QED
        BY <1>2, <1>4, <1>7, <2>3, <3>1, <3>2, <3>3, <3>4 DEF AnswerOk, Gone
    <2> QED
      BY <2>2, <2>3
  <1>15. /\ answer' \in [Htlc -> Answer] /\ revealed' \in SUBSET Htlc
         /\ height' = height /\ flaps' \in Nat
    BY <1>0, <1>2, <1>3, <1>5 DEF TypeInv, Answer
  <1>16. /\ \A k \in Link \ {l}, g \in Htlc : Subscribed(k, g)' <=> Subscribed(k, g)
         /\ registry' \in RegistryType /\ registry'.lock = registry.lock
         /\ call'[l] \in CallType /\ call' = [call EXCEPT ![l] = call'[l]]
         /\ \A q \in call'[l].todo : TrueRes(q)'
    BY <1>0, <1>2, <1>8 DEF LinkCallOk
  <1> QED
    BY <1>2, <1>6, <1>7, <1>11, <1>12, <1>13, <1>14, <1>15, <1>16, LinkFrame

\* The channel commits to an answer, or the link begins to stop.
LEMMA CommitStopStep ==
    ASSUME Inv, NEW l \in Link,
           \/ \E h \in Htlc : LinkOf[h] = l /\ Commit(h)
           \/ HodlUnsubscribeAll(l) \/ StopQueue(l)
    PROVE  Inv'
  <1>0. /\ LinkOk(l) /\ LinkCallOk(l) /\ SubsOk /\ TypeInv
        /\ \A k \in Htlc : AnswerOk(k)
        /\ l \in Caller
        /\ call \in [Caller -> CallType] /\ link \in [Link -> LinkType]
        /\ registry \in RegistryType
    BY InvFacts
  <1>1. /\ UNCHANGED <<payload, invoice, answer, revealed, call, height>>
        /\ flaps' \in Nat
        /\ link' = [link EXCEPT ![l] = link'[l]] /\ link'[l] \in LinkType
        /\ link'[l].incarnation = link[l].incarnation
        /\ link'[l].hodlMap = link[l].hodlMap /\ link'[l].hodlQueue = link[l].hodlQueue
        /\ link'[l].asked = link[l].asked
        /\ link[l].committed \subseteq link'[l].committed
        /\ \A g \in link'[l].committed \ link[l].committed : LinkOf[g] = l
    <2>1. flaps \in Nat /\ link[l] \in LinkType
      BY <1>0 DEF TypeInv
    <2>2. ASSUME NEW h \in Htlc, LinkOf[h] = l, Commit(h)
          PROVE  /\ link'[l] = [link[l] EXCEPT !.committed = @ \cup {h}]
                 /\ link' = [link EXCEPT ![l] = link'[l]]
      BY <1>0, <2>2 DEF Commit
    <2>3. ASSUME HodlUnsubscribeAll(l)
          PROVE  /\ link'[l] = [link[l] EXCEPT !.stopping = "unsubscribed"]
                 /\ link' = [link EXCEPT ![l] = link'[l]]
      BY <1>0, <2>3 DEF HodlUnsubscribeAll
    <2>4. ASSUME StopQueue(l)
          PROVE  /\ link'[l] = [link[l] EXCEPT !.stopping = "queue"]
                 /\ link' = [link EXCEPT ![l] = link'[l]]
      BY <1>0, <2>4 DEF StopQueue
    <2>5. CASE \E h \in Htlc : LinkOf[h] = l /\ Commit(h)
      <3>1. PICK h \in Htlc : LinkOf[h] = l /\ Commit(h)
        BY <2>5
      <3>2. /\ link'[l] = [link[l] EXCEPT !.committed = @ \cup {h}]
            /\ link' = [link EXCEPT ![l] = link'[l]]
        BY <2>2, <3>1
      <3>3. UNCHANGED <<payload, invoice, answer, revealed, call, height, flaps>>
        BY <3>1 DEF Commit
      <3> QED
        BY <2>1, <3>1, <3>2, <3>3 DEF LinkType
    <2>6. CASE HodlUnsubscribeAll(l)
      BY <2>1, <2>3, <2>6 DEF HodlUnsubscribeAll, LinkType
    <2>7. CASE StopQueue(l)
      BY <2>1, <2>4, <2>7 DEF StopQueue, LinkType
    <2> QED
      BY <2>5, <2>6, <2>7
  <1>2. /\ registry' \in RegistryType /\ registry'.lock = registry.lock
        /\ registry'.subs \subseteq registry.subs
        /\ \A s \in registry.subs : s[2] # QueueOf(l) => s \in registry'.subs
    <2>1. CASE HodlUnsubscribeAll(l)
      <3>1. registry' = [registry EXCEPT !.subs = {s \in @ : s[2] # QueueOf(l)}]
        BY <2>1 DEF HodlUnsubscribeAll
      <3> QED
        BY <1>0, <3>1 DEF RegistryType
    <2>2. CASE ~ HodlUnsubscribeAll(l)
      BY <1>0, <2>2 DEF Commit, StopQueue
    <2> QED
      BY <2>1, <2>2
  <1>3. \A k \in Link : /\ link'[k].incarnation = link[k].incarnation
                        /\ link'[k].asked = link[k].asked
                        /\ link[k].committed \subseteq link'[k].committed
    BY <1>0, <1>1
  <1>4. /\ \A k \in Link \ {l}, g \in Htlc : Subscribed(k, g)' <=> Subscribed(k, g)
        /\ \A g \in Htlc : Subscribed(l, g)' => Subscribed(l, g)
        /\ \A g \in Htlc : Queued(l, g)' <=> Queued(l, g)
        /\ \A g \in Htlc : Holds(l, g)' <=> Holds(l, g)
    <2>1. \A k \in Link : QueueOf(k)' = QueueOf(k) /\ (k # l => QueueOf(k) # QueueOf(l))
      BY <1>3 DEF QueueOf
    <2>2. \A g \in Htlc : Subscribed(l, g)' => Subscribed(l, g)
      BY <1>2, <2>1 DEF Subscribed
    <2>3. ASSUME NEW k \in Link \ {l}, NEW g \in Htlc
          PROVE  Subscribed(k, g)' <=> Subscribed(k, g)
      <3> DEFINE sub == <<g, QueueOf(k)>>
      <3>1. sub[2] # QueueOf(l)
        BY <2>1
      <3>2. Subscribed(k, g)' <=> sub \in registry'.subs
        BY <2>1 DEF Subscribed
      <3>3. Subscribed(k, g) <=> sub \in registry.subs
        BY DEF Subscribed
      <3> HIDE DEF sub
      <3> QED
        BY <1>2, <3>1, <3>2, <3>3
    <2>4. \A g \in Htlc : Queued(l, g)' <=> Queued(l, g)
      BY <1>1 DEF Queued
    <2>5. \A g \in Htlc : Holds(l, g)' <=> Holds(l, g)
      BY <1>1 DEF Holds
    <2> QED
      BY <2>2, <2>3, <2>4, <2>5
  <1>5. \A r : TrueRes(r)' <=> TrueRes(r)
    BY <1>1 DEF TrueRes, Gone
  <1>6. LinkOk(l)'
    <2>1. \A r \in link[l].hodlQueue : r.htlc \in Htlc
      BY <1>0 DEF LinkType, ResolutionType
    <2>2. \A g \in link'[l].asked \cup link'[l].committed : LinkOf[g] = l
      BY <1>0, <1>1 DEF LinkOk
    <2> QED
      BY <1>0, <1>1, <1>4, <1>5, <2>1, <2>2 DEF LinkOk
  <1>7. LinkCallOk(l)'
    BY <1>0, <1>1, <1>2, <1>4 DEF LinkCallOk, Holding, Gone
  <1>8. SubsOk'
    <2>1. \A s \in registry.subs : s[2][1] \in Link
      BY <1>0 DEF RegistryType
    <2> QED
      BY <1>0, <1>2, <1>3, <2>1 DEF SubsOk
  <1>9. \A g \in Htlc : AnswerOk(g)'
    BY <1>0, <1>1, <1>3, InvFacts DEF AnswerOk, Gone
  <1>10. /\ answer' \in [Htlc -> Answer] /\ revealed' \in SUBSET Htlc
         /\ call'[l] \in CallType /\ call' = [call EXCEPT ![l] = call'[l]]
         /\ \A r \in call'[l].todo : TrueRes(r)'
    BY <1>0, <1>1, <1>5, InvFacts DEF TypeInv
  <1> QED
    BY <1>1, <1>2, <1>4, <1>6, <1>7, <1>8, <1>9, <1>10, LinkFrame

\* A link that comes back knows what the channel committed to.
LEMMA RestartLinkStep ==
    ASSUME Inv, NEW l \in Link, RestartLink(l)
    PROVE  Inv'
  <1> DEFINE n == link[l].incarnation
             old == link[l].committed
  <1>0. /\ LinkOk(l) /\ LinkCallOk(l) /\ SubsOk /\ TypeInv
        /\ \A k \in Htlc : AnswerOk(k) /\ LinkOf[k] \in Link
        /\ l \in Caller
        /\ call \in [Caller -> CallType] /\ link \in [Link -> LinkType]
        /\ registry \in RegistryType
        /\ answer \in [Htlc -> Answer] /\ revealed \in SUBSET Htlc
    BY InvFacts DEF TypeInv
  <1>1. /\ call[l].at = "idle" /\ answer' = Forget(l)
        /\ UNCHANGED <<payload, invoice, revealed, registry, call, height, flaps>>
        /\ link' = [link EXCEPT ![l] = [NewLink(n + 1) EXCEPT !.committed = old]]
    BY <1>0 DEF RestartLink, At
  <1>2. n \in Nat /\ old \in SUBSET Htlc
    BY <1>0 DEF LinkType
  <1>3. /\ link'[l] = [NewLink(n + 1) EXCEPT !.committed = old]
        /\ link' = [link EXCEPT ![l] = link'[l]]
        /\ link'[l] \in LinkType
    <2>1. link'[l] = [NewLink(n + 1) EXCEPT !.committed = old]
      BY <1>0, <1>1
    <2>2. [NewLink(n + 1) EXCEPT !.committed = old] \in LinkType
      BY <1>0, <1>2, StartTypes DEF TypeInv
    <2> QED
      BY <1>1, <2>1, <2>2
  <1>4. /\ link'[l].incarnation = n + 1 /\ link'[l].hodlMap = {} /\ link'[l].hodlQueue = {}
        /\ link'[l].asked = {} /\ link'[l].committed = old
    BY <1>3 DEF NewLink
  <1>5. \A k \in Link : k # l => link'[k] = link[k]
    BY <1>0, <1>3
  <1>6. \A k \in Link \ {l}, g \in Htlc : Subscribed(k, g)' <=> Subscribed(k, g)
    BY <1>1, <1>5 DEF Subscribed, QueueOf
  <1>7. SubsOk'
    <2>1. ASSUME NEW s \in registry'.subs
          PROVE  s[2][1] = LinkOf[s[1]] /\ s[2][2] <= link'[s[2][1]].incarnation
      <3>1. /\ s \in registry.subs /\ s[2][1] \in Link /\ s[2][2] \in Nat
            /\ s[2][1] = LinkOf[s[1]]
            /\ s[2][2] <= link[s[2][1]].incarnation
        BY <1>0, <1>1, <2>1 DEF SubsOk, RegistryType
      <3>2. CASE s[2][1] = l
        BY <1>2, <1>4, <3>1, <3>2
      <3>3. CASE s[2][1] # l
        BY <1>5, <3>1, <3>3
      <3> QED
        BY <3>1, <3>2, <3>3
    <2> QED
      BY <2>1 DEF SubsOk
  <1>8. LinkOk(l)'
    <2>1. ASSUME NEW g \in Htlc PROVE ~ Subscribed(l, g)'
      <3> DEFINE sub == <<g, <<l, n + 1>>>>
      <3>1. Subscribed(l, g)' <=> sub \in registry.subs
        BY <1>1, <1>4 DEF Subscribed, QueueOf
      <3>2. sub[2][1] = l /\ sub[2][2] = n + 1
        OBVIOUS
      <3> HIDE DEF sub
      <3> QED
        BY <1>0, <1>2, <3>1, <3>2 DEF SubsOk
    <2> QED
      BY <1>0, <1>4, <2>1 DEF LinkOk
  <1>9. LinkCallOk(l)'
    BY <1>0, <1>1 DEF LinkCallOk, Holding
  <1>10. ASSUME NEW g \in Htlc PROVE AnswerOk(g)' /\ answer'[g] \in Answer
    <2>1. AnswerOk(g) /\ LinkOf[g] \in Link
      BY <1>0
    <2>2. answer'[g] = IF LinkOf[g] = l /\ g \notin old THEN "none" ELSE answer[g]
      BY <1>1 DEF Forget
    <2> QED
      BY <1>0, <1>1, <1>4, <1>5, <2>1, <2>2 DEF AnswerOk, Gone, Answer
  <1>11. answer' \in [Htlc -> Answer]
    BY <1>1, <1>10 DEF Forget
  <1>12. /\ revealed' \in SUBSET Htlc /\ flaps' \in Nat
         /\ registry' \in RegistryType /\ registry'.lock = registry.lock
         /\ call'[l] \in CallType /\ call' = [call EXCEPT ![l] = call'[l]]
         /\ \A r \in call'[l].todo : TrueRes(r)'
    BY <1>0, <1>1 DEF TypeInv, LinkCallOk
  <1> QED
    BY <1>1, <1>3, <1>6, <1>7, <1>8, <1>9, <1>10, <1>11, <1>12, LinkFrame

\* The resolution of an HTLC reaches the link it came in on, or nobody; or the
\* notification is stuck.
LEMMA NotifyStep ==
    ASSUME Inv, NEW p \in Caller, notifyHodlSubscribers(p)
    PROVE  Inv'
  <1>0. /\ \A k \in Link : LinkOk(k) /\ LinkCallOk(k) /\ k \in Caller
        /\ \A q \in {"rpc", "loop", "watcher"} : OtherCallOk(q) /\ q \in Caller
        /\ \A h \in Htlc : AnswerOk(h) /\ LinkOf[h] \in Link
        /\ call \in [Caller -> CallType] /\ link \in [Link -> LinkType]
        /\ registry \in RegistryType
        /\ TypeInv /\ SubsOk /\ Good(invoice)
        /\ \A q \in Caller : \A r \in call[q].todo : TrueRes(r) /\ r \in ResolutionType
    BY InvFacts
  <1>1. /\ call[p].at = "notify"
        /\ UNCHANGED <<payload, invoice, answer, revealed, height, flaps>>
    BY DEF notifyHodlSubscribers, At
  <1>2. \A r : TrueRes(r)' <=> TrueRes(r)
    BY <1>1 DEF TrueRes, Gone
  <1>3. CASE registry' = [registry EXCEPT !.mux = "stuck"] /\ UNCHANGED <<link, call>>
    <2>1. /\ registry' \in RegistryType /\ registry'.subs = registry.subs
          /\ registry'.lock = registry.lock
      BY <1>0, <1>3 DEF RegistryType
    <2>2. OtherCallOk("rpc")' /\ \A r \in call'["rpc"].todo : TrueRes(r)'
      BY <1>0, <1>1, <1>2, <1>3, <2>1 DEF OtherCallOk
    <2>3. Moves(invoice, invoice', {})
      BY <1>0, <1>1, SameMoves
    <2>4. /\ call'["rpc"] \in CallType
          /\ call' = [call EXCEPT !["rpc"] = call'["rpc"]] /\ height' \in Nat
      BY <1>0, <1>1, <1>3 DEF TypeInv
    <2> QED
      BY <1>1, <1>3, <2>1, <2>2, <2>3, <2>4, OtherFrame
  <1>4. CASE ~ (registry' = [registry EXCEPT !.mux = "stuck"] /\ UNCHANGED <<link, call>>)
    <2> DEFINE queues(r) == {s[2] : s \in {t \in registry.subs : t[1] = r.htlc}}
    <2>1. PICK r \in call[p].todo :
              /\ link' = [l \in Link |->
                    IF QueueOf(l) \in queues(r)
                    THEN [link[l] EXCEPT !.hodlQueue = @ \cup {r}] ELSE link[l]]
              /\ registry' = [registry EXCEPT !.subs = {s \in @ : s[1] # r.htlc}]
              /\ call' = [call EXCEPT ![p].todo = @ \ {r}]
      BY <1>4 DEF notifyHodlSubscribers
    <2>2. r \in ResolutionType /\ TrueRes(r) /\ r.htlc \in Htlc
      BY <1>0 DEF ResolutionType
    <2>3. \A l \in Link : QueueOf(l) \in queues(r) <=> Subscribed(l, r.htlc)
      <3>1. ASSUME NEW l \in Link, QueueOf(l) \in queues(r) PROVE Subscribed(l, r.htlc)
        <4>1. PICK s \in registry.subs : s[1] = r.htlc /\ s[2] = QueueOf(l)
          BY <3>1
        <4>2. s = <<r.htlc, QueueOf(l)>>
          BY <1>0, <4>1 DEF RegistryType
        <4> QED
          BY <4>2 DEF Subscribed
      <3>2. ASSUME NEW l \in Link, Subscribed(l, r.htlc) PROVE QueueOf(l) \in queues(r)
        <4> DEFINE sub == <<r.htlc, QueueOf(l)>>
        <4>1. sub \in registry.subs /\ sub[1] = r.htlc /\ sub[2] = QueueOf(l)
          BY <3>2 DEF Subscribed
        <4> HIDE DEF sub
        <4> QED
          BY <4>1
      <3> QED
        BY <3>1, <3>2
    <2> HIDE DEF queues
    <2>4. ASSUME NEW l \in Link
          PROVE  /\ link'[l] \in LinkType
                 /\ link'[l].incarnation = link[l].incarnation
                 /\ link'[l].hodlMap = link[l].hodlMap
                 /\ link'[l].asked = link[l].asked
                 /\ link'[l].committed = link[l].committed
                 /\ link'[l].hodlQueue = IF Subscribed(l, r.htlc)
                                         THEN link[l].hodlQueue \cup {r}
                                         ELSE link[l].hodlQueue
      <3>1. link'[l] = IF Subscribed(l, r.htlc)
                       THEN [link[l] EXCEPT !.hodlQueue = @ \cup {r}] ELSE link[l]
        BY <2>1, <2>3
      <3>2. link[l] \in LinkType
        BY <1>0
      <3> QED
        BY <2>2, <3>1, <3>2 DEF LinkType
    <2>5. link' \in [Link -> LinkType]
      BY <2>1, <2>4
    <2>6. /\ registry' \in RegistryType /\ registry'.lock = registry.lock
          /\ registry'.subs = {s \in registry.subs : s[1] # r.htlc}
      BY <1>0, <2>1 DEF RegistryType
    <2>7. /\ call' \in [Caller -> CallType]
          /\ \A q \in Caller : q # p => call'[q] = call[q]
          /\ call'[p].todo = call[p].todo \ {r}
          /\ \A q \in Caller : /\ call'[q].at = call[q].at
                               /\ call'[q].htlc = call[q].htlc
                               /\ call'[q].res = call[q].res
                               /\ call'[q].todo \subseteq call[q].todo
      <3>1. call'[p] = [call[p] EXCEPT !.todo = @ \ {r}]
        BY <1>0, <2>1
      <3>2. /\ call'[p] \in CallType /\ call'[p].at = call[p].at
            /\ call'[p].htlc = call[p].htlc /\ call'[p].res = call[p].res
            /\ call'[p].todo = call[p].todo \ {r}
        BY <1>0, <3>1 DEF CallType
      <3>3. \A q \in Caller : q # p => call'[q] = call[q]
        BY <1>0, <2>1
      <3>4. call' \in [Caller -> CallType]
        BY <1>0, <2>1, <3>1, <3>2
      <3> QED
        BY <3>2, <3>3, <3>4
    <2>8. TypeInv'
      BY <1>0, <1>1, <2>5, <2>6, <2>7 DEF TypeInv, Good, PaidUp
    <2>9. /\ \A l \in Link, h \in Htlc :
                 Subscribed(l, h)' <=> Subscribed(l, h) /\ h # r.htlc
          /\ \A l \in Link, h \in Htlc :
                 Queued(l, h)' <=> \/ Queued(l, h)
                                   \/ h = r.htlc /\ Subscribed(l, h)
          /\ \A l \in Link, h \in Htlc : Holds(l, h)' <=> Holds(l, h)
      <3>1. \A l \in Link : QueueOf(l)' = QueueOf(l)
        BY <2>4 DEF QueueOf
      <3>2. \A l \in Link, h \in Htlc :
                 Subscribed(l, h)' <=> Subscribed(l, h) /\ h # r.htlc
        <4>1. ASSUME NEW l \in Link, NEW h \in Htlc
              PROVE  Subscribed(l, h)' <=> Subscribed(l, h) /\ h # r.htlc
          <5> DEFINE sub == <<h, QueueOf(l)>>
          <5>1. Subscribed(l, h)' <=> sub \in registry'.subs
            BY <3>1 DEF Subscribed
          <5>2. Subscribed(l, h) <=> sub \in registry.subs
            BY DEF Subscribed
          <5>3. sub[1] = h
            OBVIOUS
          <5> HIDE DEF sub
          <5> QED
            BY <2>6, <5>1, <5>2, <5>3
        <4> QED
          BY <4>1
      <3>3. \A l \in Link, h \in Htlc :
                 Queued(l, h)' <=> Queued(l, h) \/ (h = r.htlc /\ Subscribed(l, h))
        BY <2>4 DEF Queued
      <3>4. \A l \in Link, h \in Htlc : Holds(l, h)' <=> Holds(l, h)
        BY <1>0, <2>4, <2>7 DEF Holds
      <3> QED
        BY <3>2, <3>3, <3>4
    <2>10. ASSUME NEW l \in Link PROVE LinkOk(l)'
      <3>1. LinkOk(l)
        BY <1>0
      <3>2. \A q \in link[l].hodlQueue : q.htlc \in Htlc
        BY <1>0 DEF LinkType, ResolutionType
      <3>3. CASE Subscribed(l, r.htlc)
        <4>1. /\ r.htlc \in link[l].asked /\ Holds(l, r.htlc)
              /\ \A q \in link[l].hodlQueue : q.htlc # r.htlc
          BY <2>2, <3>1, <3>3 DEF LinkOk, Queued
        <4>2. link'[l].hodlQueue = link[l].hodlQueue \cup {r}
          BY <2>4, <3>3
        <4>3. \A q \in link'[l].hodlQueue :
                  TrueRes(q)' /\ Holds(l, q.htlc)' /\ q.htlc \in link'[l].asked
          BY <1>2, <2>2, <2>4, <2>9, <3>1, <3>2, <4>1, <4>2 DEF LinkOk
        <4>4. \A r1, r2 \in link'[l].hodlQueue : r1.htlc = r2.htlc => r1 = r2
          BY <3>1, <4>1, <4>2 DEF LinkOk
        <4>5. \A h \in Htlc : Subscribed(l, h)' =>
                  h \in link'[l].asked /\ Holds(l, h)' /\ ~ Queued(l, h)'
          BY <2>4, <2>9, <3>1 DEF LinkOk
        <4> QED
          BY <2>4, <3>1, <4>3, <4>4, <4>5 DEF LinkOk
      <3>4. CASE ~ Subscribed(l, r.htlc)
        <4>1. link'[l].hodlQueue = link[l].hodlQueue
          BY <2>4, <3>4
        <4> QED
          BY <1>2, <2>4, <2>9, <3>1, <3>2, <4>1 DEF LinkOk
      <3> QED
        BY <3>3, <3>4
    <2>11. ASSUME NEW l \in Link PROVE LinkCallOk(l)'
      <3>1. LinkCallOk(l) /\ l \in Caller
        BY <1>0
      <3>2. call[l].at # "notify" => call'[l] = call[l]
        BY <1>1, <2>7, <3>1
      <3>3. call[l].at = "subscribe" =>
                ~ Subscribed(l, call[l].htlc)' /\ ~ Queued(l, call[l].htlc)'
        <4>1. SUFFICES ASSUME call[l].at = "subscribe"
                       PROVE  ~ Subscribed(l, call[l].htlc)' /\ ~ Queued(l, call[l].htlc)'
          BY <2>7, <3>1
        <4>2. /\ call[l].htlc \in Htlc /\ call'[l].htlc = call[l].htlc
              /\ ~ Subscribed(l, call[l].htlc) /\ ~ Queued(l, call[l].htlc)
          BY <2>7, <3>1, <4>1 DEF LinkCallOk
        <4> DEFINE h == call[l].htlc
        <4>3. h \in Htlc /\ ~ Subscribed(l, h) /\ ~ Queued(l, h) /\ h' = h
          BY <4>2
        <4>4. /\ Subscribed(l, call[l].htlc)' <=> <<h', QueueOf(l)'>> \in registry'.subs
              /\ \A g \in Htlc : Subscribed(l, g)' <=> <<g, QueueOf(l)'>> \in registry'.subs
              /\ Queued(l, call[l].htlc)' <=> \E x \in link'[l].hodlQueue : x.htlc = h'
              /\ \A g \in Htlc : Queued(l, g)' <=> \E x \in link'[l].hodlQueue : x.htlc = g
          BY DEF Subscribed, Queued
        <4> HIDE DEF h
        <4> QED
          BY <2>9, <4>3, <4>4
      <3> QED
        BY <1>1, <2>4, <2>6, <2>7, <3>1, <3>2, <3>3 DEF LinkCallOk, Holding, Gone
    <2>12. ASSUME NEW q \in {"rpc", "loop", "watcher"} PROVE OtherCallOk(q)'
      <3>1. OtherCallOk(q) /\ q \in Caller
        BY <1>0
      <3> QED
        BY <1>1, <2>6, <2>7, <3>1 DEF OtherCallOk
    <2>13. \A q \in Caller : \A x \in call'[q].todo : TrueRes(x)'
      BY <1>0, <1>2, <2>7
    <2>14. SubsOk'
      <3>1. \A s \in registry.subs : s[2][1] \in Link
        BY <1>0 DEF RegistryType
      <3> QED
        BY <1>0, <2>4, <2>6, <3>1 DEF SubsOk
    <2>15. \A h \in Htlc : AnswerOk(h)'
      BY <1>0, <1>1, <2>4 DEF AnswerOk, Gone
    <2> QED
      BY <2>8, <2>10, <2>11, <2>12, <2>13, <2>14, <2>15 DEF Inv, CallInv
  <1> QED
    BY <1>3, <1>4

\* The link answers; an RPC or the watcher may delete the canceled invoice.
LEMMA FinishStep ==
    ASSUME Inv, NEW p \in Caller, FinishNotify(p)
    PROVE  Inv'
  <1>0. /\ \A k \in Link : LinkOk(k) /\ LinkCallOk(k) /\ k \in Caller
        /\ \A q \in {"rpc", "loop", "watcher"} : OtherCallOk(q) /\ q \in Caller
        /\ Caller = Link \cup {"rpc", "loop", "watcher"}
        /\ \A h \in Htlc : AnswerOk(h) /\ LinkOf[h] \in Link
        /\ call \in [Caller -> CallType] /\ link \in [Link -> LinkType]
        /\ registry \in RegistryType
        /\ TypeInv /\ SubsOk /\ Good(invoice)
        /\ answer \in [Htlc -> Answer] /\ revealed \in SUBSET Htlc
    BY InvFacts DEF TypeInv
  <1>1. /\ call[p].at = "notify" /\ call' = [call EXCEPT ![p] = Idle]
        /\ registry' = [registry EXCEPT !.lock = IF @ = p THEN None ELSE @]
        /\ UNCHANGED <<payload, link, height, flaps>>
    BY DEF FinishNotify, At
  <1>2. /\ registry' \in RegistryType /\ registry'.subs = registry.subs
        /\ \/ registry'.lock = registry.lock
           \/ registry.lock = p /\ registry'.lock = None
    BY <1>0, <1>1 DEF RegistryType
  <1>3. /\ call'[p] = Idle /\ call' = [call EXCEPT ![p] = call'[p]]
        /\ call'[p] \in CallType
        /\ \A r \in call'[p].todo : TrueRes(r)'
    BY <1>0, <1>1, IdleFields
  <1>4. CASE p \in Link
    <2> DEFINE h == call[p].htlc
               kind == call[p].res.kind
    <2>1. UNCHANGED invoice /\ Reply(h, kind)
      BY <1>4 DEF FinishNotify
    <2>2. /\ h \in Htlc /\ LinkOf[h] = p /\ h \in link[p].asked
          /\ kind \in {"settle", "fail"}
          /\ kind = "settle" => invoice.htlcs[h] = "Settled"
          /\ kind = "fail" => invoice.htlcs[h] = "None" \/ Gone(h)
      BY <1>0, <1>1, <1>4 DEF LinkCallOk
    <2> HIDE DEF h, kind
    <2>3. /\ answer' = [answer EXCEPT ![h] = kind]
          /\ revealed' = IF kind = "settle" THEN revealed \cup {h} ELSE revealed
      BY <2>1 DEF Reply
    <2>4. answer' \in [Htlc -> Answer] /\ revealed' \in SUBSET Htlc
      BY <1>0, <2>2, <2>3 DEF Answer
    <2>5. ASSUME NEW g \in Htlc PROVE AnswerOk(g)'
      <3>1. AnswerOk(g)
        BY <1>0
      <3>2. CASE g # h
        BY <1>0, <1>1, <2>1, <2>3, <3>1, <3>2 DEF AnswerOk, Gone
      <3>3. CASE g = h
        <4>1. answer'[h] = kind /\ (h \in revealed' => invoice.htlcs[h] = "Settled")
          BY <1>0, <2>2, <2>3, <3>1, <3>3 DEF AnswerOk
        <4> QED
          BY <1>1, <2>1, <2>2, <3>3, <4>1 DEF AnswerOk, Gone
      <3> QED
        BY <3>2, <3>3
    <2>6. /\ \A k \in Link, g \in Htlc : Subscribed(k, g)' <=> Subscribed(k, g)
          /\ \A g \in Htlc : Queued(p, g)' <=> Queued(p, g)
          /\ \A g \in Htlc : Holds(p, g)' <=> Holds(p, g)
      <3>1. \A k \in Link : QueueOf(k)' = QueueOf(k)
        BY <1>1 DEF QueueOf
      <3>2. \A g \in Htlc : Holds(p, g)' <=> Holds(p, g)
        BY <1>1, <1>3, IdleFields DEF Holds, Holding
      <3> QED
        BY <1>1, <1>2, <3>1, <3>2 DEF Subscribed, Queued
    <2>7. \A r : TrueRes(r)' <=> TrueRes(r)
      BY <2>1 DEF TrueRes, Gone
    <2>8. LinkOk(p)'
      <3>1. \A r \in link[p].hodlQueue : r.htlc \in Htlc
        BY <1>0, <1>4 DEF LinkType, ResolutionType
      <3>2. LinkOk(p) /\ link' = link
        BY <1>0, <1>1, <1>4
      <3> QED
        <4>1. \A r \in link[p].hodlQueue :
                  TrueRes(r)' /\ Holds(p, r.htlc)' /\ r.htlc \in link[p].asked
          BY <2>6, <2>7, <3>1, <3>2 DEF LinkOk
        <4>2. \A g \in Htlc : Subscribed(p, g)' =>
                  g \in link[p].asked /\ Holds(p, g)' /\ ~ Queued(p, g)'
          <5>1. \A g \in Htlc : Subscribed(p, g) =>
                    g \in link[p].asked /\ Holds(p, g) /\ ~ Queued(p, g)
            BY <3>2 DEF LinkOk
          <5> QED
            BY <1>4, <2>6, <5>1
        <4> QED
          BY <3>2, <4>1, <4>2 DEF LinkOk
    <2>9. LinkCallOk(p)'
      BY <1>3, IdleFields DEF LinkCallOk, Holding
    <2>10. SubsOk'
      BY <1>0, <1>1, <1>2 DEF SubsOk
    <2>11. /\ flaps' \in Nat /\ link'[p] \in LinkType
           /\ link' = [link EXCEPT ![p] = link'[p]]
           /\ \A k \in Link \ {p}, g \in Htlc : Subscribed(k, g)' <=> Subscribed(k, g)
      BY <1>0, <1>1, <1>4, <2>6 DEF TypeInv
    <2> QED
      BY <1>1, <1>2, <1>3, <1>4, <2>1, <2>4, <2>5, <2>8, <2>9, <2>10, <2>11, LinkFrame
  <1>5. CASE p \in {"rpc", "loop", "watcher"}
    <2>1. p \notin Link /\ None # p
      BY <1>5, InvFacts
    <2>2. /\ UNCHANGED <<answer, revealed>>
          /\ invoice' = IF call[p].res = "cancel" /\ GcOnTheFly
                        THEN NoInvoice("Deleted") ELSE invoice
      BY <2>1 DEF FinishNotify
    <2>3. Moves(invoice, invoice', {})
      <3>1. CASE invoice' = invoice
        BY <1>0, <3>1, SameMoves
      <3>2. CASE call[p].res = "cancel" /\ invoice' = NoInvoice("Deleted")
        <4>1. invoice.state \in {"Canceled", "Deleted"}
          BY <1>0, <1>1, <1>5, <3>2 DEF OtherCallOk
        <4>2. /\ Good(invoice') /\ invoice'.state = "Deleted"
              /\ \A h \in Htlc : invoice'.htlcs[h] = "None"
          BY <3>2, NewInvoiceGood DEF Known
        <4>3. \A h \in Htlc : invoice.htlcs[h] # "Settled"
          BY <1>0, <4>1 DEF Good, Counted, Known, HTLCSet
        <4> QED
          BY <4>1, <4>2, <4>3 DEF Moves, Later
      <3> QED
        BY <2>2, <3>1, <3>2
    <2>4. OtherCallOk(p)' /\ height' \in Nat
      BY <1>0, <1>1, <1>3, IdleFields DEF OtherCallOk, TypeInv
    <2>5. \/ registry'.lock = registry.lock
          \/ {registry.lock, registry'.lock} \subseteq {None, p}
      BY <1>2
    <2> QED
      BY <1>1, <1>2, <1>3, <1>5, <2>2, <2>3, <2>4, <2>5, OtherFrame
  <1> QED
    BY <1>0, <1>4, <1>5

\* A goroutine that starts to tell the links of resolutions.
LEMMA NotifyingOk ==
    ASSUME Inv, NEW p \in {"rpc", "loop", "watcher"}, NEW res \in {"cancel", "settle", "release"},
           NEW kind \in {"settle", "fail"}, NEW S \in SUBSET Htlc,
           call' = [call EXCEPT ![p] = Notifying(res, Resolution(kind, S))],
           p # "loop" => registry'.lock = p,
           res = "cancel" => invoice'.state = "Canceled",
           kind = "settle" => \A h \in S : invoice'.htlcs[h] = "Settled",
           kind = "fail" => \A h \in S : invoice'.htlcs[h] = "Canceled"
    PROVE  /\ call'[p] \in CallType /\ call' = [call EXCEPT ![p] = call'[p]]
           /\ OtherCallOk(p)' /\ \A r \in call'[p].todo : TrueRes(r)'
  <1> DEFINE todo == Resolution(kind, S)
  <1>1. todo \in SUBSET ResolutionType
    BY ResolutionTypes
  <1>2. \A r \in todo : TrueRes(r)'
    BY DEF Resolution, TrueRes, Gone
  <1> HIDE DEF todo
  <1>3. /\ Notifying(res, todo) \in CallType /\ Notifying(res, todo).at = "notify"
        /\ Notifying(res, todo).todo = todo /\ Notifying(res, todo).res = res
    BY <1>1, CallTypes DEF Notifying, Idle
  <1>4. call' = [call EXCEPT ![p] = Notifying(res, todo)]
    BY DEF todo
  <1>5. call'[p] = Notifying(res, todo)
    BY <1>4, InvFacts
  <1> QED
    BY <1>2, <1>3, <1>4, <1>5 DEF OtherCallOk

\* The event loop releases an HTLC.
LEMMA AutoReleaseStep ==
    ASSUME Inv, NEW h \in Htlc, AutoRelease(h)
    PROVE  Inv'
  <1>0. /\ registry \in RegistryType /\ Good(invoice) /\ TypeInv
        /\ OtherCallOk("loop") /\ "loop" \in Caller
        /\ call \in [Caller -> CallType]
        /\ \A q \in Caller : \A r \in call[q].todo : TrueRes(r)
    BY InvFacts
  <1>1. /\ UNCHANGED <<payload, answer, revealed, link, height, flaps>>
        /\ registry' = [registry EXCEPT !.timers[h] = @ - 1]
        /\ registry.timers[h] > 0
        /\ IF CanRelease(invoice, h)
           THEN /\ invoice' = cancelHTLC(invoice, h)
                /\ call' = [call EXCEPT !["loop"] =
                      Notifying("release", Resolution("fail", {h}))]
           ELSE UNCHANGED <<invoice, call>>
    BY DEF AutoRelease
  <1>2. /\ registry' \in RegistryType /\ registry'.subs = registry.subs
        /\ registry'.lock = registry.lock /\ height' \in Nat
    BY <1>0, <1>1 DEF RegistryType, TypeInv
  <1>3. CASE CanRelease(invoice, h)
    <2>1. /\ Moves(invoice, invoice', {})
          /\ invoice'.htlcs[h] = "Canceled"
      BY <1>0, <1>1, <1>3, ReleaseMoves
    <2> DEFINE S == {h}
    <2>2. /\ S \in SUBSET Htlc /\ \A k \in S : invoice'.htlcs[k] = "Canceled"
          /\ call' = [call EXCEPT !["loop"] = Notifying("release", Resolution("fail", S))]
      BY <1>1, <1>3, <2>1
    <2> HIDE DEF S
    <2>3. /\ call'["loop"] \in CallType /\ call' = [call EXCEPT !["loop"] = call'["loop"]]
          /\ OtherCallOk("loop")' /\ \A r \in call'["loop"].todo : TrueRes(r)'
      BY <2>2, NotifyingOk
    <2> QED
      BY <1>1, <1>2, <2>1, <2>3, OtherFrame
  <1>4. CASE ~ CanRelease(invoice, h)
    <2>1. UNCHANGED <<invoice, call>>
      BY <1>1, <1>4
    <2>2. OtherCallOk("loop")' /\ \A r \in call'["loop"].todo : TrueRes(r)'
      BY <1>0, <2>1 DEF OtherCallOk, TrueRes, Gone
    <2>3. call'["loop"] \in CallType /\ call' = [call EXCEPT !["loop"] = call'["loop"]]
      BY <1>0, <2>1
    <2> QED
      BY <1>0, <1>1, <1>2, <2>1, <2>2, <2>3, SameMoves, OtherFrame
  <1> QED
    BY <1>3, <1>4

\* The invoice is canceled, or it is too late for that.
LEMMA CancelStep ==
    ASSUME Inv, NEW p \in {"rpc", "watcher"}, NEW cancelAccepted \in BOOLEAN,
           NEW rest \in RegistryType, rest.lock = registry.lock, rest.subs = registry.subs,
           Cancelling(p, cancelAccepted, rest)
    PROVE  Inv'
  <1>0. /\ registry \in RegistryType /\ Good(invoice) /\ TypeInv
        /\ OtherCallOk(p) /\ p \in Caller
        /\ call \in [Caller -> CallType]
        /\ \A q \in Caller : \A r \in call[q].todo : TrueRes(r)
    BY InvFacts
  <1>1. /\ UNCHANGED <<payload, answer, revealed, link, height, flaps>>
        /\ registry.lock = None /\ call[p].at = "idle"
        /\ cancelInvoiceImpl(p, cancelAccepted)
        /\ registry' = [rest EXCEPT
                !.lock = IF CanCancel(invoice, cancelAccepted) THEN p ELSE @]
    BY DEF Cancelling, Locked
  <1>2. /\ registry' \in RegistryType /\ registry'.subs = registry.subs
        /\ registry'.lock = IF CanCancel(invoice, cancelAccepted) THEN p ELSE registry.lock
        /\ height' \in Nat
    BY <1>0, <1>1 DEF RegistryType, TypeInv
  <1>3. CASE CanCancel(invoice, cancelAccepted)
    <2> DEFINE S == HTLCSet(cancelInvoice(invoice), "Canceled")
    <2>1. /\ invoice' = cancelInvoice(invoice)
          /\ call' = [call EXCEPT ![p] = Notifying("cancel", Resolution("fail", S))]
      BY <1>1, <1>3 DEF cancelInvoiceImpl
    <2>2. invoice.state \in {"Open", "Accepted"}
      BY <1>3 DEF CanCancel
    <2>3. /\ Moves(invoice, invoice', {}) /\ invoice'.state = "Canceled"
      BY <1>0, <2>1, <2>2, CancelMoves
    <2>4. S \in SUBSET Htlc /\ \A h \in S : invoice'.htlcs[h] = "Canceled"
      BY <2>1 DEF HTLCSet
    <2> HIDE DEF S
    <2>5. /\ call'[p] \in CallType /\ call' = [call EXCEPT ![p] = call'[p]]
          /\ OtherCallOk(p)' /\ \A r \in call'[p].todo : TrueRes(r)'
      BY <1>2, <1>3, <2>1, <2>3, <2>4, NotifyingOk
    <2> QED
      BY <1>1, <1>2, <2>3, <2>5, OtherFrame
  <1>4. CASE ~ CanCancel(invoice, cancelAccepted)
    <2>1. UNCHANGED <<invoice, call>>
      BY <1>1, <1>4 DEF cancelInvoiceImpl
    <2>2. OtherCallOk(p)' /\ \A r \in call'[p].todo : TrueRes(r)'
      BY <1>0, <1>1, <2>1 DEF OtherCallOk, TrueRes, Gone
    <2>3. call'[p] \in CallType /\ call' = [call EXCEPT ![p] = call'[p]]
      BY <1>0, <2>1
    <2> QED
      BY <1>0, <1>1, <1>2, <1>4, <2>1, <2>2, <2>3, SameMoves, OtherFrame
  <1> QED
    BY <1>3, <1>4

\* The watcher finds the invoice expired.
LEMMA WatcherStep ==
    ASSUME Inv, Watcher
    PROVE  Inv'
  <1>0. registry \in RegistryType
    BY InvFacts
  <1>1. CASE cancelNextExpiredInvoice
    <2> DEFINE rest == [registry EXCEPT !.timestamp = FALSE]
    <2>1. rest \in RegistryType /\ rest.lock = registry.lock /\ rest.subs = registry.subs
      BY <1>0 DEF RegistryType
    <2>2. Cancelling("watcher", FALSE, rest)
      BY <1>1 DEF cancelNextExpiredInvoice
    <2> HIDE DEF rest
    <2> QED
      BY <2>1, <2>2, CancelStep
  <1>2. CASE cancelNextHeightExpiredInvoice
    <2>1. PICK e \in registry.heights :
              Cancelling("watcher", TRUE, [registry EXCEPT !.heights = @ \ {e}])
      BY <1>2 DEF cancelNextHeightExpiredInvoice
    <2> DEFINE rest == [registry EXCEPT !.heights = @ \ {e}]
    <2>2. rest \in RegistryType /\ rest.lock = registry.lock /\ rest.subs = registry.subs
      BY <1>0 DEF RegistryType
    <2>3. Cancelling("watcher", TRUE, rest)
      BY <2>1
    <2> HIDE DEF rest
    <2> QED
      BY <2>2, <2>3, CancelStep
  <1> QED
    BY <1>1, <1>2 DEF Watcher

\* The RPCs.
LEMMA RpcStep ==
    ASSUME Inv, Rpc
    PROVE  Inv'
  <1>0. /\ registry \in RegistryType /\ Good(invoice) /\ TypeInv /\ payload \in PayloadType
        /\ OtherCallOk("rpc") /\ "rpc" \in Caller
        /\ call \in [Caller -> CallType]
        /\ \A q \in Caller : \A r \in call[q].todo : TrueRes(r)
    BY InvFacts DEF TypeInv
  <1>1. CASE CancelInvoice
    BY <1>0, <1>1, CancelStep DEF CancelInvoice
  <1>2. CASE SettleHodlInvoice
    <2> DEFINE new == settleHodlInvoice(invoice, payload)
               S == HTLCSet(new, "Settled")
    <2>1. /\ UNCHANGED <<payload, answer, revealed, link, height, flaps>>
          /\ registry.lock = None /\ invoice' = new
          /\ call' = [call EXCEPT !["rpc"] = Notifying("settle", Resolution("settle", S))]
          /\ registry' = [registry EXCEPT !.lock = "rpc"]
      BY <1>2 DEF SettleHodlInvoice, Locked
    <2>2. invoice.state = "Accepted"
      BY <1>2 DEF SettleHodlInvoice, CanSettleHodl
    <2>3. Moves(invoice, invoice', {})
      BY <1>0, <2>1, <2>2, SettleMoves
    <2>4. S \in SUBSET Htlc /\ \A h \in S : invoice'.htlcs[h] = "Settled"
      BY <2>1 DEF HTLCSet
    <2> HIDE DEF new, S
    <2>5. /\ registry' \in RegistryType /\ registry'.subs = registry.subs
          /\ registry'.lock = "rpc" /\ height' \in Nat
      BY <1>0, <2>1 DEF RegistryType, TypeInv
    <2>6. /\ call'["rpc"] \in CallType /\ call' = [call EXCEPT !["rpc"] = call'["rpc"]]
          /\ OtherCallOk("rpc")' /\ \A r \in call'["rpc"].todo : TrueRes(r)'
      BY <2>1, <2>4, <2>5, NotifyingOk
    <2> QED
      BY <2>1, <2>3, <2>5, <2>6, OtherFrame
  <1>3. ASSUME NEW hodl \in BOOLEAN, AddInvoice(hodl) PROVE Inv'
    <2>1. /\ UNCHANGED <<payload, answer, revealed, link, registry, height, flaps>>
          /\ invoice.state = "Absent" /\ invoice' = NewInvoice(hodl)
          /\ call' = [call EXCEPT !["rpc"].at = "expiry"] /\ call["rpc"].at = "idle"
      BY <1>3 DEF AddInvoice, Locked, Step
    <2>2. /\ call'["rpc"] = [call["rpc"] EXCEPT !.at = "expiry"]
          /\ call' = [call EXCEPT !["rpc"] = call'["rpc"]]
      BY <1>0, <2>1
    <2>3. /\ call'["rpc"] \in CallType /\ call'["rpc"].at = "expiry"
          /\ call'["rpc"].todo = {}
      BY <1>0, <2>1, <2>2 DEF CallType, OtherCallOk
    <2>4. Good(invoice') /\ invoice'.state = "Open" /\ Known(invoice) = {}
      BY <1>0, <2>1, NewInvoiceGood DEF NewInvoice, Good
    <2>5. \A h \in Htlc : invoice'.htlcs[h] = "None"
      BY <2>1 DEF NewInvoice
    <2>6. Moves(invoice, invoice', {})
      BY <2>1, <2>4, <2>5 DEF Moves, Known, Later
    <2>7. OtherCallOk("rpc")' /\ height' \in Nat
      BY <1>0, <2>1, <2>3 DEF OtherCallOk, TypeInv
    <2> QED
      BY <1>0, <2>1, <2>2, <2>3, <2>6, <2>7, OtherFrame
  <1>4. CASE WatchInvoice
    <2>1. /\ UNCHANGED <<payload, invoice, answer, revealed, link, height, flaps>>
          /\ registry' = [registry EXCEPT !.timestamp = TRUE]
          /\ call' = [call EXCEPT !["rpc"] = Idle]
      BY <1>4 DEF WatchInvoice
    <2>2. /\ registry' \in RegistryType /\ registry'.subs = registry.subs
          /\ registry'.lock = registry.lock /\ height' \in Nat
      BY <1>0, <2>1 DEF RegistryType, TypeInv
    <2>3. /\ call'["rpc"] = Idle /\ call'["rpc"] \in CallType
          /\ call' = [call EXCEPT !["rpc"] = call'["rpc"]]
      BY <1>0, <2>1, IdleFields
    <2>4. OtherCallOk("rpc")' /\ \A r \in call'["rpc"].todo : TrueRes(r)'
      BY <2>3, IdleFields DEF OtherCallOk
    <2> QED
      BY <1>0, <2>1, <2>2, <2>3, <2>4, SameMoves, OtherFrame
  <1> QED
    BY <1>1, <1>2, <1>3, <1>4 DEF Rpc

\* A node that starts knows what its channels committed to.
LEMMA RestartStep ==
    ASSUME Inv, Restart
    PROVE  Inv'
  <1>0. /\ \A k \in Link : LinkOk(k) /\ k \in Caller
        /\ {"rpc", "loop", "watcher"} \subseteq Caller
        /\ \A h \in Htlc : AnswerOk(h) /\ LinkOf[h] \in Link
        /\ link \in [Link -> LinkType]
        /\ TypeInv /\ Good(invoice)
        /\ answer \in [Htlc -> Answer] /\ payload \in PayloadType
    BY InvFacts DEF TypeInv
  <1>1. /\ link' = [l \in Link |-> [NewLink(link[l].incarnation)
                                       EXCEPT !.committed = link[l].committed]]
        /\ answer' = [h \in Htlc |-> IF h \in link[LinkOf[h]].committed
                                     THEN answer[h] ELSE "none"]
        /\ registry' = NewRegistry(invoice)
        /\ call' = [p \in Caller |-> Idle]
        /\ UNCHANGED <<payload, invoice, revealed, height, flaps>>
    BY DEF Restart
  <1>2. ASSUME NEW l \in Link
        PROVE  /\ link'[l] \in LinkType
               /\ link'[l].hodlMap = {} /\ link'[l].hodlQueue = {} /\ link'[l].asked = {}
               /\ link'[l].committed = link[l].committed
    <2> DEFINE n == link[l].incarnation
               old == link[l].committed
    <2>1. n \in Nat /\ old \in SUBSET Htlc
      BY <1>0 DEF LinkType
    <2>2. link'[l] = [NewLink(n) EXCEPT !.committed = old]
      BY <1>1
    <2> HIDE DEF n
    <2>3. link'[l] \in LinkType
      BY <1>0, <2>1, <2>2, StartTypes
    <2> QED
      BY <2>2, <2>3 DEF NewLink
  <1>3. link' \in [Link -> LinkType]
    BY <1>1, <1>2
  <1>4. registry' \in RegistryType /\ registry'.subs = {}
    <2>1. NewRegistry(invoice) \in RegistryType
      BY <1>0, StartTypes
    <2> QED
      BY <1>1, <2>1 DEF NewRegistry
  <1>5. call' \in [Caller -> CallType] /\ \A p \in Caller : call'[p] = Idle
    BY <1>1, IdleFields
  <1>6. ASSUME NEW h \in Htlc PROVE AnswerOk(h)' /\ answer'[h] \in Answer
    <2>1. /\ AnswerOk(h) /\ LinkOf[h] \in Link
          /\ answer'[h] = IF h \in link[LinkOf[h]].committed THEN answer[h] ELSE "none"
          /\ link'[LinkOf[h]].committed = link[LinkOf[h]].committed
      BY <1>0, <1>1, <1>2
    <2> QED
      BY <1>0, <1>1, <2>1 DEF AnswerOk, Gone, Answer
  <1>7. TypeInv'
    <2>1. answer' \in [Htlc -> Answer]
      BY <1>1, <1>6
    <2> QED
      BY <1>0, <1>1, <1>3, <1>4, <1>5, <2>1 DEF TypeInv, Good, PaidUp
  <1>8. ASSUME NEW l \in Link PROVE LinkOk(l)'
    <2>1. \A h \in Htlc : ~ Subscribed(l, h)'
      BY <1>4 DEF Subscribed
    <2> QED
      BY <1>0, <1>2, <2>1 DEF LinkOk
  <1>9. \A l \in Link : LinkCallOk(l)'
    BY <1>0, <1>5, IdleFields DEF LinkCallOk, Holding
  <1>10. \A p \in {"rpc", "loop", "watcher"} : OtherCallOk(p)'
    BY <1>0, <1>5, IdleFields DEF OtherCallOk
  <1>11. \A p \in Caller : \A r \in call'[p].todo : TrueRes(r)'
    BY <1>5, IdleFields
  <1>12. SubsOk'
    BY <1>4 DEF SubsOk
  <1> QED
    BY <1>6, <1>7, <1>8, <1>9, <1>10, <1>11, <1>12 DEF Inv, CallInv

\* The invariant holds at first.
LEMMA InvInit == Init => Inv
  <1> SUFFICES ASSUME Init PROVE Inv
    OBVIOUS
  <1>1. TypeInv
    BY TypeInit
  <1>2. /\ link = [l \in Link |-> NewLink(0)]
        /\ answer = [h \in Htlc |-> "none"] /\ revealed = {}
        /\ registry = NewRegistry(NoInvoice("Absent"))
        /\ call = [p \in Caller |-> Idle]
    BY DEF Init
  <1>3. \A p \in Caller : call[p] = Idle
    BY <1>2
  <1>4. \A l \in Link : link[l].hodlMap = {} /\ link[l].hodlQueue = {} /\ link[l].asked = {}
                        /\ link[l].committed = {}
    BY <1>2 DEF NewLink
  <1>5. registry.subs = {}
    BY <1>2 DEF NewRegistry
  <1>6. ASSUME NEW l \in Link PROVE LinkOk(l)
    <2>1. \A h \in Htlc : ~ Subscribed(l, h)
      BY <1>5 DEF Subscribed
    <2> QED
      BY <1>4, <2>1 DEF LinkOk
  <1>7. \A l \in Link : LinkCallOk(l)
    BY <1>3, IdleFields DEF LinkCallOk, Holding, Caller
  <1>8. \A p \in {"rpc", "loop", "watcher"} : OtherCallOk(p)
    BY <1>3, IdleFields DEF OtherCallOk, Caller
  <1>9. \A p \in Caller : \A r \in call[p].todo : TrueRes(r)
    BY <1>3, IdleFields
  <1>10. SubsOk
    BY <1>5 DEF SubsOk
  <1>11. \A h \in Htlc : AnswerOk(h)
    BY <1>2 DEF AnswerOk
  <1> QED
    BY <1>1, <1>6, <1>7, <1>8, <1>9, <1>10, <1>11 DEF Inv, CallInv

\* A new block, or nothing at all.
LEMMA QuietStep ==
    ASSUME Inv, NewBlock \/ UNCHANGED vars
    PROVE  Inv'
  <1>0. /\ registry \in RegistryType /\ Good(invoice) /\ height \in Nat
        /\ OtherCallOk("rpc") /\ "rpc" \in Caller
        /\ call \in [Caller -> CallType]
        /\ \A q \in Caller : \A r \in call[q].todo : TrueRes(r)
    BY InvFacts DEF TypeInv
  <1>1. /\ UNCHANGED <<payload, invoice, answer, revealed, link, registry, call, flaps>>
        /\ height' \in Nat
    BY <1>0 DEF NewBlock, vars
  <1>2. OtherCallOk("rpc")' /\ \A r \in call'["rpc"].todo : TrueRes(r)'
    BY <1>0, <1>1 DEF OtherCallOk, TrueRes, Gone
  <1>3. call'["rpc"] \in CallType /\ call' = [call EXCEPT !["rpc"] = call'["rpc"]]
    BY <1>0, <1>1
  <1> QED
    BY <1>0, <1>1, <1>2, <1>3, SameMoves, OtherFrame

\* Every step keeps the invariant.
LEMMA InvStep == Inv /\ [Next]_vars => Inv'
  <1> SUFFICES ASSUME Inv, [Next]_vars PROVE Inv'
    OBVIOUS
  <1>1. ASSUME NEW l \in Link, LinkStep(l) PROVE Inv'
    BY <1>1, NotifyExitHopStep, SubscribeStep, HoldStep, QueueStep, CommitStopStep
    DEF LinkStep
  <1>2. ASSUME NEW l \in Link, StopLink(l) PROVE Inv'
    BY <1>2, CommitStopStep, RestartLinkStep DEF StopLink
  <1>3. ASSUME NEW p \in Caller, notifyHodlSubscribers(p) \/ FinishNotify(p) PROVE Inv'
    BY <1>3, NotifyStep, FinishStep
  <1>4. ASSUME NEW h \in Htlc, AutoRelease(h) PROVE Inv'
    BY <1>4, AutoReleaseStep
  <1> QED
    BY <1>1, <1>2, <1>3, <1>4, WatcherStep, RpcStep, QuietStep, RestartStep DEF Next

\* What the invariant says, at all times.
LEMMA Always == Spec => []Inv
  BY InvInit, InvStep, PTL DEF Spec

-----------------------------------------------------------------------------
\* A preimage is only given away for an invoice that is paid: at least its
\* value, and all of the payment the HTLC is a part of.
THEOREM PreimageSafety == Spec => []PreimageOnlyForPayment
  <1>1. ASSUME Inv PROVE PreimageOnlyForPayment
    <2>1. Good(invoice) /\ (\A h \in Htlc : AnswerOk(h)) /\ revealed \in SUBSET Htlc
      BY <1>1, InvFacts DEF TypeInv
    <2>2. \A h \in revealed : h \in HTLCSet(invoice, "Settled")
      BY <2>1 DEF AnswerOk, HTLCSet
    <2>3. SUFFICES ASSUME revealed # {} PROVE PreimageOnlyForPayment
      BY DEF PreimageOnlyForPayment
    <2>4. HTLCSet(invoice, "Settled") # {}
      BY <2>2, <2>3
    <2>5. invoice.state = "Settled"
      <3>1. invoice.state \in ContractState
        BY <2>1 DEF Good, InvoiceType
      <3>2. invoice.state \notin {"Absent", "Deleted"}
        BY <2>1, <2>4 DEF Good, Known, HTLCSet
      <3>3. invoice.state \notin {"Open", "Accepted", "Canceled"}
        BY <2>1, <2>4 DEF Good, Counted
      <3> QED
        BY <3>1, <3>2, <3>3 DEF ContractState
    <2>6. PaidUp(invoice) /\ Counted(invoice) = HTLCSet(invoice, "Settled")
      BY <2>1, <2>5 DEF Good, Counted
    <2> QED
      BY <2>2, <2>5, <2>6 DEF PreimageOnlyForPayment, PaidUp, HTLCSet
  <1> QED
    BY <1>1, Always, PTL

\* An HTLC whose preimage the peer has is never failed; no answer is given to
\* an HTLC the invoice still holds; a link gets answers for what it holds only.
THEOREM AnswersSafety == Spec => []AnswersFollowInvoice
  <1>1. ASSUME Inv PROVE AnswersFollowInvoice
    <2>1. /\ Good(invoice) /\ (\A h \in Htlc : AnswerOk(h))
          /\ answer \in [Htlc -> Answer]
          /\ \A l \in Link : LinkOk(l)
          /\ link \in [Link -> LinkType]
      BY <1>1, InvFacts DEF TypeInv
    <2>2. ASSUME NEW h \in Htlc
          PROVE  /\ answer[h] = "fail" => h \notin revealed
                 /\ answer[h] # "none" /\ Exists(invoice)
                        => invoice.htlcs[h] # "Accepted"
      <3>1. AnswerOk(h) /\ answer[h] \in {"none", "settle", "fail"}
        BY <2>1 DEF Answer
      <3>2. invoice.state = "Deleted" => invoice.htlcs[h] = "None"
        BY <2>1 DEF Good, Known
      <3> QED
        BY <3>1, <3>2 DEF AnswerOk, Gone, Exists
    <2>3. ASSUME NEW l \in Link, At(l, "idle"), NEW r \in link[l].hodlQueue
          PROVE  r.htlc \in link[l].hodlMap
      BY <2>1, <2>3 DEF LinkOk, Holds, Holding, At
    <2> QED
      BY <2>2, <2>3 DEF AnswersFollowInvoice
  <1> QED
    BY <1>1, Always, PTL

-----------------------------------------------------------------------------
(* What holds while no link stops.                                         *)

\* A step that leaves the links alone: what it resolves is on a list.
LEMMA HearFrame ==
    ASSUME Inv, HearInv, flaps' = flaps, link' = link, registry'.subs = registry.subs,
           \A l \in Link : \/ call'[l] = call[l]
                           \/ call[l].at = "notify" /\ call'[l].at = "idle",
           \A h \in Htlc : Listed(h) => Listed(h)',
           \A h \in Htlc : registry'.timers[h] > 0 => registry.timers[h] > 0,
           registry'.timers \in [Htlc -> Nat],
           \A h \in Htlc : invoice.htlcs[h] = "Accepted"
                               => invoice'.htlcs[h] = "Accepted" \/ Listed(h)',
           \A l \in Link : call[l].at = "subscribe" /\ HearOk(l)
                               => invoice'.htlcs[call[l].htlc] = "Accepted"
    PROVE  HearInv'
  <1> SUFFICES ASSUME flaps = 0 PROVE HearInv'
    BY DEF HearInv
  <1>1. \A l \in Link : HearOk(l) /\ LinkCallOk(l)
    BY InvFacts DEF HearInv
  <1>2. \A h \in Htlc : registry'.timers[h] > 0 => h \in link'[LinkOf[h]].asked
    BY DEF HearInv
  <1>3. ASSUME NEW l \in Link PROVE HearOk(l)'
    <2>1. /\ \A h \in Htlc : Subscribed(l, h)' <=> Subscribed(l, h)
          /\ \A h \in Htlc : Queued(l, h)' <=> Queued(l, h)
          /\ \A h \in Htlc : Holds(l, h)' => Holds(l, h)
      BY DEF Subscribed, Queued, Holds, Holding, QueueOf
    <2>2. \A h \in Htlc : Holds(l, h)' => Subscribed(l, h)' \/ Queued(l, h)'
      BY <1>1, <2>1 DEF HearOk
    <2>3. \A h \in Htlc : Subscribed(l, h)' => invoice'.htlcs[h] = "Accepted" \/ Listed(h)'
      BY <1>1, <2>1 DEF HearOk
    <2>4. call'[l].at = "subscribe" =>
              /\ invoice'.htlcs[call'[l].htlc] = "Accepted"
              /\ registry'.timers[call'[l].htlc] = 0
      <3>1. SUFFICES ASSUME call'[l].at = "subscribe"
                     PROVE  /\ invoice'.htlcs[call'[l].htlc] = "Accepted"
                            /\ registry'.timers[call'[l].htlc] = 0
        OBVIOUS
      <3>2. call'[l] = call[l] /\ call[l].at = "subscribe"
        BY <3>1
      <3>3. call[l].htlc \in Htlc /\ registry.timers[call[l].htlc] = 0
        BY <1>1, <3>2 DEF HearOk, LinkCallOk
      <3> QED
        BY <1>1, <3>2, <3>3
    <2> QED
      BY <1>1, <2>2, <2>3, <2>4 DEF HearOk
  <1> QED
    BY <1>2, <1>3 DEF HearInv

\* Everything on a list remains there, but for what a goroutine has done.
LEMMA ListKept ==
    ASSUME Inv, NEW p \in Caller, \A q \in Caller : q # p => call'[q] = call[q],
           call[p].todo = {} \/ call'[p].todo = call[p].todo
    PROVE  \A h \in Htlc : Listed(h) => Listed(h)'
  <1>1. ASSUME NEW h \in Htlc, Listed(h) PROVE Listed(h)'
    <2>1. PICK q \in Caller : \E r \in call[q].todo : r.htlc = h
      BY <1>1 DEF Listed
    <2>2. call'[q].todo = call[q].todo
      BY <2>1
    <2> QED
      BY <2>1, <2>2 DEF Listed
  <1> QED
    BY <1>1

\* What a goroutine is about to tell is on its list.
LEMMA ListNew ==
    ASSUME NEW p \in Caller, NEW kind, NEW S, call'[p].todo = Resolution(kind, S)
    PROVE  \A h \in S : Listed(h)'
  <1>1. \A h \in S : [kind |-> kind, htlc |-> h] \in call'[p].todo
    BY DEF Resolution
  <1> QED
    BY <1>1 DEF Listed

\* A link asks the registry for an HTLC, and hears of it if it is held.
LEMMA HearExitHop ==
    ASSUME Inv, HearInv, NEW h \in Htlc, NotifyExitHopHtlc(h)
    PROVE  HearInv'
  <1> DEFINE l == LinkOf[h]
  <1> SUFFICES ASSUME flaps = 0 PROVE HearInv'
    BY DEF HearInv, NotifyExitHopHtlc
  <1>0. /\ l \in Link /\ l \in Caller /\ TypeInv /\ Good(invoice)
        /\ \A k \in Link : k \in Caller /\ HearOk(k) /\ LinkOk(k) /\ LinkCallOk(k)
        /\ \A k \in Htlc : registry.timers[k] > 0 => k \in link[LinkOf[k]].asked
        /\ \A k \in Htlc : LinkOf[k] \in Link
        /\ call \in [Caller -> CallType] /\ link \in [Link -> LinkType]
        /\ registry \in RegistryType
    BY InvFacts DEF HearInv
  <1>1. PICK res \in HtlcResolution :
              /\ Updates(invoice, h, invoice', res)
              /\ call'[l].htlc = h
              /\ IF res.kind = "hold"
                 THEN call'[l].at = "subscribe"
                 ELSE /\ call'[l].at = "notify"
                      /\ call'[l].todo = AlsoResolved(invoice', res)
              /\ call' = [call EXCEPT ![l] = call'[l]]
    BY <1>0, NotifyExitHopEffect
  <1>2. /\ call[l].at = "idle" /\ registry.lock = None /\ h \notin link[l].asked
        /\ link' = [link EXCEPT ![l].asked = @ \cup {h}]
        /\ registry' = [registry EXCEPT !.lock = l]
    BY <1>0 DEF NotifyExitHopHtlc, Locked
  <1>3. \A p \in Caller : p # l => call'[p] = call[p]
    BY <1>0, <1>1
  <1>4. /\ registry'.timers = registry.timers /\ registry'.subs = registry.subs
        /\ registry.timers \in [Htlc -> Nat]
    BY <1>0, <1>2 DEF RegistryType
  <1>5. /\ \A k \in Link : /\ link'[k].stopping = link[k].stopping
                           /\ link'[k].incarnation = link[k].incarnation
                           /\ link'[k].hodlMap = link[k].hodlMap
                           /\ link'[k].hodlQueue = link[k].hodlQueue
                           /\ link[k].asked \subseteq link'[k].asked
    BY <1>0, <1>2 DEF LinkType
  <1>6. registry.timers[h] = 0
    BY <1>0, <1>2, <1>4
  <1>7. \A k \in Htlc : Listed(k) => Listed(k)'
    <2>1. call[l].todo = {}
      BY <1>0, <1>2 DEF LinkCallOk
    <2> QED
      BY <1>0, <1>3, <2>1, ListKept
  <1> HIDE DEF l
  <1>8. \A k \in Htlc : invoice.htlcs[k] = "Accepted"
                            => invoice'.htlcs[k] = "Accepted" \/ Listed(k)'
    <2>1. CASE res.kind = "settle"
      <3>1. call'[l].todo = Resolution("settle", HTLCSet(invoice', "Settled"))
        BY <1>1, <2>1 DEF AlsoResolved
      <3>2. \A k \in HTLCSet(invoice', "Settled") : Listed(k)'
        BY <1>0, <3>1, ListNew
      <3> QED
        BY <1>1, <3>2 DEF Updates, SettlesOnly, HTLCSet
    <2>2. CASE res.kind # "settle"
      BY <1>1, <2>2 DEF Updates, HTLCSet
    <2> QED
      BY <2>1, <2>2
  <1>9. ASSUME NEW k \in Link PROVE HearOk(k)'
    <2>1. HearOk(k)
      BY <1>0
    <2>2. /\ \A g \in Htlc : Subscribed(k, g)' <=> Subscribed(k, g)
          /\ \A g \in Htlc : Queued(k, g)' <=> Queued(k, g)
      BY <1>4, <1>5 DEF Subscribed, Queued, QueueOf
    <2>3. \A g \in Htlc : Holds(k, g)' => Holds(k, g)
      <3>1. CASE k = l
        BY <1>1, <1>5, <3>1 DEF Holds, Holding
      <3>2. CASE k # l
        BY <1>0, <1>3, <1>5, <3>2 DEF Holds
      <3> QED
        BY <3>1, <3>2
    <2>4. call'[k].at = "subscribe" =>
              /\ invoice'.htlcs[call'[k].htlc] = "Accepted"
              /\ registry'.timers[call'[k].htlc] = 0
      <3>1. CASE k = l
        BY <1>1, <1>4, <1>6, <3>1 DEF Updates
      <3>2. CASE k # l
        <4>1. call'[k] = call[k] /\ call[k].at # "subscribe"
          BY <1>0, <1>2, <1>3, <3>2, InvFacts DEF LinkCallOk
        <4> QED
          BY <4>1
      <3> QED
        BY <3>1, <3>2
    <2>5. \A g \in Htlc : Subscribed(k, g)' => invoice'.htlcs[g] = "Accepted" \/ Listed(g)'
      BY <1>7, <1>8, <2>1, <2>2 DEF HearOk
    <2>6. \A g \in Htlc : Holds(k, g)' => Subscribed(k, g)' \/ Queued(k, g)'
      BY <2>1, <2>2, <2>3 DEF HearOk
    <2> QED
      BY <1>5, <2>1, <2>4, <2>5, <2>6 DEF HearOk
  <1>10. \A k \in Htlc : registry'.timers[k] > 0 => k \in link'[LinkOf[k]].asked
    BY <1>0, <1>4, <1>5
  <1> QED
    BY <1>9, <1>10 DEF HearInv

\* A step of one link: the others hear as before.
LEMMA HearLinkFrame ==
    ASSUME Inv, HearInv, NEW l \in Link, flaps' = flaps, invoice' = invoice,
           link' = [link EXCEPT ![l] = link'[l]], call' = [call EXCEPT ![l] = call'[l]],
           call[l].todo = {}, link'[l].asked = link[l].asked,
           \A k \in Link \ {l}, h \in Htlc : Subscribed(k, h)' <=> Subscribed(k, h),
           \A h \in Htlc : LinkOf[h] # l => registry'.timers[h] = registry.timers[h],
           \A h \in Htlc : registry'.timers[h] > 0
                               => registry.timers[h] > 0 \/ h \in link[LinkOf[h]].asked,
           flaps = 0 => HearOk(l)'
    PROVE  HearInv'
  <1> SUFFICES ASSUME flaps = 0 PROVE HearInv'
    BY DEF HearInv
  <1>0. /\ \A k \in Link : k \in Caller /\ HearOk(k) /\ LinkCallOk(k)
        /\ \A h \in Htlc : registry.timers[h] > 0 => h \in link[LinkOf[h]].asked
        /\ \A h \in Htlc : LinkOf[h] \in Link
        /\ call \in [Caller -> CallType] /\ link \in [Link -> LinkType]
    BY InvFacts DEF HearInv
  <1>1. /\ \A q \in Caller : q # l => call'[q] = call[q]
        /\ \A k \in Link : k # l => link'[k] = link[k]
    BY <1>0
  <1>2. \A h \in Htlc : Listed(h) => Listed(h)'
    BY <1>0, <1>1, ListKept
  <1>3. ASSUME NEW k \in Link, k # l PROVE HearOk(k)'
    <2>1. HearOk(k) /\ LinkCallOk(k) /\ link'[k] = link[k] /\ call'[k] = call[k]
      BY <1>0, <1>1, <1>3
    <2>2. /\ \A h \in Htlc : Subscribed(k, h)' <=> Subscribed(k, h)
          /\ \A h \in Htlc : Queued(k, h)' <=> Queued(k, h)
          /\ \A h \in Htlc : Holds(k, h)' <=> Holds(k, h)
      BY <1>3, <2>1 DEF Queued, Holds
    <2>3. call[k].at = "subscribe" => registry'.timers[call[k].htlc] = 0
      BY <1>3, <2>1 DEF LinkCallOk, HearOk
    <2>4. \A h \in Htlc : Holds(k, h)' => Subscribed(k, h)' \/ Queued(k, h)'
      BY <2>1, <2>2 DEF HearOk
    <2>5. \A h \in Htlc : Subscribed(k, h)' => invoice'.htlcs[h] = "Accepted" \/ Listed(h)'
      BY <1>2, <2>1, <2>2 DEF HearOk
    <2> QED
      BY <2>1, <2>3, <2>4, <2>5 DEF HearOk
  <1>4. \A h \in Htlc : registry'.timers[h] > 0 => h \in link'[LinkOf[h]].asked
    BY <1>0, <1>1
  <1> QED
    BY <1>3, <1>4 DEF HearInv

\* The link subscribes to an HTLC that is not resolved yet.
LEMMA HearSubscribe ==
    ASSUME Inv, HearInv, NEW l \in Link, hodlSubscribe(l)
    PROVE  HearInv'
  <1> DEFINE h == call[l].htlc
             at == AfterSubscribe(call[l].res, invoice.state)
             sub == <<h, QueueOf(l)>>
  <1>0. /\ LinkCallOk(l) /\ l \in Caller
        /\ call \in [Caller -> CallType] /\ link \in [Link -> LinkType]
        /\ registry \in RegistryType
    BY InvFacts
  <1>1. /\ call[l].at = "subscribe"
        /\ UNCHANGED <<invoice, link, flaps>>
        /\ registry' = [registry EXCEPT !.subs = @ \cup {sub}, !.lock = None]
        /\ call' = [call EXCEPT ![l].at = at]
    BY DEF hodlSubscribe, At, Step
  <1>2. h \in Htlc /\ call[l].todo = {} /\ sub[1] = h /\ sub[2] = QueueOf(l)
    BY <1>0, <1>1 DEF LinkCallOk
  <1> HIDE DEF sub
  <1>3. registry'.subs = registry.subs \cup {sub} /\ registry'.timers = registry.timers
    BY <1>0, <1>1 DEF RegistryType
  <1>4. /\ call'[l] = [call[l] EXCEPT !.at = at]
        /\ call' = [call EXCEPT ![l] = call'[l]]
    BY <1>0, <1>1
  <1>5. call'[l].at = at /\ call'[l].htlc = h /\ call'[l].todo = {} /\ at \in Holding
    BY <1>0, <1>2, <1>4 DEF CallType, AfterSubscribe, Holding
  <1> HIDE DEF h, at
  <1>6. \A k \in Link : QueueOf(k)' = QueueOf(k) /\ (k # l => QueueOf(k) # QueueOf(l))
    BY <1>1 DEF QueueOf
  <1>7. /\ \A k \in Link \ {l}, g \in Htlc : Subscribed(k, g)' <=> Subscribed(k, g)
        /\ \A g \in Htlc : Subscribed(l, g)' <=> Subscribed(l, g) \/ g = h
        /\ \A g \in Htlc : Queued(l, g)' <=> Queued(l, g)
        /\ \A g \in Htlc : Holds(l, g)' => Holds(l, g) \/ g = h
    BY <1>1, <1>3, <1>5, <1>6 DEF Subscribed, Queued, Holds, sub
  <1>8. \A g \in Htlc : Listed(g) => Listed(g)'
    BY <1>0, <1>2, <1>4, ListKept
  <1>9. ASSUME flaps = 0 PROVE HearOk(l)'
    <2>1. HearOk(l)
      BY <1>9 DEF HearInv
    <2>2. \A g \in Htlc : Holds(l, g)' => Subscribed(l, g)' \/ Queued(l, g)'
      BY <1>7, <2>1 DEF HearOk
    <2>3. invoice.htlcs[h] = "Accepted"
      BY <1>1, <2>1 DEF HearOk, h
    <2>4. \A g \in Htlc : Subscribed(l, g)' => invoice.htlcs[g] = "Accepted" \/ Listed(g)'
      BY <1>7, <1>8, <2>1, <2>3 DEF HearOk
    <2> QED
      BY <1>1, <1>5, <2>1, <2>2, <2>4 DEF HearOk, Holding
  <1>10. link' = [link EXCEPT ![l] = link'[l]] /\ link'[l].asked = link[l].asked
    BY <1>0, <1>1
  <1> QED
    BY <1>1, <1>2, <1>3, <1>4, <1>7, <1>9, <1>10, HearLinkFrame

\* The HTLC is put on hold.
LEMMA HearHold ==
    ASSUME Inv, HearInv, NEW l \in Link,
           RegisterExpiry(l) \/ startHtlcTimer(l) \/ JustHold(l)
    PROVE  HearInv'
  <1> DEFINE h == call[l].htlc
  <1>0. /\ LinkCallOk(l) /\ l \in Caller
        /\ call \in [Caller -> CallType] /\ link \in [Link -> LinkType]
        /\ registry \in RegistryType
    BY InvFacts
  <1>1. /\ call[l].at \in Holding
        /\ UNCHANGED <<invoice, flaps>>
        /\ link' = [link EXCEPT ![l].hodlMap = @ \cup {h}]
        /\ call' = [call EXCEPT ![l] = Idle]
    BY DEF RegisterExpiry, startHtlcTimer, JustHold, Hold, At, Holding
  <1>2. h \in Htlc /\ h \in link[l].asked /\ LinkOf[h] = l /\ call[l].todo = {}
    BY <1>0, <1>1 DEF LinkCallOk, Holding
  <1>3. /\ registry'.subs = registry.subs
        /\ \A g \in Htlc : g # h => registry'.timers[g] = registry.timers[g]
    <2>1. CASE RegisterExpiry(l)
      BY <1>0, <2>1 DEF RegisterExpiry, RegistryType
    <2>2. CASE startHtlcTimer(l)
      <3>1. registry' = [registry EXCEPT !.timers[h] = @ + 1]
        BY <2>2 DEF startHtlcTimer
      <3> HIDE DEF h
      <3> QED
        BY <1>0, <1>2, <3>1 DEF RegistryType
    <2>3. CASE JustHold(l)
      BY <2>3 DEF JustHold
    <2> QED
      BY <2>1, <2>2, <2>3
  <1> HIDE DEF h
  <1>4. /\ call'[l] = Idle /\ call' = [call EXCEPT ![l] = call'[l]]
        /\ link'[l] = [link[l] EXCEPT !.hodlMap = @ \cup {h}]
        /\ link' = [link EXCEPT ![l] = link'[l]]
    BY <1>0, <1>1
  <1>5. /\ link'[l].hodlMap = link[l].hodlMap \cup {h}
        /\ link'[l].asked = link[l].asked /\ link'[l].stopping = link[l].stopping
        /\ link'[l].hodlQueue = link[l].hodlQueue
        /\ \A k \in Link : link'[k].incarnation = link[k].incarnation
    BY <1>0, <1>1, <1>4 DEF LinkType
  <1>6. \A k \in Link : QueueOf(k)' = QueueOf(k)
    BY <1>5 DEF QueueOf
  <1>7. /\ \A k \in Link, g \in Htlc : Subscribed(k, g)' <=> Subscribed(k, g)
        /\ \A g \in Htlc : Queued(l, g)' <=> Queued(l, g)
        /\ \A g \in Htlc : Holds(l, g)' <=> Holds(l, g)
    BY <1>1, <1>3, <1>4, <1>5, <1>6, IdleFields DEF Subscribed, Queued, Holds, Holding, h
  <1>8. \A g \in Htlc : Listed(g) => Listed(g)'
    BY <1>0, <1>2, <1>4, ListKept
  <1>9. ASSUME flaps = 0 PROVE HearOk(l)'
    <2>1. HearOk(l)
      BY <1>9 DEF HearInv
    <2> QED
      BY <1>1, <1>4, <1>5, <1>7, <1>8, <2>1, IdleFields DEF HearOk
  <1>10. /\ \A g \in Htlc : LinkOf[g] # l => registry'.timers[g] = registry.timers[g]
         /\ \A g \in Htlc : registry'.timers[g] > 0
                                => registry.timers[g] > 0 \/ g \in link[LinkOf[g]].asked
    BY <1>2, <1>3
  <1> QED
    BY <1>1, <1>2, <1>4, <1>5, <1>7, <1>9, <1>10, HearLinkFrame

\* The link gets the answer it waits for, or the channel commits to one.
LEMMA HearQueue ==
    ASSUME Inv, HearInv, NEW l \in Link,
           processHodlQueue(l) \/ \E h \in Htlc : LinkOf[h] = l /\ Commit(h)
    PROVE  HearInv'
  <1>0. /\ LinkCallOk(l) /\ LinkOk(l) /\ l \in Caller
        /\ call \in [Caller -> CallType] /\ link \in [Link -> LinkType]
        /\ registry \in RegistryType
    BY InvFacts
  <1>1. /\ call[l].at = "idle" /\ call[l].todo = {}
        /\ UNCHANGED <<invoice, registry, call, flaps>>
    BY <1>0 DEF processHodlQueue, Commit, At, LinkCallOk
  <1>2. /\ link' = [link EXCEPT ![l] = link'[l]]
        /\ link'[l].asked = link[l].asked /\ link'[l].stopping = link[l].stopping
        /\ link'[l].incarnation = link[l].incarnation
        /\ link'[l].hodlMap \subseteq link[l].hodlMap
        /\ \A h \in link'[l].hodlMap : Queued(l, h) => Queued(l, h)'
    <2>1. link[l] \in LinkType
      BY <1>0
    <2>2. CASE processHodlQueue(l)
      <3>1. PICK r \in link[l].hodlQueue :
              link' = [link EXCEPT ![l].hodlQueue = @ \ {r}, ![l].hodlMap = @ \ {r.htlc}]
        BY <2>2 DEF processHodlQueue
      <3>2. /\ link'[l] = [link[l] EXCEPT !.hodlQueue = @ \ {r}, !.hodlMap = @ \ {r.htlc}]
            /\ link' = [link EXCEPT ![l] = link'[l]]
        BY <1>0, <3>1
      <3>3. /\ link'[l].hodlQueue = link[l].hodlQueue \ {r}
            /\ link'[l].hodlMap = link[l].hodlMap \ {r.htlc}
            /\ link'[l].asked = link[l].asked /\ link'[l].stopping = link[l].stopping
            /\ link'[l].incarnation = link[l].incarnation
        BY <2>1, <3>2 DEF LinkType
      <3> QED
        BY <3>2, <3>3 DEF Queued
    <2>3. ASSUME NEW h \in Htlc, LinkOf[h] = l, Commit(h)
          PROVE  /\ link'[l] = [link[l] EXCEPT !.committed = @ \cup {h}]
                 /\ link' = [link EXCEPT ![l] = link'[l]]
      BY <1>0, <2>3 DEF Commit
    <2>4. CASE \E h \in Htlc : LinkOf[h] = l /\ Commit(h)
      BY <2>1, <2>3, <2>4 DEF LinkType, Queued
    <2> QED
      BY <2>2, <2>4
  <1>3. \A k \in Link : QueueOf(k)' = QueueOf(k)
    BY <1>0, <1>2 DEF QueueOf
  <1>4. \A k \in Link, g \in Htlc : Subscribed(k, g)' <=> Subscribed(k, g)
    BY <1>1, <1>3 DEF Subscribed
  <1>5. ASSUME flaps = 0 PROVE HearOk(l)'
    <2>1. HearOk(l)
      BY <1>5 DEF HearInv
    <2>2. \A g \in Htlc : Holds(l, g)' => Subscribed(l, g)' \/ Queued(l, g)'
      <3>1. ASSUME NEW g \in Htlc, Holds(l, g)' PROVE Subscribed(l, g)' \/ Queued(l, g)'
        <4>1. g \in link'[l].hodlMap /\ Holds(l, g)
          BY <1>1, <1>2, <3>1 DEF Holds, Holding
        <4> QED
          BY <1>2, <1>4, <2>1, <4>1 DEF HearOk
      <3> QED
        BY <3>1
    <2>3. \A g \in Htlc : Subscribed(l, g)' => invoice'.htlcs[g] = "Accepted" \/ Listed(g)'
      BY <1>1, <1>4, <2>1 DEF HearOk, Listed
    <2> QED
      BY <1>1, <1>2, <2>1, <2>2, <2>3 DEF HearOk
  <1> QED
    BY <1>0, <1>1, <1>2, <1>4, <1>5, HearLinkFrame

\* A resolution reaches the link that waits for it.
LEMMA HearNotify ==
    ASSUME Inv, HearInv, NEW p \in Caller, notifyHodlSubscribers(p)
    PROVE  HearInv'
  <1>0. /\ \A k \in Link : LinkCallOk(k) /\ k \in Caller
        /\ call \in [Caller -> CallType] /\ link \in [Link -> LinkType]
        /\ registry \in RegistryType /\ registry.timers \in [Htlc -> Nat]
        /\ \A q \in Caller : \A r \in call[q].todo : r \in ResolutionType
        /\ flaps = 0 => /\ \A k \in Link : HearOk(k)
                        /\ \A h \in Htlc : registry.timers[h] > 0
                                              => h \in link[LinkOf[h]].asked
    BY InvFacts DEF RegistryType, HearInv
  <1>1. call[p].at = "notify" /\ UNCHANGED <<invoice, flaps>>
    BY DEF notifyHodlSubscribers, At
  <1>2. CASE registry' = [registry EXCEPT !.mux = "stuck"] /\ UNCHANGED <<link, call>>
    <2>1. registry'.subs = registry.subs /\ registry'.timers = registry.timers
      BY <1>0, <1>2 DEF RegistryType
    <2>2. \A h \in Htlc : Listed(h) => Listed(h)'
      BY <1>2 DEF Listed
    <2> QED
      BY <1>0, <1>1, <1>2, <2>1, <2>2, HearFrame DEF HearOk
  <1>3. CASE ~ (registry' = [registry EXCEPT !.mux = "stuck"] /\ UNCHANGED <<link, call>>)
    <2> DEFINE queues(r) == {s[2] : s \in {t \in registry.subs : t[1] = r.htlc}}
    <2>1. PICK r \in call[p].todo :
              /\ link' = [l \in Link |->
                    IF QueueOf(l) \in queues(r)
                    THEN [link[l] EXCEPT !.hodlQueue = @ \cup {r}] ELSE link[l]]
              /\ registry' = [registry EXCEPT !.subs = {s \in @ : s[1] # r.htlc}]
              /\ call' = [call EXCEPT ![p].todo = @ \ {r}]
      BY <1>3 DEF notifyHodlSubscribers
    <2>2. r.htlc \in Htlc
      BY <1>0 DEF ResolutionType
    <2>3. \A l \in Link : Subscribed(l, r.htlc) => QueueOf(l) \in queues(r)
      <3>1. ASSUME NEW l \in Link, Subscribed(l, r.htlc) PROVE QueueOf(l) \in queues(r)
        <4> DEFINE sub == <<r.htlc, QueueOf(l)>>
        <4>1. sub \in registry.subs /\ sub[1] = r.htlc /\ sub[2] = QueueOf(l)
          BY <3>1 DEF Subscribed
        <4> HIDE DEF sub
        <4> QED
          BY <4>1
      <3> QED
        BY <3>1
    <2> HIDE DEF queues
    <2>4. ASSUME NEW l \in Link
          PROVE  /\ link'[l].incarnation = link[l].incarnation
                 /\ link'[l].stopping = link[l].stopping
                 /\ link'[l].hodlMap = link[l].hodlMap
                 /\ link'[l].asked = link[l].asked
                 /\ link[l].hodlQueue \subseteq link'[l].hodlQueue
                 /\ Subscribed(l, r.htlc) => r \in link'[l].hodlQueue
      <3>1. link'[l] = IF QueueOf(l) \in queues(r)
                       THEN [link[l] EXCEPT !.hodlQueue = @ \cup {r}] ELSE link[l]
        BY <2>1
      <3>2. link[l] \in LinkType
        BY <1>0
      <3> QED
        BY <2>3, <3>1, <3>2 DEF LinkType
    <2>5. /\ registry'.timers = registry.timers
          /\ registry'.subs = {s \in registry.subs : s[1] # r.htlc}
      BY <1>0, <2>1 DEF RegistryType
    <2>6. /\ \A q \in Caller : q # p => call'[q] = call[q]
          /\ call'[p].todo = call[p].todo \ {r}
          /\ \A q \in Caller : /\ call'[q].at = call[q].at
                               /\ call'[q].htlc = call[q].htlc
      <3>1. call'[p] = [call[p] EXCEPT !.todo = @ \ {r}]
        BY <1>0, <2>1
      <3>2. /\ call'[p].at = call[p].at /\ call'[p].htlc = call[p].htlc
            /\ call'[p].todo = call[p].todo \ {r}
        BY <1>0, <3>1 DEF CallType
      <3>3. \A q \in Caller : q # p => call'[q] = call[q]
        BY <1>0, <2>1
      <3> QED
        BY <3>2, <3>3
    <2>7. \A h \in Htlc : h # r.htlc /\ Listed(h) => Listed(h)'
      <3>1. ASSUME NEW h \in Htlc, h # r.htlc, Listed(h) PROVE Listed(h)'
        <4>1. PICK q \in Caller : \E x \in call[q].todo : x.htlc = h
          BY <3>1 DEF Listed
        <4>2. \E x \in call'[q].todo : x.htlc = h
          BY <2>6, <3>1, <4>1
        <4> QED
          BY <4>2 DEF Listed
      <3> QED
        BY <3>1
    <2>8. /\ \A l \in Link, h \in Htlc :
                 Subscribed(l, h)' <=> Subscribed(l, h) /\ h # r.htlc
          /\ \A l \in Link, h \in Htlc :
                 Queued(l, h) \/ (h = r.htlc /\ Subscribed(l, h)) => Queued(l, h)'
          /\ \A l \in Link, h \in Htlc : Holds(l, h)' <=> Holds(l, h)
      <3>1. \A l \in Link : QueueOf(l)' = QueueOf(l)
        BY <2>4 DEF QueueOf
      <3>2. ASSUME NEW l \in Link, NEW h \in Htlc
            PROVE  Subscribed(l, h)' <=> Subscribed(l, h) /\ h # r.htlc
        <4> DEFINE sub == <<h, QueueOf(l)>>
        <4>1. Subscribed(l, h)' <=> sub \in registry'.subs
          BY <3>1 DEF Subscribed
        <4>2. Subscribed(l, h) <=> sub \in registry.subs
          BY DEF Subscribed
        <4>3. sub[1] = h
          OBVIOUS
        <4> HIDE DEF sub
        <4> QED
          BY <2>5, <4>1, <4>2, <4>3
      <3>3. \A l \in Link, h \in Htlc :
                 Queued(l, h) \/ (h = r.htlc /\ Subscribed(l, h)) => Queued(l, h)'
        BY <2>4 DEF Queued
      <3>4. \A l \in Link, h \in Htlc : Holds(l, h)' <=> Holds(l, h)
        BY <1>0, <2>4, <2>6 DEF Holds
      <3> QED
        BY <3>2, <3>3, <3>4
    <2>9. ASSUME flaps = 0, NEW l \in Link PROVE HearOk(l)'
      <3>1. HearOk(l) /\ LinkCallOk(l) /\ l \in Caller
        BY <1>0, <2>9
      <3>2. \A h \in Htlc : Holds(l, h)' => Subscribed(l, h)' \/ Queued(l, h)'
        BY <2>8, <3>1 DEF HearOk
      <3>3. \A h \in Htlc : Subscribed(l, h)' => invoice'.htlcs[h] = "Accepted" \/ Listed(h)'
        BY <1>1, <2>7, <2>8, <3>1 DEF HearOk
      <3> QED
        BY <1>1, <2>4, <2>5, <2>6, <3>1, <3>2, <3>3 DEF HearOk
    <2>10. ASSUME flaps = 0, NEW h \in Htlc, registry'.timers[h] > 0
           PROVE  h \in link'[LinkOf[h]].asked
      BY <1>0, <2>4, <2>5, <2>10, InvFacts
    <2> QED
      BY <1>1, <2>9, <2>10 DEF HearInv
  <1> QED
    BY <1>2, <1>3

\* A notification ends with nothing left to tell.
LEMMA HearFinish ==
    ASSUME Inv, HearInv, NEW p \in Caller, FinishNotify(p)
    PROVE  HearInv'
  <1>0. /\ call \in [Caller -> CallType] /\ registry \in RegistryType
        /\ registry.timers \in [Htlc -> Nat] /\ Good(invoice)
        /\ Caller = Link \cup {"rpc", "loop", "watcher"}
        /\ \A k \in Link : LinkCallOk(k)
        /\ \A q \in {"rpc", "loop", "watcher"} : OtherCallOk(q)
    BY InvFacts DEF RegistryType
  <1>1. /\ call[p].at = "notify" /\ call[p].todo = {}
        /\ call' = [call EXCEPT ![p] = Idle]
        /\ registry' = [registry EXCEPT !.lock = IF @ = p THEN None ELSE @]
        /\ UNCHANGED <<link, flaps>>
    BY DEF FinishNotify, At
  <1>2. registry'.subs = registry.subs /\ registry'.timers = registry.timers
    BY <1>0, <1>1 DEF RegistryType
  <1>3. /\ \A q \in Caller : q # p => call'[q] = call[q]
        /\ call'[p].at = "idle"
    BY <1>0, <1>1, IdleFields
  <1>4. \A h \in Htlc : Listed(h) => Listed(h)'
    BY <1>1, <1>3, ListKept
  <1>5. \A h \in Htlc : invoice.htlcs[h] = "Accepted" => invoice'.htlcs[h] = "Accepted"
    <2>1. CASE p \in Link
      BY <2>1 DEF FinishNotify
    <2>2. CASE p \in {"rpc", "loop", "watcher"}
      <3>1. p \notin Link
        BY <2>2, InvFacts
      <3>2. invoice' = IF call[p].res = "cancel" /\ GcOnTheFly
                       THEN NoInvoice("Deleted") ELSE invoice
        BY <3>1 DEF FinishNotify
      <3>3. call[p].res = "cancel" => \A h \in Htlc : invoice.htlcs[h] # "Accepted"
        BY <1>0, <1>1, <2>2 DEF OtherCallOk, Good, Counted, Known, HTLCSet
      <3> QED
        BY <3>2, <3>3
    <2> QED
      BY <1>0, <2>1, <2>2
  <1>6. \A l \in Link : call[l].at = "subscribe" /\ HearOk(l)
                            => invoice'.htlcs[call[l].htlc] = "Accepted"
    BY <1>0, <1>5 DEF HearOk, LinkCallOk
  <1>7. \A l \in Link : call'[l] = call[l] \/ (call[l].at = "notify" /\ call'[l].at = "idle")
    BY <1>0, <1>1, <1>3
  <1> QED
    BY <1>0, <1>1, <1>2, <1>4, <1>5, <1>6, <1>7, HearFrame

\* A goroutine takes the lock, or finds it free, and tells what it resolves.
LEMMA HearLocked ==
    ASSUME Inv, HearInv, NEW p \in {"rpc", "loop", "watcher"},
           link' = link, flaps' = flaps, registry.lock = None \/ invoice' = invoice,
           registry'.subs = registry.subs, registry'.timers = registry.timers,
           \A q \in Caller : q # p => call'[q] = call[q], call[p].todo = {},
           \A h \in Htlc : invoice.htlcs[h] = "Accepted"
                               => invoice'.htlcs[h] = "Accepted" \/ Listed(h)'
    PROVE  HearInv'
  <1>1. /\ \A l \in Link : LinkCallOk(l) /\ l # p /\ l \in Caller /\ l # None
        /\ registry.timers \in [Htlc -> Nat]
        /\ p \in Caller
    BY InvFacts DEF RegistryType
  <1>2. \A h \in Htlc : Listed(h) => Listed(h)'
    BY <1>1, ListKept
  <1>3. \A l \in Link : call[l].at = "subscribe" /\ HearOk(l)
                            => invoice'.htlcs[call[l].htlc] = "Accepted"
    BY <1>1 DEF LinkCallOk, HearOk
  <1>4. \A l \in Link : call'[l] = call[l]
    BY <1>1
  <1> QED
    BY <1>1, <1>2, <1>3, <1>4, HearFrame

\* The event loop releases an HTLC: its link is not about to subscribe to it.
LEMMA HearRelease ==
    ASSUME Inv, HearInv, NEW h \in Htlc, AutoRelease(h)
    PROVE  HearInv'
  <1>0. /\ registry \in RegistryType /\ registry.timers \in [Htlc -> Nat]
        /\ Good(invoice) /\ OtherCallOk("loop") /\ "loop" \in Caller
        /\ call \in [Caller -> CallType]
        /\ \A l \in Link : LinkCallOk(l) /\ l # "loop" /\ l \in Caller
    BY InvFacts DEF RegistryType
  <1>1. /\ link' = link /\ flaps' = flaps /\ call["loop"].at = "idle"
        /\ registry' = [registry EXCEPT !.timers[h] = @ - 1]
        /\ registry.timers[h] > 0
        /\ IF CanRelease(invoice, h)
           THEN /\ invoice' = cancelHTLC(invoice, h)
                /\ call' = [call EXCEPT !["loop"] =
                      Notifying("release", Resolution("fail", {h}))]
           ELSE UNCHANGED <<invoice, call>>
    BY DEF AutoRelease, At
  <1>2. /\ registry'.subs = registry.subs /\ registry'.timers \in [Htlc -> Nat]
        /\ \A k \in Htlc : registry'.timers[k] > 0 => registry.timers[k] > 0
    BY <1>0, <1>1 DEF RegistryType
  <1>3. call["loop"].todo = {}
    BY <1>0, <1>1 DEF OtherCallOk
  <1>4. \A q \in Caller : q # "loop" => call'[q] = call[q]
    BY <1>0, <1>1
  <1>5. \A k \in Htlc : Listed(k) => Listed(k)'
    BY <1>0, <1>3, <1>4, ListKept
  <1>6. CASE CanRelease(invoice, h)
    <2>1. \A k \in Htlc : invoice'.htlcs[k] = IF k = h THEN "Canceled" ELSE invoice.htlcs[k]
      BY <1>0, <1>1, <1>6, ReleaseMoves
    <2> DEFINE S == {h}
    <2>2. call'["loop"].todo = Resolution("fail", S)
      BY <1>0, <1>1, <1>6 DEF Notifying, Idle
    <2>3. \A k \in S : Listed(k)'
      <3> HIDE DEF S
      <3> QED
        BY <1>0, <2>2, ListNew
    <2>4. \A l \in Link : call[l].at = "subscribe" /\ HearOk(l)
                              => invoice'.htlcs[call[l].htlc] = "Accepted"
      BY <1>0, <1>1, <2>1 DEF HearOk, LinkCallOk
    <2>5. \A k \in Htlc : invoice.htlcs[k] = "Accepted"
                              => invoice'.htlcs[k] = "Accepted" \/ Listed(k)'
      BY <2>1, <2>3
    <2>6. \A l \in Link : call'[l] = call[l]
      BY <1>0, <1>4
    <2> QED
      BY <1>1, <1>2, <1>5, <2>4, <2>5, <2>6, HearFrame
  <1>7. CASE ~ CanRelease(invoice, h)
    <2>1. UNCHANGED <<invoice, call>>
      BY <1>1, <1>7
    <2>2. \A l \in Link : call[l].at = "subscribe" /\ HearOk(l)
                              => invoice'.htlcs[call[l].htlc] = "Accepted"
      BY <2>1 DEF HearOk
    <2> QED
      BY <1>1, <1>2, <1>5, <2>1, <2>2, HearFrame
  <1> QED
    BY <1>6, <1>7

\* Whoever cancels the invoice tells of all its HTLCs.
LEMMA HearCancel ==
    ASSUME Inv, HearInv, NEW p \in {"rpc", "watcher"}, NEW cancelAccepted \in BOOLEAN,
           NEW rest \in RegistryType, rest.subs = registry.subs,
           rest.timers = registry.timers, Cancelling(p, cancelAccepted, rest)
    PROVE  HearInv'
  <1>0. /\ Good(invoice) /\ OtherCallOk(p) /\ p \in Caller
        /\ call \in [Caller -> CallType]
    BY InvFacts
  <1>1. /\ link' = link /\ flaps' = flaps
        /\ registry.lock = None /\ call[p].at = "idle"
        /\ cancelInvoiceImpl(p, cancelAccepted)
        /\ registry' = [rest EXCEPT
                !.lock = IF CanCancel(invoice, cancelAccepted) THEN p ELSE @]
    BY DEF Cancelling, Locked
  <1>2. registry'.subs = registry.subs /\ registry'.timers = registry.timers
    BY <1>1 DEF RegistryType
  <1>3. call[p].todo = {}
    BY <1>0, <1>1 DEF OtherCallOk
  <1>4. \A q \in Caller : q # p => call'[q] = call[q]
    BY <1>0, <1>1 DEF cancelInvoiceImpl
  <1>5. \A h \in Htlc : invoice.htlcs[h] = "Accepted"
                            => invoice'.htlcs[h] = "Accepted" \/ Listed(h)'
    <2>1. CASE CanCancel(invoice, cancelAccepted)
      <3> DEFINE S == HTLCSet(invoice', "Canceled")
      <3>1. /\ invoice' = cancelInvoice(invoice)
            /\ call' = [call EXCEPT ![p] = Notifying("cancel", Resolution("fail", S))]
        BY <1>1, <2>1 DEF cancelInvoiceImpl
      <3>2. invoice.state \in {"Open", "Accepted"}
        BY <2>1 DEF CanCancel
      <3>3. /\ Moves(invoice, invoice', {})
            /\ \A h \in Htlc : invoice'.htlcs[h] \in {"None", "Canceled"}
        BY <1>0, <3>1, <3>2, CancelMoves
      <3>4. \A h \in Htlc : invoice.htlcs[h] = "Accepted" => invoice'.htlcs[h] = "Canceled"
        <4>1. /\ invoice \in InvoiceType
              /\ \A h \in Htlc : invoice'.htlcs[h]
                     = IF invoice.htlcs[h] # "None" THEN "Canceled" ELSE invoice.htlcs[h]
          BY <1>0, <3>1, AlignEffect DEF Good, cancelInvoice, Aligned
        <4> QED
          BY <4>1
      <3>5. call'[p].todo = Resolution("fail", S)
        <4> HIDE DEF S
        <4> QED
          BY <1>0, <3>1 DEF Notifying, Idle
      <3>6. \A h \in S : Listed(h)'
        <4> HIDE DEF S
        <4> QED
          BY <1>0, <3>5, ListNew
      <3> QED
        BY <3>4, <3>6 DEF HTLCSet
    <2>2. CASE ~ CanCancel(invoice, cancelAccepted)
      BY <1>1, <2>2 DEF cancelInvoiceImpl
    <2> QED
      BY <2>1, <2>2
  <1> QED
    BY <1>1, <1>2, <1>3, <1>4, <1>5, HearLocked

\* The watcher and the RPCs.
LEMMA HearRpc ==
    ASSUME Inv, HearInv, Watcher \/ Rpc
    PROVE  HearInv'
  <1>0. /\ registry \in RegistryType /\ Good(invoice) /\ payload \in PayloadType
        /\ OtherCallOk("rpc") /\ "rpc" \in Caller
        /\ call \in [Caller -> CallType]
    BY InvFacts DEF TypeInv
  <1>1. CASE cancelNextExpiredInvoice
    <2> DEFINE rest == [registry EXCEPT !.timestamp = FALSE]
    <2>1. /\ rest \in RegistryType /\ rest.subs = registry.subs
          /\ rest.timers = registry.timers
      BY <1>0 DEF RegistryType
    <2>2. Cancelling("watcher", FALSE, rest)
      BY <1>1 DEF cancelNextExpiredInvoice
    <2> HIDE DEF rest
    <2> QED
      BY <2>1, <2>2, HearCancel
  <1>2. CASE cancelNextHeightExpiredInvoice
    <2>1. PICK e \in registry.heights :
              Cancelling("watcher", TRUE, [registry EXCEPT !.heights = @ \ {e}])
      BY <1>2 DEF cancelNextHeightExpiredInvoice
    <2> DEFINE rest == [registry EXCEPT !.heights = @ \ {e}]
    <2>2. /\ rest \in RegistryType /\ rest.subs = registry.subs
          /\ rest.timers = registry.timers
      BY <1>0 DEF RegistryType
    <2>3. Cancelling("watcher", TRUE, rest)
      BY <2>1
    <2> HIDE DEF rest
    <2> QED
      BY <2>2, <2>3, HearCancel
  <1>3. CASE CancelInvoice
    BY <1>0, <1>3, HearCancel DEF CancelInvoice
  <1>4. CASE SettleHodlInvoice
    <2> DEFINE S == HTLCSet(invoice', "Settled")
    <2>1. /\ link' = link /\ flaps' = flaps /\ registry.lock = None
          /\ call["rpc"].at = "idle"
          /\ invoice' = settleHodlInvoice(invoice, payload)
          /\ call' = [call EXCEPT !["rpc"] = Notifying("settle", Resolution("settle", S))]
          /\ registry' = [registry EXCEPT !.lock = "rpc"]
      BY <1>4 DEF SettleHodlInvoice, Locked
    <2>2. invoice.state = "Accepted"
      BY <1>4 DEF SettleHodlInvoice, CanSettleHodl
    <2>3. SettlesOnly(invoice, invoice') /\ Good(invoice') /\ invoice'.state = "Settled"
      BY <1>0, <2>1, <2>2, SettleMoves DEF Moves
    <2>4. \A h \in Htlc : invoice.htlcs[h] = "Accepted" => h \in S
      BY <2>3 DEF SettlesOnly, Good, HTLCSet
    <2>5. call'["rpc"].todo = Resolution("settle", S) /\ call["rpc"].todo = {}
      <3> HIDE DEF S
      <3> QED
        BY <1>0, <2>1 DEF Notifying, Idle, OtherCallOk
    <2> HIDE DEF S
    <2>6. \A h \in S : Listed(h)'
      BY <1>0, <2>5, ListNew
    <2>7. registry'.subs = registry.subs /\ registry'.timers = registry.timers
      BY <1>0, <2>1 DEF RegistryType
    <2>8. \A q \in Caller : q # "rpc" => call'[q] = call[q]
      BY <1>0, <2>1
    <2> QED
      BY <2>1, <2>4, <2>5, <2>6, <2>7, <2>8, HearLocked
  <1>5. ASSUME NEW hodl \in BOOLEAN, AddInvoice(hodl) PROVE HearInv'
    <2>1. /\ UNCHANGED <<link, registry, flaps>> /\ registry.lock = None
          /\ invoice.state = "Absent" /\ call["rpc"].at = "idle"
          /\ call' = [call EXCEPT !["rpc"].at = "expiry"]
      BY <1>5 DEF AddInvoice, Locked, Step
    <2>2. \A h \in Htlc : invoice.htlcs[h] # "Accepted"
      BY <1>0, <2>1 DEF Good, Known
    <2>3. call["rpc"].todo = {}
      BY <1>0, <2>1 DEF OtherCallOk
    <2>4. \A q \in Caller : q # "rpc" => call'[q] = call[q]
      BY <1>0, <2>1
    <2> QED
      BY <2>1, <2>2, <2>3, <2>4, HearLocked
  <1>6. CASE WatchInvoice
    <2>1. /\ UNCHANGED <<invoice, link, flaps>> /\ call["rpc"].at = "expiry"
          /\ registry' = [registry EXCEPT !.timestamp = TRUE]
          /\ call' = [call EXCEPT !["rpc"] = Idle]
      BY <1>6 DEF WatchInvoice, At
    <2>2. registry'.subs = registry.subs /\ registry'.timers = registry.timers
      BY <1>0, <2>1 DEF RegistryType
    <2>3. call["rpc"].todo = {}
      BY <1>0, <2>1 DEF OtherCallOk
    <2>4. \A q \in Caller : q # "rpc" => call'[q] = call[q]
      BY <1>0, <2>1
    <2> QED
      BY <2>1, <2>2, <2>3, <2>4, HearLocked
  <1> QED
    BY <1>1, <1>2, <1>3, <1>4, <1>5, <1>6 DEF Watcher, Rpc

\* Nothing is held after a restart.
LEMMA HearRestart ==
    ASSUME Inv, Restart
    PROVE  HearInv'
  <1>1. ASSUME NEW l \in Link PROVE HearOk(l)'
    <2>1. l \in Caller
      BY InvFacts
    <2>2. /\ link'[l].stopping = "no" /\ link'[l].hodlMap = {}
          /\ call'[l] = Idle
      BY <2>1 DEF Restart, NewLink
    <2>3. registry'.subs = {}
      BY DEF Restart, NewRegistry
    <2> QED
      BY <2>2, <2>3, IdleFields DEF HearOk, Holds, Holding, Subscribed
  <1>2. \A h \in Htlc : registry'.timers[h] = 0
    BY DEF Restart, NewRegistry
  <1> QED
    BY <1>1, <1>2 DEF HearInv

\* Nothing is held at first.
LEMMA HearInit == Init => HearInv
  <1> SUFFICES ASSUME Init PROVE HearInv
    OBVIOUS
  <1>1. ASSUME NEW l \in Link PROVE HearOk(l)
    <2>1. /\ link[l].stopping = "no" /\ link[l].hodlMap = {} /\ call[l] = Idle
      BY DEF Init, NewLink, Caller
    <2>2. registry.subs = {}
      BY DEF Init, NewRegistry
    <2> QED
      BY <2>1, <2>2, IdleFields DEF HearOk, Holds, Holding, Subscribed
  <1>2. \A h \in Htlc : registry.timers[h] = 0
    BY DEF Init, NewRegistry
  <1> QED
    BY <1>1, <1>2 DEF HearInv

\* A link that stops ends what is claimed.
LEMMA HearStop ==
    ASSUME Inv, HearInv, NEW l \in Link, StopLink(l)
    PROVE  HearInv'
  <1>1. flaps \in Nat
    BY InvFacts DEF TypeInv
  <1>2. CASE HodlUnsubscribeAll(l)
    BY <1>1, <1>2 DEF HodlUnsubscribeAll, HearInv
  <1>3. CASE StopQueue(l) \/ RestartLink(l)
    <2>1. flaps' = flaps /\ link[l].stopping # "no"
      BY <1>3 DEF StopQueue, RestartLink
    <2>2. flaps # 0
      BY <2>1 DEF HearInv, HearOk
    <2> QED
      BY <2>1, <2>2 DEF HearInv
  <1> QED
    BY <1>2, <1>3 DEF StopLink

\* Nothing of it changes.
LEMMA HearQuiet ==
    ASSUME Inv, HearInv, NewBlock \/ UNCHANGED vars
    PROVE  HearInv'
  <1>1. UNCHANGED <<invoice, link, registry, call, flaps>>
    BY DEF NewBlock, vars
  <1>2. registry.timers \in [Htlc -> Nat]
    BY InvFacts DEF RegistryType
  <1> QED
    BY <1>1, <1>2, HearFrame DEF HearOk, Listed

\* Every step keeps it.
LEMMA HearStep == Inv /\ HearInv /\ [Next]_vars => HearInv'
  <1> SUFFICES ASSUME Inv, HearInv, [Next]_vars PROVE HearInv'
    OBVIOUS
  <1>1. ASSUME NEW l \in Link, LinkStep(l) PROVE HearInv'
    BY <1>1, HearExitHop, HearSubscribe, HearHold, HearQueue DEF LinkStep
  <1>2. ASSUME NEW l \in Link, StopLink(l) PROVE HearInv'
    BY <1>2, HearStop
  <1>3. ASSUME NEW p \in Caller, notifyHodlSubscribers(p) \/ FinishNotify(p) PROVE HearInv'
    BY <1>3, HearNotify, HearFinish
  <1>4. ASSUME NEW h \in Htlc, AutoRelease(h) PROVE HearInv'
    BY <1>4, HearRelease
  <1> QED
    BY <1>1, <1>2, <1>3, <1>4, HearRpc, HearQuiet, HearRestart DEF Next

\* While no link stopped, a link at rest holds only HTLCs the invoice holds: it
\* was told of every resolution.
THEOREM HearsSafety == Spec => []HeldHears
  <1>1. ASSUME Inv, HearInv PROVE HeldHears
    <2>1. SUFFICES ASSUME flaps = 0, Quiet, NEW l \in Link, NEW h \in link[l].hodlMap
                   PROVE  ~ Resolved(h)
      BY DEF HeldHears, MissesNothing
    <2>2. /\ HearOk(l) /\ h \in Htlc /\ Good(invoice)
          /\ \A p \in Caller : call[p].todo = {}
      <3>1. link[l].hodlMap \in SUBSET Htlc
        BY <1>1, InvFacts DEF LinkType
      <3> QED
        BY <1>1, <2>1, <3>1, InvFacts DEF HearInv, Quiet, At, LinkCallOk, OtherCallOk
    <2>3. ~ Queued(l, h) /\ ~ Listed(h)
      BY <2>1, <2>2 DEF Quiet, Queued, Listed
    <2>4. invoice.htlcs[h] = "Accepted"
      BY <2>2, <2>3 DEF HearOk, Holds
    <2> QED
      BY <2>2, <2>4 DEF Resolved, Exists, Good, Known
  <1>2. Init => Inv /\ HearInv
    BY InvInit, HearInit
  <1>3. Inv /\ HearInv /\ [Next]_vars => (Inv /\ HearInv)'
    BY InvStep, HearStep
  <1> QED
    BY <1>1, <1>2, <1>3, PTL DEF Spec

-----------------------------------------------------------------------------
(* What is held is released in time.                                       *)

\* The way of an HTLC into the map of its link, and what the invoice was when it
\* set out.
WayOk(l) ==
    /\ call[l].at \in {"subscribe"} \cup Holding => invoice.state # "Absent"
    /\ call[l].at \in {"subscribe", "expiry"} /\ call[l].res.outcome = "Accepted" =>
           call[l].expiry > 0 /\ invoice.state \in Later
    /\ call[l].at = "expiry" => call[l].res.outcome = "Accepted"
    /\ call[l].at = "hold" => invoice.state \in Later

\* What is held while the invoice is open has a timer.
TimerOk(l) ==
    \A h \in link[l].hodlMap :
        invoice.htlcs[h] = "Accepted" /\ invoice.state = "Open" => registry.timers[h] > 0

\* Every HTLC of an accepted invoice is watched, also one that no link holds,
\* but for those that came when the invoice was accepted already.
WatchedOk ==
    invoice.state = "Accepted" =>
        \A h \in Htlc :
            invoice.htlcs[h] = "Accepted" /\ h \notin duplicates => Watched(h)

ReleaseInv ==
    /\ \A h \in Htlc : invoice.htlcs[h] = "Accepted" => payload[h].expiry > 0
    /\ \A l \in Link : WayOk(l) /\ TimerOk(l)
    /\ WatchedOk

\* A step that accepts nothing and leaves timers, heights and the way of every
\* HTLC: it may resolve HTLCs, and links may let them go.
LEMMA ReleaseFrame ==
    ASSUME Inv, ReleaseInv, payload' = payload, duplicates' = duplicates,
           \A h \in Htlc : invoice'.htlcs[h] = "Accepted" => invoice.htlcs[h] = "Accepted",
           invoice.state # "Absent" => invoice'.state # "Absent",
           invoice.state \in Later => invoice'.state \in Later,
           invoice'.state = "Open" =>
               invoice.state = "Open" \/ \A h \in Htlc : invoice'.htlcs[h] # "Accepted",
           invoice'.state = "Accepted" =>
               invoice.state = "Accepted" /\ registry.heights \subseteq registry'.heights,
           \A l \in Link : \/ call'[l] = call[l]
                           \/ call[l].at = "notify" /\ call'[l].at \in {"notify", "idle"},
           \A l \in Link : link'[l].hodlMap \subseteq link[l].hodlMap,
           \A h \in Htlc : invoice'.state = "Open" /\ invoice'.htlcs[h] = "Accepted"
                               /\ registry.timers[h] > 0 => registry'.timers[h] > 0
    PROVE  ReleaseInv'
  <1>1. \A l \in Link : link[l].hodlMap \subseteq Htlc
    BY InvFacts DEF LinkType
  <1>2. ASSUME NEW l \in Link PROVE WayOk(l)'
    <2>1. WayOk(l)
      BY DEF ReleaseInv
    <2> QED
      BY <2>1 DEF WayOk, Holding
  <1>3. ASSUME NEW l \in Link PROVE TimerOk(l)'
    <2>1. TimerOk(l)
      BY DEF ReleaseInv
    <2> QED
      BY <1>1, <2>1 DEF TimerOk
  <1>4. ASSUME NEW h \in Htlc, invoice'.state = "Accepted", Watched(h)
        PROVE  Watched(h)'
    <2>1. CASE \E e \in registry.heights : e <= payload[h].expiry
      BY <1>4, <2>1 DEF Watched
    <2>2. CASE Registering(h)
      <3>1. PICK l \in Link : /\ call[l].at \in {"subscribe", "expiry"}
                              /\ call[l].res.outcome = "Accepted"
                              /\ call[l].expiry <= payload[h].expiry
        BY <2>2 DEF Registering
      <3>2. call'[l] = call[l]
        BY <3>1
      <3> QED
        BY <3>1, <3>2 DEF Watched, Registering
    <2> QED
      BY <1>4, <2>1, <2>2 DEF Watched
  <1>5. WatchedOk'
    BY <1>4 DEF ReleaseInv, WatchedOk
  <1> QED
    BY <1>2, <1>3, <1>5 DEF ReleaseInv

\* What updateInvoice accepts has time left, and is a duplicate if it comes to
\* an accepted invoice.
LEMMA AcceptsInTime ==
    ASSUME payload \in PayloadType, NEW inv, NEW h \in Htlc,
           NEW u, u = updateInvoice(inv, payload, h, height), u.invoice # inv
    PROVE  /\ ~ TooSoon(payload, h, height)
           /\ inv.state = "Accepted" => u.res.outcome = "DuplicateToAccepted"
  <1>1. \A res : Unchanged(inv, res).invoice = inv
    BY DEF Unchanged
  <1>2. CASE u = updateLegacy(inv, payload, h, height)
    BY <1>1, <1>2 DEF updateLegacy, Held
  <1>3. CASE u = updateMpp(inv, payload, h, height)
    <2>1. inv.state = "Open" /\ ~ TooSoon(payload, h, height)
      BY <1>1, <1>3 DEF updateMpp
    <2> QED
      BY <2>1
  <1> QED
    BY <1>1, <1>2, <1>3 DEF updateInvoice

\* A link asks the registry for an HTLC: if it is accepted it will be watched.
LEMMA ReleaseExitHop ==
    ASSUME FinalCltvDelta > 0, Inv, ReleaseInv,
           NEW h \in Htlc, NotifyExitHopHtlc(h)
    PROVE  ReleaseInv'
  <1> DEFINE l == LinkOf[h]
             u == updateInvoice(invoice, payload, h, height)
  <1>0. /\ l \in Link /\ TypeInv /\ Good(invoice) /\ payload \in PayloadType
        /\ \A k \in Link : k \in Caller /\ LinkOk(k)
        /\ call \in [Caller -> CallType] /\ link \in [Link -> LinkType]
        /\ registry \in RegistryType /\ height \in Nat /\ FinalCltvDelta \in Nat
    BY InvFacts, InvoiceRegistryAssumption DEF TypeInv
  <1>1. PICK res \in HtlcResolution :
              /\ Updates(invoice, h, invoice', res)
              /\ call'[l].res = res
              /\ IF res.kind = "hold"
                 THEN /\ call'[l].at = "subscribe"
                      /\ call'[l].expiry =
                             IF invoice'.hodl THEN MinExpiry(invoice', payload) ELSE 0
                 ELSE call'[l].at = "notify"
              /\ call' = [call EXCEPT ![l] = call'[l]]
    BY <1>0, NotifyExitHopEffect
  <1>2. /\ call[l].at = "idle" /\ h \notin link[l].asked
        /\ link' = [link EXCEPT ![l].asked = @ \cup {h}]
        /\ registry' = [registry EXCEPT !.lock = l]
        /\ payload' = payload /\ invoice' = u.invoice
        /\ duplicates' = IF u.res.outcome = "DuplicateToAccepted"
                           THEN duplicates \cup {h} ELSE duplicates
    BY <1>0 DEF NotifyExitHopHtlc, Locked
  <1>3. \A k \in Link : k # l => call'[k] = call[k]
    BY <1>0, <1>1
  <1>4. /\ registry'.timers = registry.timers /\ registry'.heights = registry.heights
        /\ \A k \in Link : link'[k].hodlMap = link[k].hodlMap
    BY <1>0, <1>2 DEF RegistryType, LinkType
  <1>5. invoice' = invoice \/
            /\ ~ TooSoon(payload, h, height)
            /\ invoice.state = "Accepted" => u.res.outcome = "DuplicateToAccepted"
    <2> HIDE DEF u
    <2> QED
      BY <1>0, <1>2, AcceptsInTime DEF u
  <1> HIDE DEF l, u
  <1>6. Good(invoice') /\ Moves(invoice, invoice', {h})
    BY <1>1 DEF Updates, Moves
  <1>7. \A k \in Htlc : invoice'.htlcs[k] = "Accepted" => k = h \/ invoice.htlcs[k] = "Accepted"
    <2>1. \A k \in Htlc : invoice.htlcs[k] \in HtlcState
      BY <1>0 DEF Good, InvoiceType
    <2> QED
      BY <1>6, <2>1 DEF Moves, HtlcState, Good, Known
  <1>8. \A k \in Htlc : invoice'.htlcs[k] = "Accepted" => payload'[k].expiry > 0
    <2>1. invoice' = invoice \/ payload[h].expiry > 0
      <3>1. payload[h].expiry \in Nat
        BY <1>0 DEF PayloadType
      <3> QED
        BY <1>0, <1>5, <3>1 DEF TooSoon
    <2> QED
      BY <1>2, <1>7, <2>1 DEF ReleaseInv
  <1>9. res.outcome = "Accepted" =>
            /\ call'[l].at = "subscribe" /\ invoice'.state = "Accepted"
            /\ call'[l].expiry > 0
            /\ \A k \in HTLCSet(invoice', "Accepted") : call'[l].expiry <= payload[k].expiry
    <2> SUFFICES ASSUME res.outcome = "Accepted"
                 PROVE  /\ call'[l].at = "subscribe" /\ invoice'.state = "Accepted"
                        /\ call'[l].expiry > 0
                        /\ \A k \in HTLCSet(invoice', "Accepted") :
                               call'[l].expiry <= payload[k].expiry
      OBVIOUS
    <2>1. res.kind = "hold" /\ invoice'.state = "Accepted"
      BY <1>1 DEF Updates
    <2>2. invoice'.hodl /\ HTLCSet(invoice', "Accepted") # {}
      BY <1>6, <2>1 DEF Good
    <2>3. call'[l].at = "subscribe" /\ call'[l].expiry = MinExpiry(invoice', payload)
      BY <1>1, <2>1, <2>2
    <2>4. /\ \A k \in HTLCSet(invoice', "Accepted") :
                 MinExpiry(invoice', payload) <= payload[k].expiry
          /\ \E k \in HTLCSet(invoice', "Accepted") :
                 MinExpiry(invoice', payload) = payload[k].expiry
      BY <1>0, <2>2, MinExpiryNat
    <2>5. \A k \in HTLCSet(invoice', "Accepted") : payload[k].expiry > 0
      BY <1>2, <1>8 DEF HTLCSet
    <2> QED
      BY <2>1, <2>3, <2>4, <2>5
  <1>10. ASSUME NEW k \in Link PROVE WayOk(k)'
    <2>1. CASE k = l
      <3>1. call'[k].at \in {"subscribe"} \cup Holding => invoice'.state # "Absent"
        <4>1. res.kind = "hold" => invoice'.htlcs[h] = "Accepted"
          BY <1>1 DEF Updates
        <4> QED
          BY <1>1, <1>6, <2>1, <4>1 DEF Holding, Good, Known
      <3>2. call'[k].at \in {"subscribe", "notify"}
        BY <1>1, <2>1
      <3> QED
        BY <1>1, <1>9, <2>1, <3>1, <3>2 DEF WayOk, Later
    <2>2. CASE k # l
      <3>1. WayOk(k) /\ call'[k] = call[k]
        BY <1>3, <2>2 DEF ReleaseInv
      <3> QED
        BY <1>6, <3>1 DEF WayOk, Moves
    <2> QED
      BY <2>1, <2>2
  <1>11. ASSUME NEW k \in Link PROVE TimerOk(k)'
    <2>1. SUFFICES ASSUME NEW g \in link[k].hodlMap, invoice'.htlcs[g] = "Accepted",
                          invoice'.state = "Open"
                   PROVE  registry.timers[g] > 0
      BY <1>4 DEF TimerOk
    <2>2. g \in Htlc /\ g \in link[k].asked /\ LinkOf[g] = k
      BY <1>0, <2>1 DEF LinkOk, LinkType
    <2>3. g # h
      BY <1>2, <2>2 DEF l
    <2>4. invoice.htlcs[g] = "Accepted"
      BY <1>7, <2>1, <2>2, <2>3
    <2>5. invoice.state = "Open"
      <3>1. invoice.state # "Absent" /\ invoice.state \in ContractState
        BY <1>0, <2>2, <2>4 DEF Good, Known, InvoiceType
      <3>2. invoice.state \notin Later
        BY <1>6, <2>1 DEF Moves, Later
      <3> QED
        BY <3>1, <3>2 DEF ContractState, Later
    <2> QED
      BY <2>1, <2>4, <2>5 DEF ReleaseInv, TimerOk
  <1>12. ASSUME NEW k \in Htlc, Watched(k) PROVE Watched(k)'
    <2>1. CASE \E e \in registry.heights : e <= payload[k].expiry
      BY <1>2, <1>4, <2>1 DEF Watched
    <2>2. CASE Registering(k)
      <3>1. PICK m \in Link : /\ call[m].at \in {"subscribe", "expiry"}
                              /\ call[m].res.outcome = "Accepted"
                              /\ call[m].expiry <= payload[k].expiry
        BY <2>2 DEF Registering
      <3>2. call'[m] = call[m]
        BY <1>2, <1>3, <3>1
      <3> QED
        BY <1>2, <3>1, <3>2 DEF Watched, Registering
    <2> QED
      BY <1>12, <2>1, <2>2 DEF Watched
  <1>13. WatchedOk'
    <2>1. SUFFICES ASSUME invoice'.state = "Accepted", NEW k \in Htlc,
                          invoice'.htlcs[k] = "Accepted", k \notin duplicates'
                   PROVE  Watched(k)'
      BY DEF WatchedOk
    <2>2. CASE res.outcome = "Accepted"
      <3>1. k \in HTLCSet(invoice', "Accepted")
        BY <2>1 DEF HTLCSet
      <3>2. Registering(k)'
        BY <1>0, <1>1, <1>2, <1>9, <2>2, <3>1 DEF Registering
      <3> QED
        BY <3>2 DEF Watched
    <2>3. CASE res.outcome # "Accepted"
      <3>1. invoice.state = "Accepted" /\ k \notin duplicates
        BY <1>1, <1>2, <2>1, <2>3 DEF Updates
      <3>2. CASE invoice.htlcs[k] = "Accepted"
        BY <1>12, <3>1, <3>2 DEF ReleaseInv, WatchedOk
      <3>3. CASE invoice.htlcs[k] # "Accepted"
        <4>1. k = h /\ invoice' # invoice
          BY <1>7, <2>1, <3>3
        <4> QED
          BY <1>2, <1>5, <2>1, <3>1, <4>1
      <3> QED
        BY <3>2, <3>3
    <2> QED
      BY <2>2, <2>3
  <1> QED
    BY <1>2, <1>8, <1>10, <1>11, <1>13 DEF ReleaseInv

\* The HTLC is subscribed: what the link does next goes by the state of the
\* invoice.
LEMMA ReleaseSubscribe ==
    ASSUME Inv, ReleaseInv, NEW l \in Link, hodlSubscribe(l)
    PROVE  ReleaseInv'
  <1>0. /\ l \in Caller /\ call \in [Caller -> CallType] /\ registry \in RegistryType
        /\ \A k \in Link : k \in Caller
        /\ invoice.state \in ContractState /\ WayOk(l)
    BY InvFacts DEF ReleaseInv, Good, InvoiceType
  <1>1. /\ call[l].at = "subscribe" /\ UNCHANGED <<payload, invoice, link, duplicates>>
        /\ call' = [call EXCEPT ![l].at = AfterSubscribe(call[l].res, invoice.state)]
        /\ registry'.timers = registry.timers /\ registry'.heights = registry.heights
    BY <1>0 DEF hodlSubscribe, At, Step, RegistryType
  <1>2. /\ call'[l].at = IF call[l].res.outcome = "Accepted" THEN "expiry"
                         ELSE IF invoice.state = "Open" THEN "timer" ELSE "hold"
        /\ call'[l].res = call[l].res /\ call'[l].expiry = call[l].expiry
        /\ \A k \in Link : k # l => call'[k] = call[k]
    BY <1>0, <1>1 DEF AfterSubscribe, CallType
  <1>3. ASSUME NEW k \in Link PROVE WayOk(k)'
    <2>1. CASE k = l
      BY <1>0, <1>1, <1>2, <2>1 DEF WayOk, Later, ContractState
    <2>2. CASE k # l
      BY <1>1, <1>2, <2>2 DEF ReleaseInv, WayOk
    <2> QED
      BY <2>1, <2>2
  <1>4. \A k \in Link : TimerOk(k)'
    BY <1>1 DEF ReleaseInv, TimerOk
  <1>5. ASSUME NEW h \in Htlc, Watched(h) PROVE Watched(h)'
    <2>1. ASSUME NEW k \in Link, call[k].at \in {"subscribe", "expiry"},
                 call[k].res.outcome = "Accepted", call[k].expiry <= payload[h].expiry
          PROVE  Registering(h)'
      <3>1. /\ call'[k].at \in {"subscribe", "expiry"}
            /\ call'[k].res = call[k].res /\ call'[k].expiry = call[k].expiry
        BY <1>2, <2>1
      <3> QED
        BY <1>1, <2>1, <3>1 DEF Registering
    <2> QED
      BY <1>1, <1>5, <2>1 DEF Watched, Registering
  <1> QED
    BY <1>1, <1>3, <1>4, <1>5 DEF ReleaseInv, WatchedOk

\* The link puts the HTLC on hold: with a height at the watcher, with a timer,
\* or because the invoice is not open any more.
LEMMA ReleaseHold ==
    ASSUME Inv, ReleaseInv, NEW l \in Link,
           RegisterExpiry(l) \/ startHtlcTimer(l) \/ JustHold(l)
    PROVE  ReleaseInv'
  <1> DEFINE h == call[l].htlc
  <1>0. /\ l \in Caller /\ call \in [Caller -> CallType] /\ link \in [Link -> LinkType]
        /\ registry \in RegistryType /\ registry.timers \in [Htlc -> Nat]
        /\ \A k \in Link : k \in Caller /\ link[k].hodlMap \subseteq Htlc
        /\ LinkCallOk(l) /\ WayOk(l)
    BY InvFacts DEF ReleaseInv, RegistryType, LinkType
  <1>1. /\ call[l].at \in Holding /\ UNCHANGED <<payload, invoice, duplicates>>
        /\ link' = [link EXCEPT ![l].hodlMap = @ \cup {h}]
        /\ call' = [call EXCEPT ![l] = Idle]
    BY DEF RegisterExpiry, startHtlcTimer, JustHold, Hold, At, Holding
  <1>2. /\ call'[l].at = "idle" /\ \A k \in Link : k # l => call'[k] = call[k]
        /\ h \in Htlc
        /\ link'[l].hodlMap = link[l].hodlMap \cup {h}
        /\ \A k \in Link : k # l => link'[k] = link[k]
    BY <1>0, <1>1, IdleFields DEF LinkCallOk, Holding, LinkType
  <1>3. /\ \A k \in Htlc : registry.timers[k] > 0 => registry'.timers[k] > 0
        /\ invoice.state = "Open" => registry'.timers[h] > 0
        /\ registry.heights \subseteq registry'.heights
        /\ call[l].at = "expiry" => call[l].expiry \in registry'.heights
    <2>1. CASE RegisterExpiry(l)
      <3>1. /\ registry'.timers = registry.timers
            /\ registry'.heights = registry.heights \cup ({call[l].expiry} \ {0})
        BY <1>0, <2>1 DEF RegisterExpiry, RegistryType
      <3>2. call[l].expiry > 0 /\ invoice.state \in Later
        BY <1>0, <2>1 DEF WayOk, RegisterExpiry, At
      <3> QED
        BY <3>1, <3>2 DEF Later
    <2>2. CASE startHtlcTimer(l)
      <3>1. /\ call[l].at = "timer" /\ registry'.heights = registry.heights
            /\ registry'.timers = [registry.timers EXCEPT ![h] = @ + 1]
        BY <1>0, <2>2 DEF startHtlcTimer, At, RegistryType
      <3> HIDE DEF h
      <3>2. \A k \in Htlc : registry'.timers[k] =
                IF k = h THEN registry.timers[k] + 1 ELSE registry.timers[k]
        BY <1>0, <3>1
      <3>3. \A k \in Htlc : registry.timers[k] \in Nat
        BY <1>0
      <3> QED
        BY <1>2, <3>1, <3>2, <3>3
    <2>3. CASE JustHold(l)
      BY <1>0, <2>3 DEF JustHold, At, WayOk, Later
    <2> QED
      BY <1>1, <2>1, <2>2, <2>3
  <1> HIDE DEF h
  <1>4. \A k \in Link : WayOk(k)'
    BY <1>1, <1>2 DEF ReleaseInv, WayOk, Holding
  <1>5. ASSUME NEW k \in Link PROVE TimerOk(k)'
    <2>1. TimerOk(k)
      BY DEF ReleaseInv
    <2>2. ASSUME NEW g \in link'[k].hodlMap PROVE g = h \/ (g \in link[k].hodlMap /\ g \in Htlc)
      BY <1>0, <1>2, <2>2
    <2> QED
      BY <1>1, <1>3, <2>1, <2>2 DEF TimerOk
  <1>6. ASSUME NEW g \in Htlc, Watched(g) PROVE Watched(g)'
    <2>1. ASSUME NEW k \in Link, call[k].at \in {"subscribe", "expiry"},
                 call[k].res.outcome = "Accepted", call[k].expiry <= payload[g].expiry
          PROVE  Watched(g)'
      <3>1. CASE k = l
        <4>1. call[l].at = "expiry"
          BY <1>1, <2>1, <3>1 DEF Holding
        <4> QED
          BY <1>1, <1>3, <2>1, <3>1, <4>1 DEF Watched
      <3>2. CASE k # l
        BY <1>1, <1>2, <2>1, <3>2 DEF Watched, Registering
      <3> QED
        BY <3>1, <3>2
    <2> QED
      BY <1>1, <1>3, <1>6, <2>1 DEF Watched, Registering
  <1> QED
    BY <1>1, <1>4, <1>5, <1>6 DEF ReleaseInv, WatchedOk

\* After a restart the watcher knows the first HTLC to time out.
LEMMA ReleaseRestart ==
    ASSUME Inv, ReleaseInv, Restart
    PROVE  ReleaseInv'
  <1>0. Good(invoice) /\ payload \in PayloadType
    BY InvFacts DEF TypeInv
  <1>1. /\ UNCHANGED <<payload, invoice>> /\ registry' = NewRegistry(invoice)
        /\ \A l \in Link : call'[l] = Idle /\ link'[l].hodlMap = {}
    BY DEF Restart, NewLink, Caller
  <1>2. \A l \in Link : WayOk(l)' /\ TimerOk(l)'
    BY <1>1, IdleFields DEF WayOk, TimerOk, Holding
  <1>3. ASSUME invoice.state = "Accepted", NEW h \in Htlc, invoice.htlcs[h] = "Accepted"
        PROVE  Watched(h)'
    <2> DEFINE e == MinExpiry(invoice, payload)
    <2>1. h \in HTLCSet(invoice, "Accepted")
      BY <1>3 DEF HTLCSet
    <2>2. e \in Nat /\ e <= payload[h].expiry
          /\ \E k \in HTLCSet(invoice, "Accepted") : e = payload[k].expiry
      BY <1>0, <2>1, MinExpiryNat
    <2>3. \A k \in HTLCSet(invoice, "Accepted") : payload[k].expiry > 0
      BY DEF HTLCSet, ReleaseInv
    <2>4. e \in registry'.heights
      <3>1. registry'.heights = {e} \ {0}
        BY <1>0, <1>1, <1>3 DEF NewRegistry, Good
      <3> QED
        BY <2>2, <2>3, <3>1
    <2> QED
      BY <1>1, <2>2, <2>4 DEF Watched
  <1> QED
    BY <1>1, <1>2, <1>3 DEF ReleaseInv, WatchedOk

\* The other steps of a link, and of its stopping.
LEMMA ReleaseLink ==
    ASSUME Inv, ReleaseInv, NEW l \in Link,
           \/ processHodlQueue(l) \/ StopLink(l)
           \/ \E h \in Htlc : LinkOf[h] = l /\ Commit(h)
    PROVE  ReleaseInv'
  <1>0. link \in [Link -> LinkType]
    BY InvFacts
  <1>1. /\ UNCHANGED <<payload, invoice, call, duplicates>>
        /\ registry'.timers = registry.timers /\ registry'.heights = registry.heights
    <2>1. registry \in RegistryType
      BY InvFacts
    <2> QED
      BY <2>1 DEF processHodlQueue, StopLink, HodlUnsubscribeAll, StopQueue, RestartLink,
             Commit, RegistryType
  <1>2. \A k \in Link : link'[k].hodlMap \subseteq link[k].hodlMap
    <2>1. CASE processHodlQueue(l)
      <3>1. PICK r \in link[l].hodlQueue :
                link' = [link EXCEPT ![l].hodlQueue = @ \ {r}, ![l].hodlMap = @ \ {r.htlc}]
        BY <2>1 DEF processHodlQueue
      <3> QED
        BY <1>0, <3>1 DEF LinkType
    <2>2. CASE HodlUnsubscribeAll(l) \/ StopQueue(l)
      BY <1>0, <2>2 DEF HodlUnsubscribeAll, StopQueue, LinkType
    <2>3. CASE RestartLink(l)
      BY <1>0, <2>3 DEF RestartLink, NewLink
    <2>4. ASSUME NEW h \in Htlc, Commit(h) PROVE \A k \in Link : link'[k].hodlMap \subseteq link[k].hodlMap
      BY <1>0, <2>4 DEF Commit, LinkType
    <2> QED
      BY <2>1, <2>2, <2>3, <2>4 DEF StopLink
  <1>3. \A h \in Htlc : registry'.timers[h] = registry.timers[h]
    BY <1>1
  <1> QED
    BY <1>1, <1>2, <1>3, ReleaseFrame

\* A notification under way changes neither the invoice nor what is held, and
\* one that is over may delete a canceled invoice.
LEMMA ReleaseNotify ==
    ASSUME Inv, ReleaseInv, NEW p \in Caller, notifyHodlSubscribers(p) \/ FinishNotify(p)
    PROVE  ReleaseInv'
  <1>0. /\ call \in [Caller -> CallType] /\ registry \in RegistryType
        /\ link \in [Link -> LinkType] /\ \A l \in Link : l \in Caller
        /\ Good(invoice) /\ Caller = Link \cup {"rpc", "loop", "watcher"}
        /\ \A q \in {"rpc", "loop", "watcher"} : OtherCallOk(q) /\ q \notin Link
    BY InvFacts
  <1>1. /\ call[p].at = "notify" /\ payload' = payload /\ duplicates' = duplicates
        /\ registry'.timers = registry.timers /\ registry'.heights = registry.heights
    BY <1>0 DEF notifyHodlSubscribers, FinishNotify, At, RegistryType
  <1>2. /\ call'[p].at \in {"notify", "idle"}
        /\ \A q \in Caller : q # p => call'[q] = call[q]
    <2>1. CASE FinishNotify(p)
      BY <1>0, <2>1, IdleFields DEF FinishNotify
    <2>2. CASE notifyHodlSubscribers(p)
      <3>1. call' = call \/ \E r \in call[p].todo : call' = [call EXCEPT ![p].todo = @ \ {r}]
        BY <2>2 DEF notifyHodlSubscribers
      <3> QED
        BY <1>0, <1>1, <3>1 DEF CallType
    <2> QED
      BY <2>1, <2>2
  <1>3. \A l \in Link : link'[l].hodlMap \subseteq link[l].hodlMap
    <2>1. CASE FinishNotify(p)
      BY <2>1 DEF FinishNotify
    <2>2. CASE notifyHodlSubscribers(p) /\ link' # link
      <3> DEFINE queues(r) == {s[2] : s \in {t \in registry.subs : t[1] = r.htlc}}
      <3>1. PICK r \in call[p].todo :
                link' = [l \in Link |->
                    IF QueueOf(l) \in queues(r)
                    THEN [link[l] EXCEPT !.hodlQueue = @ \cup {r}] ELSE link[l]]
        BY <2>2 DEF notifyHodlSubscribers
      <3> HIDE DEF queues
      <3> QED
        BY <1>0, <3>1 DEF LinkType
    <2> QED
      BY <2>1, <2>2
  <1>4. \/ invoice' = invoice
        \/ invoice.state \in {"Canceled", "Deleted"} /\ invoice' = NoInvoice("Deleted")
    <2>1. CASE notifyHodlSubscribers(p) \/ p \in Link
      BY <2>1 DEF notifyHodlSubscribers, FinishNotify
    <2>2. CASE FinishNotify(p) /\ p \in {"rpc", "loop", "watcher"}
      BY <1>0, <1>1, <2>2 DEF FinishNotify, OtherCallOk
    <2> QED
      BY <1>0, <2>1, <2>2
  <1>5. \A h \in Htlc : registry'.timers[h] = registry.timers[h]
    BY <1>1
  <1>6. \A l \in Link : \/ call'[l] = call[l]
                        \/ call[l].at = "notify" /\ call'[l].at \in {"notify", "idle"}
    BY <1>0, <1>1, <1>2
  <1>7. CASE invoice' = invoice
    BY <1>1, <1>3, <1>5, <1>6, <1>7, ReleaseFrame
  <1>8. CASE invoice.state \in {"Canceled", "Deleted"} /\ invoice' = NoInvoice("Deleted")
    <2>1. /\ invoice'.state = "Deleted"
          /\ \A h \in Htlc : invoice'.htlcs[h] # "Accepted"
      BY <1>8 DEF NoInvoice, NewInvoice
    <2> QED
      BY <1>1, <1>3, <1>5, <1>6, <1>8, <2>1, ReleaseFrame DEF Later
  <1> QED
    BY <1>4, <1>7, <1>8

\* Who is not a link leaves alone what the links hold; what it resolves does
\* not wait any more.
LEMMA ReleaseOther ==
    ASSUME Inv, ReleaseInv, NEW p \in {"rpc", "loop", "watcher"},
           payload' = payload, duplicates' = duplicates, link' = link,
           \A q \in Caller : q # p => call'[q] = call[q],
           \A h \in Htlc : invoice'.htlcs[h] = "Accepted" => invoice.htlcs[h] = "Accepted",
           invoice.state # "Absent" => invoice'.state # "Absent",
           invoice.state \in Later => invoice'.state \in Later,
           invoice'.state = "Open" =>
               invoice.state = "Open" \/ \A h \in Htlc : invoice'.htlcs[h] # "Accepted",
           invoice'.state = "Accepted" =>
               invoice.state = "Accepted" /\ registry.heights \subseteq registry'.heights,
           \A h \in Htlc : invoice'.state = "Open" /\ invoice'.htlcs[h] = "Accepted"
                               /\ registry.timers[h] > 0 => registry'.timers[h] > 0
    PROVE  ReleaseInv'
  <1>1. \A l \in Link : call'[l] = call[l]
    BY InvFacts
  <1>2. \A l \in Link : link'[l].hodlMap \subseteq link[l].hodlMap
    OBVIOUS
  <1> QED
    BY <1>1, <1>2, ReleaseFrame

\* The event loop takes the timer of an HTLC away with the HTLC.
LEMMA ReleaseAuto ==
    ASSUME Inv, ReleaseInv, NEW h \in Htlc, AutoRelease(h)
    PROVE  ReleaseInv'
  <1>0. /\ registry \in RegistryType /\ registry.timers \in [Htlc -> Nat]
        /\ Good(invoice) /\ call \in [Caller -> CallType] /\ "loop" \in Caller
    BY InvFacts DEF RegistryType
  <1>1. /\ link' = link /\ payload' = payload /\ duplicates' = duplicates
        /\ registry' = [registry EXCEPT !.timers[h] = @ - 1]
        /\ IF CanRelease(invoice, h)
           THEN /\ invoice' = cancelHTLC(invoice, h)
                /\ call' = [call EXCEPT !["loop"] =
                      Notifying("release", Resolution("fail", {h}))]
           ELSE UNCHANGED <<invoice, call>>
    BY DEF AutoRelease
  <1>2. /\ registry'.heights = registry.heights
        /\ \A k \in Htlc : k # h => registry'.timers[k] = registry.timers[k]
    BY <1>0, <1>1 DEF RegistryType
  <1>3. \A q \in Caller : q # "loop" => call'[q] = call[q]
    BY <1>0, <1>1
  <1>4. CASE CanRelease(invoice, h)
    <2>1. /\ Moves(invoice, invoice', {}) /\ invoice'.state = "Open" /\ invoice.state = "Open"
          /\ \A k \in Htlc : invoice'.htlcs[k] = IF k = h THEN "Canceled" ELSE invoice.htlcs[k]
      BY <1>0, <1>1, <1>4, ReleaseMoves DEF CanRelease
    <2>2. \A k \in Htlc : invoice'.htlcs[k] = "Accepted" => k # h /\ invoice.htlcs[k] = "Accepted"
      BY <2>1
    <2> QED
      BY <1>1, <1>2, <1>3, <2>1, <2>2, ReleaseOther DEF Later
  <1>5. CASE ~ CanRelease(invoice, h)
    <2>1. invoice' = invoice
      BY <1>1, <1>5
    <2>2. \A k \in Htlc : invoice.state = "Open" /\ invoice.htlcs[k] = "Accepted" => k # h
      BY <1>5 DEF CanRelease
    <2> QED
      BY <1>1, <1>2, <1>3, <2>1, <2>2, ReleaseOther
  <1> QED
    BY <1>4, <1>5

\* A height leaves the watcher with every HTLC it stands for.
LEMMA ReleaseCancel ==
    ASSUME Inv, ReleaseInv, NEW p \in {"rpc", "watcher"}, NEW cancelAccepted \in BOOLEAN,
           NEW rest \in RegistryType, rest.timers = registry.timers,
           cancelAccepted \/ rest.heights = registry.heights,
           Cancelling(p, cancelAccepted, rest)
    PROVE  ReleaseInv'
  <1>0. Good(invoice) /\ p \in Caller /\ call \in [Caller -> CallType]
    BY InvFacts
  <1>1. /\ link' = link /\ payload' = payload /\ duplicates' = duplicates
        /\ cancelInvoiceImpl(p, cancelAccepted)
        /\ registry'.timers = registry.timers /\ registry'.heights = rest.heights
    BY DEF Cancelling, RegistryType
  <1>2. \A q \in Caller : q # p => call'[q] = call[q]
    BY <1>0, <1>1 DEF cancelInvoiceImpl
  <1>3. \A h \in Htlc : registry'.timers[h] = registry.timers[h]
    BY <1>1
  <1>4. CASE CanCancel(invoice, cancelAccepted)
    <2>1. invoice.state \in {"Open", "Accepted"} /\ invoice' = cancelInvoice(invoice)
      BY <1>1, <1>4 DEF cancelInvoiceImpl, CanCancel
    <2>2. /\ Moves(invoice, invoice', {}) /\ invoice'.state = "Canceled"
          /\ \A h \in Htlc : invoice'.htlcs[h] \in {"None", "Canceled"}
      BY <1>0, <2>1, CancelMoves
    <2>3. \A h \in Htlc : invoice'.htlcs[h] # "Accepted"
      BY <2>2
    <2> QED
      BY <1>1, <1>2, <1>3, <2>2, <2>3, ReleaseOther DEF Later
  <1>5. CASE ~ CanCancel(invoice, cancelAccepted)
    <2>1. invoice' = invoice /\ (invoice.state = "Accepted" => ~ cancelAccepted)
      BY <1>1, <1>5 DEF cancelInvoiceImpl, CanCancel
    <2> QED
      BY <1>1, <1>2, <1>3, <2>1, ReleaseOther
  <1> QED
    BY <1>4, <1>5

\* The watcher and the RPCs.
LEMMA ReleaseRpc ==
    ASSUME Inv, ReleaseInv, Watcher \/ Rpc
    PROVE  ReleaseInv'
  <1>0. /\ registry \in RegistryType /\ Good(invoice) /\ payload \in PayloadType
        /\ "rpc" \in Caller /\ call \in [Caller -> CallType]
    BY InvFacts DEF TypeInv
  <1>1. CASE cancelNextExpiredInvoice
    <2> DEFINE rest == [registry EXCEPT !.timestamp = FALSE]
    <2>1. /\ rest \in RegistryType /\ rest.heights = registry.heights
          /\ rest.timers = registry.timers
      BY <1>0 DEF RegistryType
    <2>2. Cancelling("watcher", FALSE, rest)
      BY <1>1 DEF cancelNextExpiredInvoice
    <2> HIDE DEF rest
    <2> QED
      BY <2>1, <2>2, ReleaseCancel
  <1>2. CASE cancelNextHeightExpiredInvoice
    <2>1. PICK e \in registry.heights :
              Cancelling("watcher", TRUE, [registry EXCEPT !.heights = @ \ {e}])
      BY <1>2 DEF cancelNextHeightExpiredInvoice
    <2> DEFINE rest == [registry EXCEPT !.heights = @ \ {e}]
    <2>2. rest \in RegistryType /\ rest.timers = registry.timers
      BY <1>0 DEF RegistryType
    <2>3. Cancelling("watcher", TRUE, rest)
      BY <2>1
    <2> HIDE DEF rest
    <2> QED
      BY <2>2, <2>3, ReleaseCancel
  <1>3. CASE CancelInvoice
    BY <1>0, <1>3, ReleaseCancel DEF CancelInvoice
  <1>4. CASE SettleHodlInvoice
    <2>1. /\ link' = link /\ payload' = payload /\ duplicates' = duplicates
          /\ invoice' = settleHodlInvoice(invoice, payload)
          /\ registry' = [registry EXCEPT !.lock = "rpc"]
          /\ \A q \in Caller : q # "rpc" => call'[q] = call[q]
      BY <1>0, <1>4 DEF SettleHodlInvoice
    <2>2. invoice.state = "Accepted"
      BY <1>4 DEF SettleHodlInvoice, CanSettleHodl
    <2>3. Good(invoice') /\ invoice'.state = "Settled"
      BY <1>0, <2>1, <2>2, SettleMoves DEF Moves
    <2>4. \A h \in Htlc : invoice'.htlcs[h] # "Accepted"
      BY <2>3 DEF Good, HTLCSet
    <2> QED
      BY <2>1, <2>2, <2>3, <2>4, ReleaseOther DEF Later
  <1>5. ASSUME NEW hodl \in BOOLEAN, AddInvoice(hodl) PROVE ReleaseInv'
    <2>1. /\ UNCHANGED <<payload, link, registry, duplicates>> /\ invoice.state = "Absent"
          /\ invoice' = NewInvoice(hodl)
          /\ \A q \in Caller : q # "rpc" => call'[q] = call[q]
      BY <1>0, <1>5 DEF AddInvoice, Step
    <2>2. invoice'.state = "Open" /\ \A h \in Htlc : invoice'.htlcs[h] = "None"
      BY <2>1 DEF NewInvoice
    <2> QED
      BY <2>1, <2>2, ReleaseOther DEF Later
  <1>6. CASE WatchInvoice
    <2>1. /\ UNCHANGED <<payload, invoice, link, duplicates>>
          /\ registry'.timers = registry.timers /\ registry'.heights = registry.heights
          /\ \A q \in Caller : q # "rpc" => call'[q] = call[q]
      BY <1>0, <1>6 DEF WatchInvoice, RegistryType
    <2> QED
      BY <2>1, ReleaseOther
  <1> QED
    BY <1>1, <1>2, <1>3, <1>4, <1>5, <1>6 DEF Watcher, Rpc

\* Nothing is held at first.
LEMMA ReleaseInit == Init => ReleaseInv
  <1> SUFFICES ASSUME Init PROVE ReleaseInv
    OBVIOUS
  <1>1. /\ invoice = NoInvoice("Absent")
        /\ \A l \in Link : call[l] = Idle /\ link[l].hodlMap = {}
    BY DEF Init, NewLink, Caller
  <1>2. invoice.state = "Absent" /\ \A h \in Htlc : invoice.htlcs[h] = "None"
    BY <1>1 DEF NoInvoice, NewInvoice
  <1> QED
    BY <1>1, <1>2, IdleFields DEF ReleaseInv, WayOk, TimerOk, WatchedOk, Holding

\* Every step keeps it.
LEMMA ReleaseStep ==
    ASSUME FinalCltvDelta > 0
    PROVE  Inv /\ ReleaseInv /\ [Next]_vars => ReleaseInv'
  <1> SUFFICES ASSUME Inv, ReleaseInv, [Next]_vars PROVE ReleaseInv'
    OBVIOUS
  <1>1. ASSUME NEW l \in Link, LinkStep(l) PROVE ReleaseInv'
    BY <1>1, ReleaseExitHop, ReleaseSubscribe, ReleaseHold, ReleaseLink DEF LinkStep
  <1>2. ASSUME NEW l \in Link, StopLink(l) PROVE ReleaseInv'
    BY <1>2, ReleaseLink
  <1>3. ASSUME NEW p \in Caller, notifyHodlSubscribers(p) \/ FinishNotify(p) PROVE ReleaseInv'
    BY <1>3, ReleaseNotify
  <1>4. ASSUME NEW h \in Htlc, AutoRelease(h) PROVE ReleaseInv'
    BY <1>4, ReleaseAuto
  <1>5. CASE NewBlock \/ UNCHANGED vars
    <2>1. UNCHANGED <<payload, invoice, link, registry, call, duplicates>>
      BY <1>5 DEF NewBlock, vars
    <2> QED
      BY <2>1, ReleaseOther
  <1> QED
    BY <1>1, <1>2, <1>3, <1>4, <1>5, ReleaseRpc, ReleaseRestart DEF Next

\* Who knows an HTLC knows every one that times out later.
LEMMA WatchedLater ==
    ASSUME Inv, NEW h \in Htlc, NEW k \in Htlc, Watched(k),
           payload[k].expiry <= payload[h].expiry
    PROVE  Watched(h)
  <1>1. payload[k].expiry \in Nat /\ payload[h].expiry \in Nat
    BY InvFacts DEF TypeInv, PayloadType
  <1>2. CASE \E e \in registry.heights : e <= payload[k].expiry
    <2>1. registry.heights \subseteq Nat
      BY InvFacts DEF RegistryType
    <2> QED
      BY <1>1, <1>2, <2>1 DEF Watched
  <1>3. CASE Registering(k)
    <2>1. \A l \in Link : call[l].expiry \in Nat
      BY InvFacts DEF CallType
    <2> QED
      BY <1>1, <1>3, <2>1 DEF Watched, Registering
  <1> QED
    BY <1>2, <1>3 DEF Watched

\* No link holds an HTLC that nobody will ever release: one that waits for the
\* rest of its set has a timer, one that waits for the preimage is known to the
\* watcher by its height or an earlier one, unless it is a duplicate that came
\* to the accepted invoice and times out before all the others.  It takes a
\* final CLTV delta, for an HTLC must not time out at height 0.
THEOREM HeldSafety ==
    ASSUME FinalCltvDelta > 0
    PROVE  Spec => []HeldReleased
  <1>1. Inv /\ ReleaseInv => HeldReleased
    <2> SUFFICES ASSUME Inv, ReleaseInv, NEW l \in Link, NEW h \in link[l].hodlMap,
                        invoice.htlcs[h] = "Accepted"
                 PROVE  /\ invoice.state = "Open" => Releasing(h)
                        /\ invoice.state = "Accepted" => Watched(h) \/ MissedDuplicate(h)
      BY DEF HeldReleased
    <2>1. h \in Htlc /\ TimerOk(l) /\ WatchedOk
      BY InvFacts DEF ReleaseInv, LinkType
    <2>2. ASSUME invoice.state = "Accepted", ~ MissedDuplicate(h) PROVE Watched(h)
      <3>1. CASE h \notin duplicates
        BY <2>1, <2>2, <3>1 DEF WatchedOk
      <3>2. CASE h \in duplicates
        <4>1. PICK k \in HTLCSet(invoice, "Accepted") \ duplicates :
                  ~ (payload[h].expiry < payload[k].expiry)
          BY <2>2, <3>2 DEF MissedDuplicate
        <4>2. k \in Htlc /\ Watched(k)
          BY <2>1, <2>2, <4>1 DEF HTLCSet, WatchedOk
        <4>3. payload[k].expiry <= payload[h].expiry
          <5>1. payload[k].expiry \in Nat /\ payload[h].expiry \in Nat
            BY <2>1, <4>2, InvFacts DEF TypeInv, PayloadType
          <5> QED
            BY <4>1, <5>1
        <4> QED
          BY <2>1, <4>2, <4>3, WatchedLater
      <3> QED
        BY <3>1, <3>2
    <2> QED
      BY <2>1, <2>2 DEF TimerOk, Releasing
  <1>2. Init => Inv /\ ReleaseInv
    BY InvInit, ReleaseInit
  <1>3. Inv /\ ReleaseInv /\ [Next]_vars => (Inv /\ ReleaseInv)'
    BY InvStep, ReleaseStep
  <1> QED
    BY <1>1, <1>2, <1>3, PTL DEF Spec
=============================================================================
