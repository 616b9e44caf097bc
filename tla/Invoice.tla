-------------------------------- MODULE Invoice --------------------------------
(***************************************************************************)
(* An invoice as package invoices of lnd keeps it on disk, and how an HTLC *)
(* that pays to it, the release of an HTLC, the settling of a hold invoice *)
(* and a cancellation change it (invoices/update.go, update_invoice.go).   *)
(* Every operator is the callback and the update of one database           *)
(* transaction.  AMP payments and keysends are left out.                   *)
(***************************************************************************)
EXTENDS Integers, FiniteSets, FiniteSetsExt

CONSTANTS
    Htlc,           \* circuit keys of the HTLCs that pay to the invoice
    Value,          \* Terms.Value
    FinalCltvDelta  \* blocks an HTLC must have left when it is accepted

\* Not on disk: the invoice was not added yet, or it was deleted.
ContractState == {"Absent", "Deleted", "Open", "Accepted", "Settled", "Canceled"}
HtlcState == {"None", "Accepted", "Settled", "Canceled"}

NewInvoice(hodl) ==
    [state |-> "Open", hodl |-> hodl,
     htlcs |-> [h \in Htlc |-> "None"], amtPaid |-> 0]

NoInvoice(state) == [NewInvoice(FALSE) EXCEPT !.state = state]
Exists(inv) == inv.state \notin {"Absent", "Deleted"}

\* Mutant: every HTLC that is not settled counts as part of the set.
WholeSet(inv, state) == {h \in Htlc : inv.htlcs[h] \notin {"None", "Settled"}}

HTLCSet(inv, state) == {h \in Htlc : inv.htlcs[h] = state}

\* payload[h]: amount, total of the multi-path payment (0 when the HTLC has no
\* MPP record) and the height the HTLC times out at.
Amount(payload, htlcs) == MapThenSumSet(LAMBDA h : payload[h].amt, htlcs)

\* Resolutions of one HTLC, as updateInvoice returns them.
Held(outcome) == [kind |-> "hold", outcome |-> outcome]
FailRes(outcome) == [kind |-> "fail", outcome |-> outcome]
SettleRes == [kind |-> "settle", outcome |-> "Settled"]
IsSetFailure(res) == res.outcome \in {"HtlcSetTotalTooLow", "HtlcSetTotalMismatch"}

Unchanged(inv, res) == [invoice |-> inv, res |-> res]

---------------------------------------------------------------------------
\* getUpdatedHtlcState: HTLCs follow the invoice.
AlignHtlcs(inv) ==
    [inv EXCEPT !.htlcs = [h \in Htlc |->
        IF inv.state = "Settled" /\ @[h] = "Accepted" THEN "Settled"
        ELSE IF inv.state = "Canceled" /\ @[h] # "None" THEN "Canceled"
        ELSE @[h]]]

\* addHTLCs: record the HTLC, move the invoice, align the HTLCs, recount.
AddHtlc(inv, payload, h, state) ==
    LET added == [inv EXCEPT !.htlcs[h] = "Accepted", !.state = state]
        aligned == AlignHtlcs(added)
    IN  [aligned EXCEPT !.amtPaid =
            IF state = "Open" THEN 0
            ELSE Amount(payload, HTLCSet(aligned, "Accepted")
                                    \cup HTLCSet(aligned, "Settled"))]

\* The invoice is paid in full: settle it, or hold it for its preimage.
Complete(inv, payload, h) ==
    IF inv.hodl
    THEN [invoice |-> AddHtlc(inv, payload, h, "Accepted"),
          res |-> Held("Accepted")]
    ELSE [invoice |-> AddHtlc(inv, payload, h, "Settled"), res |-> SettleRes]

TooSoon(payload, h, height) == payload[h].expiry < height + FinalCltvDelta

updateMpp(inv, payload, h, height) ==
    LET set == HTLCSet(inv, "Accepted")
        total == payload[h].total
        failure ==
            IF inv.state # "Open" THEN "InvoiceNotOpen"
            ELSE IF total < Value THEN "HtlcSetTotalTooLow"
            ELSE IF \E k \in set : payload[k].total # total
                THEN "HtlcSetTotalMismatch"
            ELSE IF TooSoon(payload, h, height) THEN "ExpiryTooSoon"
            ELSE "None"
    IN  IF failure # "None" THEN Unchanged(inv, FailRes(failure))
        ELSE IF Amount(payload, set) + payload[h].amt < total
            THEN [invoice |-> AddHtlc(inv, payload, h, "Open"),
                  res |-> Held("Partial")]
        ELSE Complete(inv, payload, h)

updateLegacy(inv, payload, h, height) ==
    LET failure ==
            IF inv.state = "Canceled" THEN "InvoiceAlreadyCanceled"
            ELSE IF payload[h].amt < Value THEN "AmountTooLow"
            ELSE IF \E k \in HTLCSet(inv, "Accepted") : payload[k].total > 0
                THEN "MppInProgress"
            ELSE IF TooSoon(payload, h, height) THEN "ExpiryTooSoon"
            ELSE "None"
    IN  IF failure # "None" THEN Unchanged(inv, FailRes(failure))
        ELSE IF inv.state = "Accepted"
            THEN [invoice |-> AddHtlc(inv, payload, h, "Accepted"),
                  res |-> Held("DuplicateToAccepted")]
        ELSE IF inv.state = "Settled"
            THEN [invoice |-> AddHtlc(inv, payload, h, "Settled"), res |-> SettleRes]
        ELSE Complete(inv, payload, h)

\* updateInvoice: an HTLC the invoice knows is a replay.
updateInvoice(inv, payload, h, height) ==
    LET known == inv.htlcs[h]
    IN  IF ~ Exists(inv) THEN Unchanged(inv, FailRes("InvoiceNotFound"))
        ELSE IF known = "Canceled" THEN Unchanged(inv, FailRes("ReplayToCanceled"))
        ELSE IF known = "Accepted" THEN Unchanged(inv, Held("ReplayToAccepted"))
        ELSE IF known = "Settled" THEN Unchanged(inv, SettleRes)
        ELSE IF payload[h].total = 0 THEN updateLegacy(inv, payload, h, height)
        ELSE updateMpp(inv, payload, h, height)

---------------------------------------------------------------------------
\* Mutant: only looks whether the invoice knows the HTLC.
ReleasesAnyHtlc(inv, h) == Exists(inv) /\ inv.htlcs[h] # "None"

\* cancelSingleHtlc, only while the invoice is open and the HTLC unresolved.
CanRelease(inv, h) == inv.state = "Open" /\ inv.htlcs[h] = "Accepted"
cancelHTLC(inv, h) == [inv EXCEPT !.htlcs[h] = "Canceled"]

CanSettleHodl(inv) == inv.state = "Accepted" /\ inv.hodl
settleHodlInvoice(inv, payload) ==
    [AlignHtlcs([inv EXCEPT !.state = "Settled"]) EXCEPT
        !.amtPaid = Amount(payload, HTLCSet(inv, "Accepted"))]

\* shouldCancel, and the states getUpdatedInvoiceState can cancel from.
CanCancel(inv, cancelAccepted) ==
    inv.state = "Open" \/ (inv.state = "Accepted" /\ cancelAccepted)
cancelInvoice(inv) == AlignHtlcs([inv EXCEPT !.state = "Canceled"])

\* makeInvoiceExpiry of an accepted hold invoice; 0 when there is none.
MinExpiry(inv, payload) ==
    LET set == HTLCSet(inv, "Accepted")
    IN  IF set = {} THEN 0 ELSE Min({payload[h].expiry : h \in set})
=============================================================================
