--------------------------- MODULE MCInvoiceRegistry ---------------------------
(***************************************************************************)
(* Two halves of a multi-path payment on two channels, and a third HTLC    *)
(* that pays the whole invoice on its own or claims another total; or two  *)
(* HTLCs that both pay the whole invoice, the third timing out first.      *)
(***************************************************************************)
EXTENDS InvoiceRegistry

CONSTANTS a, b, c, L1, L2

MCLinkOf == [h \in Htlc |-> IF h = b THEN L2 ELSE L1]
Half == [amt |-> 1, total |-> 2, expiry |-> 2]
Whole == [amt |-> 2, total |-> 0, expiry |-> 2]
Other == [amt |-> 1, total |-> 3, expiry |-> 2]
MCPayloads ==
    {[h \in Htlc |-> IF h = a THEN [Half EXCEPT !.expiry = 3]
                     ELSE IF h = b THEN Half ELSE p] : p \in {Whole, Other}}
    \cup {[h \in Htlc |-> IF h = a THEN [Whole EXCEPT !.expiry = 3]
                           ELSE IF h = b THEN Half ELSE Whole]}
=============================================================================
