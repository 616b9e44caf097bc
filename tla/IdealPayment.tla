---------------------------- MODULE IdealPayment ----------------------------
(***************************************************************************)
(* What sending a payment promises its caller, whatever the number of      *)
(* HTLC attempts, goroutines and restarts it takes: a payment is pending   *)
(* until its outcome is final; HTLCs the receiver may still claim and HTLCs *)
(* it has claimed together never exceed the value; the payment is reported *)
(* failed only when nothing was and nothing can be claimed, succeeded only *)
(* when something was claimed and nothing is outstanding.                  *)
(***************************************************************************)
EXTENDS Naturals

CONSTANTS Value  \* the amount the caller asked to pay

VARIABLES
    phase,  \* what a caller reads in the payment record
    live,   \* the amount of the HTLCs the receiver may still claim
    paid    \* the amount the receiver has claimed

idealVars == <<phase, live, paid>>

Init == phase = "none" /\ live = 0 /\ paid = 0

Start == /\ phase \in {"none", "failed"}
         /\ phase' = "pending"
         /\ UNCHANGED <<live, paid>>

Offer == /\ phase = "pending"
         /\ live' \in live + 1 .. Value - paid
         /\ UNCHANGED <<phase, paid>>

\* HTLCs fail, or are lost before they left the node.
Return == /\ live' \in 0 .. live - 1
          /\ UNCHANGED <<phase, paid>>

Claim == /\ live' \in 0 .. live - 1
         /\ paid' = paid + (live - live')
         /\ UNCHANGED phase

Succeed == /\ phase = "pending" /\ live = 0 /\ paid > 0
           /\ phase' = "succeeded"
           /\ UNCHANGED <<live, paid>>

Fail == /\ phase = "pending" /\ live = 0 /\ paid = 0
        /\ phase' = "failed"
        /\ UNCHANGED <<live, paid>>

\* The record may be deleted, but never while HTLCs are outstanding.
Forget == /\ phase # "none" /\ live = 0
          /\ phase' = "none"
          /\ UNCHANGED <<live, paid>>

Next == Start \/ Offer \/ Return \/ Claim \/ Succeed \/ Fail \/ Forget

Spec == Init /\ [][Next]_idealVars
=============================================================================
