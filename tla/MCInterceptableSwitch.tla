------------------------ MODULE MCInterceptableSwitch ------------------------
(***************************************************************************)
(* HTLCs that expire at the same height.                                   *)
(***************************************************************************)
EXTENDS InterceptableSwitch, TLC

CONSTANT ExpiryHeight

MCExpiry == [h \in Htlc |-> ExpiryHeight]
Symmetry == Permutations(Htlc)
=============================================================================
