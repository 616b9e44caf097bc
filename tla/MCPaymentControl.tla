-------------------------- MODULE MCPaymentControl --------------------------
(* Symmetry for the model checking of PaymentControl: hashes, callers and  *)
(* attempt identifiers are interchangeable, reasons and MPP records too.   *)
EXTENDS PaymentControl, TLC

Symmetry == Permutations(Hashes) \cup Permutations(Callers)
                \cup Permutations(AttemptIds) \cup Permutations(Mpps)
=============================================================================
