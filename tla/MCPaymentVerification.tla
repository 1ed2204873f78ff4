----------------------- MODULE MCPaymentVerification -----------------------
(***************************************************************************)
(* Small instances of PaymentVerification for TLC: two requests in flight *)
(* at a time, which is what each of the races needs.                      *)
(***************************************************************************)
EXTENDS PaymentVerification, TLC

Symmetry == Permutations(Requests)
=============================================================================
