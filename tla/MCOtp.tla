------------------------------- MODULE MCOtp -------------------------------
(* A small instance of Otp for TLC. *)
EXTENDS Otp, TLC

Symmetry == Permutations(Requests)

=============================================================================
