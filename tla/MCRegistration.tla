--------------------------- MODULE MCRegistration ---------------------------
(* A small instance of Registration for TLC. *)
EXTENDS Registration, TLC

Symmetry == Permutations(Phones) \cup Permutations(RequestIds)
                \cup Permutations(Requests)

=============================================================================
