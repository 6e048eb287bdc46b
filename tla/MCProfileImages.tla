-------------------------- MODULE MCProfileImages --------------------------
(* A small instance of ProfileImages for TLC. *)
EXTENDS ProfileImages, TLC

\* Bound: bodies name no keys beside accounts whose handlers have overlapped.
\* States beyond it are checked, their successors are left out.
NamedOrContested == pasted = {} \/ contested = {}

\* States that differ only in what no action and no property reads: whose a
\* removed object was and who left it, and a failed removal of a contested account.
MCView ==
    <<row, request, contested, halfRemoved \ contested, pasted, {k \in dropped : Stored(k)},
      [k \in Keys |-> IF object[k].state = "gone" THEN [object[k] EXCEPT !.owner = None]
                                                  ELSE object[k]]>>

Symmetry == Permutations(Accounts) \cup Permutations(Keys) \cup Permutations(Requests)
=============================================================================
