----------------------------- MODULE MCAccounts -----------------------------
(***************************************************************************)
(* Registration, Seed and Identities for TLC.  None of them needs the      *)
(* steps of another (WriteUser stands for those of Identities), so a       *)
(* behaviour takes the steps of one, which it chooses when it starts.      *)
(***************************************************************************)
EXTENDS MCRegistration, MCSeed, MCIdentities

VARIABLE part

Empty == [i \in Rows |-> "absent"]
NoUsers == [p \in Phones |-> "none"]

MCInit ==
    /\ Init /\ SeedInit /\ IdentityInit
    /\ \/ part = "registration" /\ configured /\ entry = Empty
       \/ part = "seed" /\ (configured \/ entry = Empty) /\ user = NoUsers
       \/ part = "identities" /\ configured /\ entry = Empty /\ user = NoUsers

MCNext ==
    /\ \/ part = "registration" /\ Next /\ UNCHANGED <<seedVars, identityVars>>
       \/ part = "seed" /\ SeedNext /\ UNCHANGED <<vars, identityVars>>
       \/ part = "identities" /\ IdentityNext /\ UNCHANGED <<vars, seedVars>>
    /\ UNCHANGED part

MCSpec == MCInit /\ [][MCNext]_<<vars, seedVars, identityVars, part>>

\* States that differ only in what no action and no property reads: the columns
\* of a removed user, and what an entity about to be saved was made from.
MCView ==
    <<vars, seedVars, part, alive, home, written,
      [a \in Accounts |-> IF a \in alive \/ row[a] = Null THEN row[a] ELSE Nothing],
      [r \in Handlers |-> IF handler[r].pc = "save"
                          THEN [handler[r] EXCEPT !.op = "update", !.dto = Nothing]
                          ELSE handler[r]]>>

\* Accounts share the names of phones, and the handlers of registrations and of
\* users those of commands, so that one permutation serves the three parts.
MCSymmetry == Permutations(Phones) \cup Permutations(Commands)
=============================================================================
