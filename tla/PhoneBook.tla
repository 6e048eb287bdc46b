----------------------------- MODULE PhoneBook -----------------------------
(***************************************************************************)
(* Table users as the registration of a phone depends on it: for each      *)
(* phone whether an active row has it, and whether that row logs in with a *)
(* provider or with a password.                                            *)
(***************************************************************************)
CONSTANT Phones

VARIABLE user   \* user[p]: how the active row of phone p logs in, if any

Kinds == {"sms", "oauth"}

Init == user \in [Phones -> {"none"} \cup Kinds]

\* A row appears, or one that was removed comes back.
AddUser(p, kind) ==
    /\ user[p] = "none"
    /\ user' = [user EXCEPT ![p] = kind]

\* A row moves to a free phone, gains a provider or loses it, or all at once.
ChangeUser(p1, p2, kind) ==
    /\ user[p1] # "none"
    /\ p2 = p1 \/ user[p2] = "none"
    /\ user' = [user EXCEPT ![p1] = "none", ![p2] = kind]

RemoveUser(p) ==
    /\ user[p] # "none"
    /\ user' = [user EXCEPT ![p] = "none"]

Write ==
    \E p \in Phones :
        \/ \E kind \in Kinds :
            \/ AddUser(p, kind)
            \/ \E other \in Phones : ChangeUser(p, other, kind)
        \/ RemoveUser(p)

Next == UNCHANGED user \/ Write

Spec == Init /\ [][Next]_user

=============================================================================
