----------------------------- MODULE RoleGrants -----------------------------
(***************************************************************************)
(* What an admin expects of the permissions of a role: a create or an      *)
(* update replaces the set by the one that was sent, in one step, or       *)
(* leaves it alone.  RoleService keeps that promise for a role until two   *)
(* replacements of it overlap that do not both hold its row; from then on  *)
(* a replacement may leave a part of what it found and of what was sent.   *)
(***************************************************************************)
CONSTANTS Roles, Permissions, Clients, None

VARIABLES
    granted,  \* granted[x]: the permissions of role x
    wanted,   \* wanted[c]: the replacement client c is waiting for, or None
    exact     \* the roles whose replacements have been exact so far

vars == <<granted, wanted, exact>>

Replacement == [role : Roles, set : SUBSET Permissions]

Init ==
    /\ granted \in [Roles -> SUBSET Permissions]
    /\ wanted = [c \in Clients |-> None]
    /\ exact = Roles

Ask(c) ==
    /\ wanted[c] = None
    /\ \E w \in Replacement : wanted' = [wanted EXCEPT ![c] = w]
    /\ UNCHANGED granted

Replace(c) ==
    /\ wanted[c] # None
    /\ \E left \in SUBSET (granted[wanted[c].role] \cup wanted[c].set) :
         /\ wanted[c].role \in exact => left = wanted[c].set
         /\ granted' = [granted EXCEPT ![wanted[c].role] = left]
    /\ wanted' = [wanted EXCEPT ![c] = None]

GiveUp(c) ==
    /\ wanted[c] # None
    /\ wanted' = [wanted EXCEPT ![c] = None]
    /\ UNCHANGED granted

Next ==
    /\ \/ \E c \in Clients : Ask(c) \/ Replace(c) \/ GiveUp(c)
       \/ UNCHANGED <<granted, wanted>>
    /\ exact' \in SUBSET exact

Spec == Init /\ [][Next]_vars

=============================================================================
