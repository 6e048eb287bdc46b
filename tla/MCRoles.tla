------------------------------ MODULE MCRoles ------------------------------
(* A small instance of Roles for TLC. *)
EXTENDS Roles, Integers, FiniteSets, TLC

Symmetry == Permutations(Requests) \cup Permutations(RoleIds)
                \cup Permutations(Permissions)

\* Two slices: two handlers on the roles and the admin, with no permission; or one
\* role and its permissions, with no admin: two handlers of any kind, or three that
\* replace the permissions of the role, each by one of them or by none.
Running == {r \in Requests : request[r].pc # "idle"}
InUse   == UNION ({permissions[x] : x \in RoleIds}
                  \cup {request[r].asked : r \in {q \in Running : request[q].asked # None}})
Touched == {x \in RoleIds : \/ role[x] # "unused"
                             \/ \E r \in Requests : request[r].role = x}

Slices ==
    \/ Cardinality(Running) <= 2 /\ InUse = {}
    \/ /\ \A a \in Admins : admin[a].state = "unused"
       /\ \A r \in Requests : request[r].admin = None
       /\ Cardinality(Touched) <= 1
       /\ \/ Cardinality(Running) <= 2
          \/ /\ \A x \in RoleIds : role[x] # "deleted"
             /\ \A r \in Requests :
                   /\ request[r].asked # None
                   /\ Cardinality(request[r].asked) <= 1
                   /\ ~request[r].creates

=============================================================================
