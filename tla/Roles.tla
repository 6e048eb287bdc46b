------------------------------- MODULE Roles -------------------------------
(***************************************************************************)
(* Roles, their permissions and the admins that hold them: RoleService,    *)
(* RoleDeletionService and the writes of AdminService and AdminAuthService  *)
(* that touch admins.role_id.                                              *)
(*                                                                         *)
(* RoleService.create and update run in one READ COMMITTED transaction:    *)
(* what they write is seen by others when they commit, a statement waits   *)
(* for a row that another open transaction wrote, and a DELETE works on    *)
(* the rows that were committed when it started.  Everything else is one   *)
(* statement at a time, with an await in between.                          *)
(*                                                                         *)
(* Left out: names and emails (a duplicate is a rejected request), ranks,  *)
(* images, and rejected requests that change nothing.  Of the audit log only *)
(* whether the update of a role asks for its entry.  An await that fails   *)
(* ends its handler.                                                       *)
(***************************************************************************)
CONSTANTS
    RoleIds, Permissions,  \* ids of rows of tables roles and permissions
    Admins,                \* ids of rows of table admins
    Requests,              \* concurrent handlers
    None                   \* null

ASSUME NoneIsNothing ==
    /\ None \notin RoleIds \cup Admins
    /\ \A set \in SUBSET Permissions : set # None
    /\ None \notin [role : RoleIds, set : SUBSET Permissions]

VARIABLES
    role,         \* role[x]: state of row x of roles
    permissions,  \* permissions[x]: committed rows of role_permissions
    admin,        \* admin[a]: state of row a of admins, and its role_id
    request,      \* request[r]: what handler r holds across its awaits
    \* History variables: no action of the code reads them.
    contested,    \* roles that a handler was about to assign or save while
                  \* another was deleting them
    blurred,      \* roles with two replacements open at once, not both
                  \* holding the row
    overtaken,    \* roles deleted during an update that did not hold the row
    unaudited     \* roles of which an update committed and no entry was asked for

vars == <<role, permissions, admin, request, contested, blurred, overtaken, unaudited>>

-----------------------------------------------------------------------------
InTransaction == {"lock", "clear", "clearing", "assign", "insert", "read", "commit"}
Replacing     == {"clearing", "assign", "insert", "read", "commit"}
Assigning     == {"insertAdmin", "preload", "save"}
Deleting      == {"findRole", "softDelete"}
Pcs == {"idle", "checkRole", "softRemove"}
           \cup InTransaction \cup Assigning \cup Deleting

Idle == [pc |-> "idle", role |-> None, admin |-> None, asked |-> None,
         creates |-> FALSE, locked |-> FALSE, cleared |-> {}, inserted |-> {},
         seen |-> FALSE]

Replaces(q, x) == q.role = x /\ q.asked # None /\ q.pc \in Replacing
Assigns(q, x)  == q.role = x /\ q.pc \in Assigning
Deletes(q, x)  == q.role = x /\ q.pc \in Deleting

Alive(x)    == role[x] = "alive"
Active(a)   == admin[a].state = "active"
Holds(a, x) == Active(a) /\ admin[a].role = x

TypeOK ==
    /\ role \in [RoleIds -> {"unused", "alive", "deleted"}]
    /\ permissions \in [RoleIds -> SUBSET Permissions]
    /\ admin \in [Admins -> [state : {"unused", "active", "deleted"},
                             role : RoleIds \cup {None}]]
    /\ \A a \in Admins : Active(a) => admin[a].role # None
    /\ request \in
         [Requests -> [pc : Pcs, role : RoleIds \cup {None},
                       admin : Admins \cup {None},
                       asked : {None} \cup SUBSET Permissions,
                       creates : BOOLEAN, locked : BOOLEAN,
                       cleared : SUBSET Permissions,
                       inserted : SUBSET Permissions, seen : BOOLEAN]]
    /\ contested \in SUBSET RoleIds
    /\ blurred \in SUBSET RoleIds
    /\ overtaken \in SUBSET RoleIds
    /\ unaudited \in SUBSET RoleIds

\* Seeded roles and admins; the other ids are free.
Init ==
    /\ role \in [RoleIds -> {"unused", "alive"}]
    /\ permissions \in [RoleIds -> SUBSET Permissions]
    /\ \A x \in RoleIds : role[x] = "unused" => permissions[x] = {}
    /\ admin \in [Admins -> [state : {"unused", "active"}, role : RoleIds \cup {None}]]
    /\ \A a \in Admins : IF Active(a) THEN admin[a].role # None /\ Alive(admin[a].role)
                                      ELSE admin[a].role = None
    /\ request = [r \in Requests |-> Idle]
    /\ contested = {}
    /\ blurred = {}
    /\ overtaken = {}
    /\ unaudited = {}

Begin(r, q) ==
    /\ request[r].pc = "idle"
    /\ request' = [request EXCEPT ![r] = q]
    /\ UNCHANGED <<role, permissions, admin>>

Goto(r, pc) ==
    /\ request' = [request EXCEPT ![r] =
                       IF pc = "idle" THEN Idle ELSE [@ EXCEPT !.pc = pc]]
    /\ UNCHANGED <<role, permissions, admin>>

-----------------------------------------------------------------------------
(* The transactions of RoleService. *)

\* A new id; the row and its permissions show at the commit.
CreateRole(r, x, asked) ==
    /\ role[x] = "unused"
    /\ \A q \in Requests : request[q].role # x
    /\ Begin(r, [Idle EXCEPT !.pc = IF asked = {} THEN "read" ELSE "assign",
                             !.role = x, !.asked = asked, !.creates = TRUE])

\* renames: the DTO has a name, a description or a rank.
UpdateRole(r, x, asked, renames) ==
    /\ Alive(x)
    /\ renames \/ asked # None
    /\ Begin(r, [Idle EXCEPT !.pc = IF renames THEN "lock" ELSE "clear",
                             !.role = x, !.asked = asked])

RowLocked(x) == \E q \in Requests : request[q].role = x /\ request[q].locked

AfterLock(asked) == IF asked = None THEN "read" ELSE "clear"

\* Mutant: a SELECT, which waits for nobody, instead of the UPDATE.
ReadRow(r) ==
    /\ request[r].pc = "lock"
    /\ request' = [request EXCEPT ![r] =
           [@ EXCEPT !.pc = AfterLock(request[r].asked), !.locked = TRUE]]
    /\ UNCHANGED <<role, permissions, admin>>

\* UPDATE roles ... WHERE id = :id, deleted or not.
LockRow(r) ==
    /\ request[r].pc = "lock"
    /\ ~RowLocked(request[r].role)
    /\ request' = [request EXCEPT ![r] =
           [@ EXCEPT !.pc = AfterLock(request[r].asked), !.locked = TRUE]]
    /\ UNCHANGED <<role, permissions, admin>>

\* DELETE FROM role_permissions WHERE role_id = :id starts.
ClearPermissions(r) ==
    /\ request[r].pc = "clear"
    /\ request' = [request EXCEPT ![r] =
           [@ EXCEPT !.pc = "clearing", !.cleared = permissions[request[r].role]]]
    /\ UNCHANGED <<role, permissions, admin>>

\* q deleted row p of r's role, or inserted it, and has not committed.
Wrote(q, r, p) ==
    /\ q # r
    /\ request[q].role = request[r].role
    /\ \/ request[q].pc \in Replacing \ {"clearing"} /\ p \in request[q].cleared
       \/ request[q].pc \in {"read", "commit"} /\ p \in request[q].inserted

\* ... and ends, once nobody else holds one of the rows it found.
PermissionsCleared(r) ==
    /\ request[r].pc = "clearing"
    /\ \A p \in request[r].cleared, q \in Requests : ~Wrote(q, r, p)
    /\ Goto(r, IF request[r].asked = {} THEN "read" ELSE "assign")

\* save looks for the rows first: one that is there already is not inserted.
AssignPermissions(r) ==
    LET seen == permissions[request[r].role] \ request[r].cleared
    IN  /\ request[r].pc = "assign"
        /\ request' = [request EXCEPT ![r] =
               [@ EXCEPT !.pc = "insert", !.inserted = request[r].asked \ seen]]
        /\ UNCHANGED <<role, permissions, admin>>

\* A row committed since then is a duplicate key, and the transaction rolls
\* back.
InsertPermissions(r) ==
    LET there == permissions[request[r].role] \ request[r].cleared
    IN  /\ request[r].pc = "insert"
        /\ \A p \in request[r].inserted, q \in Requests : ~Wrote(q, r, p)
        /\ Goto(r, IF request[r].inserted \cap there = {} THEN "read" ELSE "idle")

\* The role as the transaction leaves it, null when somebody deleted it meanwhile.
ReadRole(r) ==
    /\ request[r].pc = "read"
    /\ request' = [request EXCEPT ![r] =
           [@ EXCEPT !.pc = "commit",
                     !.seen = request[r].creates \/ Alive(request[r].role)]]
    /\ UNCHANGED <<role, permissions, admin>>

\* A DELETE that waited for this transaction skips the rows it deleted.
Commit(r) ==
    LET x == request[r].role
    IN  /\ request[r].pc = "commit"
        /\ role' = [role EXCEPT ![x] = IF request[r].creates THEN "alive" ELSE @]
        /\ permissions' = [permissions EXCEPT ![x] =
               (@ \ request[r].cleared) \cup request[r].inserted]
        /\ request' = [q \in Requests |->
               IF q = r THEN Idle
               ELSE IF request[q].role = x /\ request[q].pc = "clearing"
               THEN [request[q] EXCEPT !.cleared = @ \ request[r].cleared]
               ELSE request[q]]
        /\ unaudited' = IF request[r].seen THEN unaudited ELSE unaudited \cup {x}
        /\ UNCHANGED admin

-----------------------------------------------------------------------------
(* Deleting a role. *)

\* hasAdminsWithRole counts the active admins.
DeleteRole(r, x) ==
    /\ role[x] # "unused"
    /\ \A a \in Admins : ~Holds(a, x)
    /\ Begin(r, [Idle EXCEPT !.pc = "findRole", !.role = x])

FindRole(r) ==
    /\ request[r].pc = "findRole"
    /\ Goto(r, IF Alive(request[r].role) THEN "softDelete" ELSE "idle")

\* Mutant: it does not wait.
SoftDeleteAtOnce(r) ==
    /\ request[r].pc = "softDelete"
    /\ role' = [role EXCEPT ![request[r].role] = "deleted"]
    /\ request' = [request EXCEPT ![r] = Idle]
    /\ UNCHANGED <<permissions, admin>>

\* Waits for the row as any UPDATE does.
SoftDelete(r) ==
    LET x == request[r].role
    IN  /\ request[r].pc = "softDelete"
        /\ ~RowLocked(x)
        /\ role' = [role EXCEPT ![x] = "deleted"]
        /\ request' = [request EXCEPT ![r] = Idle]
        /\ UNCHANGED <<permissions, admin>>

-----------------------------------------------------------------------------
(* Admins. *)

\* The role is found, then the image is uploaded.
CreateAdmin(r, a, x) ==
    /\ admin[a].state = "unused"
    /\ \A q \in Requests : request[q].admin # a
    /\ Alive(x)
    /\ Begin(r, [Idle EXCEPT !.pc = "insertAdmin", !.role = x, !.admin = a])

\* The foreign key is content with a soft-deleted role.
InsertAdmin(r) ==
    /\ request[r].pc = "insertAdmin"
    /\ admin' = [admin EXCEPT ![request[r].admin] =
                     [state |-> "active", role |-> request[r].role]]
    /\ request' = [request EXCEPT ![r] = Idle]
    /\ UNCHANGED <<role, permissions>>

\* x is the role of the DTO, or None: every profile update is one of these.
\* Only a role the admin does not hold is looked up.
UpdateAdmin(r, a, x) ==
    /\ Active(a)
    /\ Begin(r, [Idle EXCEPT !.role = x, !.admin = a,
           !.pc = IF x \in {None, admin[a].role} THEN "preload" ELSE "checkRole"])

\* Mutant: the lookup finds soft-deleted roles too.
CheckRoleWithDeleted(r) ==
    /\ request[r].pc = "checkRole"
    /\ Goto(r, IF role[request[r].role] = "unused" THEN "idle" ELSE "preload")

CheckRole(r) ==
    /\ request[r].pc = "checkRole"
    /\ Goto(r, IF Alive(request[r].role) THEN "preload" ELSE "idle")

\* Mutant: an entity made of the DTO alone.
CreateAdminEntity(r) ==
    /\ request[r].pc = "preload"
    /\ Goto(r, IF Active(request[r].admin) THEN "save" ELSE "idle")

\* A fresh read of the row under the DTO.
PreloadAdmin(r) ==
    LET a == request[r].admin
    IN  /\ request[r].pc = "preload"
        /\ request' = [request EXCEPT ![r] =
               IF ~Active(a) THEN Idle
               ELSE [@ EXCEPT !.pc = "save",
                              !.role = IF request[r].role = None THEN admin[a].role
                                       ELSE request[r].role]]
        /\ UNCHANGED <<role, permissions, admin>>

\* changePassword and resetPassword save the admin they found first.
SavePassword(r, a) ==
    /\ Active(a)
    /\ Begin(r, [Idle EXCEPT !.pc = "save", !.role = admin[a].role, !.admin = a])

\* The whole entity: its role, and deletedAt, which was null when it was
\* loaded.
SaveAdmin(r) ==
    /\ request[r].pc = "save"
    /\ admin' = [admin EXCEPT ![request[r].admin] =
                     [state |-> "active", role |-> request[r].role]]
    /\ request' = [request EXCEPT ![r] = Idle]
    /\ UNCHANGED <<role, permissions>>

RemoveAdmin(r, a) ==
    /\ Active(a)
    /\ Begin(r, [Idle EXCEPT !.pc = "softRemove", !.admin = a])

SoftRemove(r) ==
    /\ request[r].pc = "softRemove"
    /\ admin' = [admin EXCEPT ![request[r].admin] = [@ EXCEPT !.state = "deleted"]]
    /\ request' = [request EXCEPT ![r] = Idle]
    /\ UNCHANGED <<role, permissions>>

-----------------------------------------------------------------------------
\* The upload, the connection or a constraint fails; a transaction rolls back.
Fail(r) ==
    /\ request[r].pc # "idle"
    /\ Goto(r, "idle")

Call(r) ==
    \/ \E x \in RoleIds :
         \/ \E asked \in SUBSET Permissions : CreateRole(r, x, asked)
         \/ \E asked \in {None} \cup SUBSET Permissions, renames \in BOOLEAN :
              UpdateRole(r, x, asked, renames)
         \/ DeleteRole(r, x)
         \/ \E a \in Admins : CreateAdmin(r, a, x)
    \/ \E a \in Admins :
         \/ \E x \in RoleIds \cup {None} : UpdateAdmin(r, a, x)
         \/ SavePassword(r, a)
         \/ RemoveAdmin(r, a)

Step(r) ==
    \/ LockRow(r)
    \/ ClearPermissions(r)
    \/ PermissionsCleared(r)
    \/ AssignPermissions(r)
    \/ InsertPermissions(r)
    \/ ReadRole(r)
    \/ FindRole(r)
    \/ SoftDelete(r)
    \/ InsertAdmin(r)
    \/ CheckRole(r)
    \/ PreloadAdmin(r)
    \/ SaveAdmin(r)
    \/ SoftRemove(r)
    \/ Fail(r)

\* History.
Contested(req) ==
    {x \in RoleIds : \E q1, q2 \in Requests : Assigns(req[q1], x) /\ Deletes(req[q2], x)}

Blurred(req) ==
    {x \in RoleIds : \E q1, q2 \in Requests :
        /\ q1 # q2
        /\ Replaces(req[q1], x)
        /\ Replaces(req[q2], x)
        /\ ~(req[q1].locked /\ req[q2].locked)}

Overtaken(x) == \E q \in Requests : /\ request[q].role = x
                                    /\ request[q].pc \in InTransaction
                                    /\ ~request[q].locked

Observe ==
    /\ contested' = contested \cup Contested(request')
    /\ blurred' = blurred \cup Blurred(request')
    /\ overtaken' = overtaken \cup
           {x \in RoleIds : Alive(x) /\ role'[x] = "deleted" /\ Overtaken(x)}

Next == \E r \in Requests :
    /\ Commit(r) \/ ((Call(r) \/ Step(r)) /\ UNCHANGED unaudited)
    /\ Observe

Spec == Init /\ [][Next]_vars

-----------------------------------------------------------------------------
(* Properties. *)

\* deleteRole refuses a role that has admins.  As long as no admin was being
\* given the role, or saved with it, during the deletion, no active admin
\* holds a deleted role: neither a later assignment nor a stale save of a
\* removed admin brings one back.
UncontestedRolesAlive ==
    \A x \in RoleIds \ contested, a \in Admins : Holds(a, x) => Alive(x)

\* RoleDeletionService: "Cannot delete role that has admins assigned to it".
AssignedRolesAlive == \A x \in RoleIds, a \in Admins : Holds(a, x) => Alive(x)

\* update asks for an audit entry of whatever it committed, unless its role was
\* deleted while it did not hold the row: the role it found at first and the lock of
\* the row are what the final read relies on (updateInTransaction, update).
UnauditedWereOvertaken == unaudited \subseteq overtaken

\* Replacing the permissions of a role is one step to whoever looks, as long
\* as replacements that overlapped held the row of the role; otherwise what is
\* left is at most what was there and what was sent (updateInTransaction).
Wanted == [r \in Requests |->
    IF request[r].asked = None THEN None
    ELSE [role |-> request[r].role, set |-> request[r].asked]]

Grants == INSTANCE RoleGrants WITH
    Roles <- RoleIds, Clients <- Requests,
    granted <- permissions, wanted <- Wanted, exact <- RoleIds \ blurred

ReplacementsAreExact == Grants!Spec

=============================================================================
