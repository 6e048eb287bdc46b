---------------------------- MODULE RolesProofs ----------------------------
(***************************************************************************)
(* What holds of Roles for every number of roles, permissions, admins and  *)
(* handlers: type correctness, that a role nobody was being given during   *)
(* its deletion leaves no admin behind, that an update whose role was not  *)
(* deleted before it held the row asks for its audit entry, and that       *)
(* permission replacements implement RoleGrants.                           *)
(***************************************************************************)
EXTENDS Roles, TLAPS

RequestRow == [pc : Pcs, role : RoleIds \cup {None},
               admin : Admins \cup {None},
               asked : {None} \cup SUBSET Permissions,
               creates : BOOLEAN, locked : BOOLEAN,
               cleared : SUBSET Permissions,
               inserted : SUBSET Permissions, seen : BOOLEAN]

AdminRow == [state : {"unused", "active", "deleted"}, role : RoleIds \cup {None}]

\* What a handler is sure to hold at each of its awaits.
Shaped(q) ==
    /\ q.pc \in InTransaction \cup Deleting \cup {"checkRole", "insertAdmin", "save"}
         => q.role # None
    /\ q.pc \in Assigning \cup {"checkRole", "softRemove"} => q.admin # None
    /\ q.pc \in {"clear", "clearing", "assign", "insert"} => q.asked # None
    /\ q.pc \notin InTransaction => q.asked = None /\ ~q.locked /\ ~q.creates

TypeInv ==
    /\ role \in [RoleIds -> {"unused", "alive", "deleted"}]
    /\ permissions \in [RoleIds -> SUBSET Permissions]
    /\ admin \in [Admins -> AdminRow]
    /\ \A a \in Admins : Active(a) => admin[a].role # None
    /\ request \in [Requests -> RequestRow]
    /\ \A r \in Requests : Shaped(request[r])
    /\ contested \in SUBSET RoleIds
    /\ blurred \in SUBSET RoleIds
    /\ overtaken \in SUBSET RoleIds
    /\ unaudited \in SUBSET RoleIds

-----------------------------------------------------------------------------
(* Type correctness. *)

LEMMA IdleIsTyped == Idle \in RequestRow /\ Shaped(Idle) /\ Idle.pc = "idle"
  BY DEF Idle, RequestRow, Shaped, Pcs, InTransaction, Assigning, Deleting

LEMMA TypeInit == Init => TypeInv
  BY IdleIsTyped DEF Init, TypeInv, AdminRow, Active

\* A handler moves to q and writes nothing.
Moves(r, q) ==
    /\ q \in RequestRow
    /\ Shaped(q)
    /\ request' = [request EXCEPT ![r] = q]
    /\ UNCHANGED <<role, permissions, admin>>

LEMMA CallMoves ==
    ASSUME TypeInv, NEW r \in Requests, Call(r)
    PROVE  \E q : Moves(r, q)
<1> USE NoneIsNothing DEF RequestRow, Pcs, InTransaction, Assigning, Deleting, Shaped
<1>1. ASSUME NEW x \in RoleIds, NEW asked \in SUBSET Permissions,
             CreateRole(r, x, asked)
      PROVE  \E q : Moves(r, q)
  <2> DEFINE q == [Idle EXCEPT !.pc = IF asked = {} THEN "read" ELSE "assign",
                                !.role = x, !.asked = asked, !.creates = TRUE]
  <2>1. q \in RequestRow
    BY <1>1 DEF CreateRole, Idle
  <2>2. Shaped(q)
    BY <1>1 DEF CreateRole, Idle
  <2>3. Moves(r, q)
    BY <1>1, <2>1, <2>2 DEF CreateRole, Begin, Moves
  <2> QED
    BY <2>3
<1>2. ASSUME NEW x \in RoleIds, NEW asked \in {None} \cup SUBSET Permissions,
             NEW renames \in BOOLEAN, UpdateRole(r, x, asked, renames)
      PROVE  \E q : Moves(r, q)
  <2> DEFINE q == [Idle EXCEPT !.pc = IF renames THEN "lock" ELSE "clear",
                                !.role = x, !.asked = asked]
  <2>1. q \in RequestRow
    BY IdleIsTyped DEF Idle
  <2>2. Shaped(q)
    BY <1>2 DEF UpdateRole, Idle
  <2>3. Moves(r, q)
    BY <1>2, <2>1, <2>2 DEF UpdateRole, Begin, Moves
  <2> QED
    BY <2>3
<1>3. ASSUME NEW x \in RoleIds, DeleteRole(r, x) PROVE \E q : Moves(r, q)
  BY <1>3 DEF DeleteRole, Begin, Moves, Idle
<1>4. ASSUME NEW x \in RoleIds, NEW a \in Admins, CreateAdmin(r, a, x)
      PROVE  \E q : Moves(r, q)
  BY <1>4 DEF CreateAdmin, Begin, Moves, Idle
<1>5. ASSUME NEW a \in Admins, NEW x \in RoleIds \cup {None}, UpdateAdmin(r, a, x)
      PROVE  \E q : Moves(r, q)
  <2> DEFINE q == [Idle EXCEPT !.role = x, !.admin = a,
                 !.pc = IF x \in {None, admin[a].role} THEN "preload" ELSE "checkRole"]
  <2>1. q \in RequestRow
    BY <1>5 DEF UpdateAdmin, Idle
  <2>2. Shaped(q)
    BY <1>5 DEF UpdateAdmin, Idle
  <2>3. Moves(r, q)
    BY <1>5, <2>1, <2>2 DEF UpdateAdmin, Begin, Moves
  <2> QED
    BY <2>3
<1>6. ASSUME NEW a \in Admins, SavePassword(r, a) PROVE \E q : Moves(r, q)
  BY <1>6 DEF SavePassword, Begin, Moves, Idle, TypeInv, AdminRow, Active
<1>7. ASSUME NEW a \in Admins, RemoveAdmin(r, a) PROVE \E q : Moves(r, q)
  BY <1>7 DEF RemoveAdmin, Begin, Moves, Idle
<1> QED
  BY <1>1, <1>2, <1>3, <1>4, <1>5, <1>6, <1>7 DEF Call

\* The steps that write no row.
Quiet(r) ==
    \/ LockRow(r)
    \/ ClearPermissions(r)
    \/ PermissionsCleared(r)
    \/ AssignPermissions(r)
    \/ InsertPermissions(r)
    \/ ReadRole(r)
    \/ FindRole(r)
    \/ CheckRole(r)
    \/ PreloadAdmin(r)
    \/ Fail(r)

LEMMA QuietMoves ==
    ASSUME TypeInv, NEW r \in Requests, Quiet(r)
    PROVE  \E q : Moves(r, q)
<1> USE NoneIsNothing, IdleIsTyped
      DEF RequestRow, Pcs, InTransaction, Assigning, Deleting, Shaped
<1>0. request[r] \in RequestRow /\ Shaped(request[r])
  BY DEF TypeInv
<1>1. CASE LockRow(r)
  BY <1>0, <1>1 DEF LockRow, AfterLock, Moves
<1>2. CASE ClearPermissions(r)
  BY <1>0, <1>2 DEF ClearPermissions, Moves, TypeInv
<1>3. CASE PermissionsCleared(r)
  BY <1>0, <1>3 DEF PermissionsCleared, Goto, Moves
<1>4. CASE AssignPermissions(r)
  BY <1>0, <1>4 DEF AssignPermissions, Moves
<1>5. CASE InsertPermissions(r)
  BY <1>0, <1>5 DEF InsertPermissions, Goto, Moves
<1>6. CASE FindRole(r)
  BY <1>0, <1>6 DEF FindRole, Goto, Moves
<1>7. CASE CheckRole(r)
  BY <1>0, <1>7 DEF CheckRole, Goto, Moves
<1>8. CASE PreloadAdmin(r)
  <2> DEFINE a == request[r].admin
             q == [request[r] EXCEPT !.pc = "save",
                       !.role = IF request[r].role = None THEN admin[a].role
                                ELSE request[r].role]
  <2>1. CASE Active(a)
    <3>1. a \in Admins
      BY <1>0, <1>8 DEF PreloadAdmin
    <3>2. admin[a].role \in RoleIds
      BY <2>1, <3>1 DEF TypeInv, AdminRow
    <3>3. q \in RequestRow
      BY <1>0, <3>2
    <3>4. Shaped(q)
      BY <1>0, <1>8, <3>2 DEF PreloadAdmin
    <3>5. /\ request' = [request EXCEPT ![r] = q]
          /\ UNCHANGED <<role, permissions, admin>>
      BY <1>8, <2>1 DEF PreloadAdmin
    <3>6. Moves(r, q)
      BY <3>3, <3>4, <3>5 DEF Moves
    <3> QED
      BY <3>6
  <2>2. CASE ~Active(a)
    BY <1>8, <2>2 DEF PreloadAdmin, Moves
  <2> QED
    BY <2>1, <2>2
<1>9. CASE Fail(r)
  BY <1>0, <1>9 DEF Fail, Goto, Moves
<1>10. CASE ReadRole(r)
  BY <1>0, <1>10 DEF ReadRole, Moves
<1> QED
  BY <1>1, <1>2, <1>3, <1>4, <1>5, <1>6, <1>7, <1>8, <1>9, <1>10 DEF Quiet

LEMMA ObserveTyped ==
    ASSUME TypeInv, Observe
    PROVE  /\ contested' \in SUBSET RoleIds /\ blurred' \in SUBSET RoleIds
           /\ overtaken' \in SUBSET RoleIds
  BY DEF TypeInv, Observe, Contested, Blurred

LEMMA TypeNext == TypeInv /\ [Next]_vars => TypeInv'
<1> SUFFICES ASSUME TypeInv, [Next]_vars PROVE TypeInv'
  OBVIOUS
<1>1. ASSUME NEW r \in Requests, Call(r) \/ Quiet(r), UNCHANGED unaudited, Observe
      PROVE  TypeInv'
  <2>1. PICK q : Moves(r, q)
    BY <1>1, CallMoves, QuietMoves
  <2> QED
    BY <1>1, <2>1, ObserveTyped DEF Moves, TypeInv, Active
<1>2. ASSUME NEW r \in Requests, Commit(r), Observe PROVE TypeInv'
  <2> DEFINE x == request[r].role
  <2>1. x \in RoleIds /\ request[r] \in RequestRow
    BY <1>2 DEF Commit, TypeInv, RequestRow, Shaped, InTransaction
  <2>2. /\ role' \in [RoleIds -> {"unused", "alive", "deleted"}]
        /\ permissions' \in [RoleIds -> SUBSET Permissions]
        /\ unaudited' \in SUBSET RoleIds
    BY <1>2, <2>1 DEF Commit, TypeInv, RequestRow
  <2>3. ASSUME NEW q \in Requests
        PROVE  request'[q] \in RequestRow /\ Shaped(request'[q])
    <3>1. request[q] \in RequestRow /\ Shaped(request[q])
      BY DEF TypeInv
    <3> DEFINE row == [request[q] EXCEPT !.cleared = @ \ request[r].cleared]
    <3>2. row \in RequestRow /\ Shaped(row)
      BY <3>1 DEF RequestRow, Shaped
    <3> QED
      BY <1>2, <3>1, <3>2, IdleIsTyped DEF Commit
  <2> QED
    BY <1>2, <2>2, <2>3, ObserveTyped DEF Commit, TypeInv, Active
<1>3. ASSUME NEW r \in Requests, SoftDelete(r), UNCHANGED unaudited, Observe
      PROVE  TypeInv'
  <2>1. request[r].role \in RoleIds
    BY <1>3 DEF SoftDelete, TypeInv, RequestRow, Shaped, Deleting
  <2> QED
    BY <1>3, <2>1, ObserveTyped, IdleIsTyped DEF SoftDelete, TypeInv, Active
<1>4. ASSUME NEW r \in Requests, InsertAdmin(r) \/ SaveAdmin(r), UNCHANGED unaudited, Observe
      PROVE  TypeInv'
  <2>1. request[r].role \in RoleIds /\ request[r].admin \in Admins
    BY <1>4 DEF InsertAdmin, SaveAdmin, TypeInv, RequestRow, Shaped, Assigning
  <2>2. /\ admin' \in [Admins -> AdminRow]
        /\ \A a \in Admins : Active(a)' => admin'[a].role # None
    BY <1>4, <2>1, NoneIsNothing DEF InsertAdmin, SaveAdmin, TypeInv, AdminRow, Active
  <2> QED
    BY <1>4, <2>2, ObserveTyped, IdleIsTyped DEF InsertAdmin, SaveAdmin, TypeInv
<1>5. ASSUME NEW r \in Requests, SoftRemove(r), UNCHANGED unaudited, Observe
      PROVE  TypeInv'
  <2>1. request[r].admin \in Admins
    BY <1>5 DEF SoftRemove, TypeInv, RequestRow, Shaped
  <2>2. /\ admin' \in [Admins -> AdminRow]
        /\ \A a \in Admins : Active(a)' => admin'[a].role # None
    BY <1>5, <2>1 DEF SoftRemove, TypeInv, AdminRow, Active
  <2> QED
    BY <1>5, <2>2, ObserveTyped, IdleIsTyped DEF SoftRemove, TypeInv
<1>6. CASE UNCHANGED vars
  BY <1>6 DEF vars, TypeInv, Active
<1> QED
  BY <1>1, <1>2, <1>3, <1>4, <1>5, <1>6 DEF Next, Step, Quiet

LEMMA TypeAlways == Spec => []TypeInv
  BY TypeInit, TypeNext, PTL DEF Spec

\* Rows and handlers keep their types, and every active admin has a role,
\* however handlers interleave and fail.
THEOREM TypeCorrect == Spec => []TypeOK
<1>1. TypeInv => TypeOK
  BY DEF TypeInv, TypeOK, RequestRow, AdminRow
<1> QED
  BY <1>1, TypeAlways, PTL

-----------------------------------------------------------------------------
(* Admins of deleted roles. *)

Deserted(x) ==
    /\ \A a \in Admins : ~Holds(a, x)
    /\ \A r \in Requests : ~Assigns(request[r], x)

\* The inductive invariant: an uncontested role that is gone, or that a
\* deletion has found without admins, has none and gets none.
DesertedInv ==
    \A x \in RoleIds \ contested :
        /\ ~Alive(x) => Deserted(x)
        /\ (\E r \in Requests : Deletes(request[r], x)) => Deserted(x)

\* Where the role of an assignment, and of a deletion, comes from.
Founded(r) ==
    \A x \in RoleIds :
        /\ Assigns(request[r], x)' => \/ Assigns(request[r], x)
                                      \/ Alive(x)
                                      \/ \E a \in Admins : Holds(a, x)
        /\ Deletes(request[r], x)' => \/ Deletes(request[r], x)
                                      \/ \A a \in Admins : ~Holds(a, x)

LEMMA CallFounded ==
    ASSUME TypeInv, NEW r \in Requests, Call(r)
    PROVE  Founded(r)
<1> USE DEF Begin, Idle, Founded, Assigns, Deletes, Assigning, Deleting
<1>0. r \in DOMAIN request
  BY DEF TypeInv
<1>1. ASSUME NEW x \in RoleIds, NEW asked \in SUBSET Permissions,
             CreateRole(r, x, asked)
      PROVE  Founded(r)
  BY <1>0, <1>1 DEF CreateRole
<1>2. ASSUME NEW x \in RoleIds, NEW asked \in {None} \cup SUBSET Permissions,
             NEW renames \in BOOLEAN, UpdateRole(r, x, asked, renames)
      PROVE  Founded(r)
  BY <1>0, <1>2 DEF UpdateRole
<1>3. ASSUME NEW x \in RoleIds, DeleteRole(r, x) PROVE Founded(r)
  BY <1>0, <1>3 DEF DeleteRole
<1>4. ASSUME NEW x \in RoleIds, NEW a \in Admins, CreateAdmin(r, a, x)
      PROVE  Founded(r)
  BY <1>0, <1>4 DEF CreateAdmin
<1>5. ASSUME NEW a \in Admins, NEW x \in RoleIds \cup {None}, UpdateAdmin(r, a, x)
      PROVE  Founded(r)
  BY <1>0, <1>5, NoneIsNothing DEF UpdateAdmin, Holds
<1>6. ASSUME NEW a \in Admins, SavePassword(r, a) PROVE Founded(r)
  BY <1>0, <1>6 DEF SavePassword, Holds
<1>7. ASSUME NEW a \in Admins, RemoveAdmin(r, a) PROVE Founded(r)
  BY <1>0, <1>7 DEF RemoveAdmin
<1> QED
  BY <1>1, <1>2, <1>3, <1>4, <1>5, <1>6, <1>7 DEF Call

LEMMA QuietFounded ==
    ASSUME TypeInv, NEW r \in Requests, Quiet(r)
    PROVE  Founded(r)
<1> USE DEF Goto, Idle, Founded, Assigns, Deletes, Assigning, Deleting
<1>0. /\ r \in DOMAIN request
      /\ request[r] \in RequestRow
      /\ Shaped(request[r])
  BY DEF TypeInv
<1>1. CASE LockRow(r)
  BY <1>0, <1>1 DEF LockRow, AfterLock, RequestRow
<1>2. CASE ClearPermissions(r)
  BY <1>0, <1>2 DEF ClearPermissions, RequestRow
<1>3. CASE PermissionsCleared(r)
  BY <1>0, <1>3 DEF PermissionsCleared, RequestRow
<1>4. CASE AssignPermissions(r)
  BY <1>0, <1>4 DEF AssignPermissions, RequestRow
<1>5. CASE InsertPermissions(r)
  BY <1>0, <1>5 DEF InsertPermissions, RequestRow
<1>6. CASE FindRole(r)
  BY <1>0, <1>6 DEF FindRole, RequestRow
<1>7. CASE CheckRole(r)
  BY <1>0, <1>7 DEF CheckRole, RequestRow
<1>8. CASE PreloadAdmin(r)
  BY <1>0, <1>8 DEF PreloadAdmin, RequestRow, Shaped, Holds
<1>9. CASE Fail(r)
  BY <1>0, <1>9 DEF Fail, RequestRow
<1>10. CASE ReadRole(r)
  BY <1>0, <1>10 DEF ReadRole, RequestRow
<1> QED
  BY <1>1, <1>2, <1>3, <1>4, <1>5, <1>6, <1>7, <1>8, <1>9, <1>10 DEF Quiet

\* What Observe records.
LEMMA ObserveContested ==
    ASSUME Observe, NEW x \in RoleIds \ contested'
    PROVE  /\ x \notin contested
           /\ \A q, r \in Requests : ~(Assigns(request[q], x)' /\ Deletes(request[r], x)')
  BY DEF Observe, Contested

\* A handler that does not write an admin and keeps, or leaves, its claim.
LEMMA DesertedKept ==
    ASSUME NEW x \in RoleIds,
           ~Alive(x) => Deserted(x),
           (\E r \in Requests : Deletes(request[r], x)) => Deserted(x),
           Alive(x) => Alive(x)' \/ Deserted(x),
           \A a \in Admins : Holds(a, x)' => Holds(a, x),
           \A r \in Requests : Assigns(request[r], x)' => Assigns(request[r], x),
           \A r \in Requests : Deletes(request[r], x)' => Deletes(request[r], x)
    PROVE  /\ ~Alive(x)' => Deserted(x)'
           /\ (\E r \in Requests : Deletes(request[r], x)') => Deserted(x)'
  BY DEF Deserted

LEMMA DesertedNext == TypeInv /\ DesertedInv /\ [Next]_vars => DesertedInv'
<1> SUFFICES ASSUME TypeInv, DesertedInv, [Next]_vars PROVE DesertedInv'
  OBVIOUS
<1>1. ASSUME NEW r \in Requests, Call(r) \/ Quiet(r), Observe PROVE DesertedInv'
  <2> SUFFICES ASSUME NEW x \in RoleIds \ contested'
               PROVE  /\ ~Alive(x)' => Deserted(x)'
                      /\ (\E q \in Requests : Deletes(request[q], x)') => Deserted(x)'
    BY DEF DesertedInv
  <2>1. Founded(r)
    BY <1>1, CallFounded, QuietFounded
  <2>2. PICK q : Moves(r, q)
    BY <1>1, CallMoves, QuietMoves
  <2>3. /\ \A p \in Requests \ {r} : request'[p] = request[p]
        /\ UNCHANGED <<role, admin>>
    BY <2>2 DEF Moves, TypeInv
  <2>4. /\ ~Alive(x) => Deserted(x)
        /\ (\E p \in Requests : Deletes(request[p], x)) => Deserted(x)
        /\ \A p1, p2 \in Requests :
             ~(Assigns(request[p1], x)' /\ Deletes(request[p2], x)')
    BY <1>1, ObserveContested DEF DesertedInv
  <2>5. \A a \in Admins : Holds(a, x)' <=> Holds(a, x)
    BY <2>3 DEF Holds, Active
  <2>6. Alive(x)' <=> Alive(x)
    BY <2>3 DEF Alive
  <2>7. \A p \in Requests \ {r} :
          /\ Assigns(request[p], x)' <=> Assigns(request[p], x)
          /\ Deletes(request[p], x)' <=> Deletes(request[p], x)
    BY <2>3 DEF Assigns, Deletes
  <2>8. ~Alive(x)' => Deserted(x)'
    BY <2>1, <2>4, <2>5, <2>6, <2>7 DEF Founded, Deserted
  <2>9. (\E p \in Requests : Deletes(request[p], x)') => Deserted(x)'
    BY <2>1, <2>4, <2>5, <2>7 DEF Founded, Deserted
  <2> QED
    BY <2>8, <2>9
<1>2. ASSUME NEW r \in Requests, Observe,
             Commit(r) \/ SoftDelete(r) \/ SoftRemove(r)
      PROVE  DesertedInv'
  <2> SUFFICES ASSUME NEW x \in RoleIds \ contested'
               PROVE  /\ ~Alive(x)' => Deserted(x)'
                      /\ (\E q \in Requests : Deletes(request[q], x)') => Deserted(x)'
    BY DEF DesertedInv
  <2>1. /\ ~Alive(x) => Deserted(x)
        /\ (\E p \in Requests : Deletes(request[p], x)) => Deserted(x)
    BY <1>2, ObserveContested DEF DesertedInv
  <2>2. /\ \A q \in Requests : Assigns(request[q], x)' => Assigns(request[q], x)
        /\ \A q \in Requests : Deletes(request[q], x)' => Deletes(request[q], x)
    BY <1>2 DEF Commit, SoftDelete, SoftRemove, Assigns, Deletes, Assigning, Deleting,
                Idle, TypeInv, RequestRow
  <2>3. \A a \in Admins : Holds(a, x)' => Holds(a, x)
    BY <1>2 DEF Commit, SoftDelete, SoftRemove, Holds, Active, TypeInv, AdminRow
  <2>4. Alive(x) => Alive(x)' \/ Deserted(x)
    <3>1. CASE Commit(r)
      BY <3>1 DEF Commit, Alive, TypeInv
    <3>2. CASE SoftDelete(r)
      BY <2>1, <3>2 DEF SoftDelete, Alive, Deletes, Deleting, TypeInv
    <3>3. CASE SoftRemove(r)
      BY <3>3 DEF SoftRemove, Alive
    <3> QED
      BY <1>2, <3>1, <3>2, <3>3
  <2> QED
    BY <2>1, <2>2, <2>3, <2>4, DesertedKept
<1>3. ASSUME NEW r \in Requests, Observe, InsertAdmin(r) \/ SaveAdmin(r)
      PROVE  DesertedInv'
  <2> SUFFICES ASSUME NEW x \in RoleIds \ contested'
               PROVE  /\ ~Alive(x)' => Deserted(x)'
                      /\ (\E q \in Requests : Deletes(request[q], x)') => Deserted(x)'
    BY DEF DesertedInv
  <2>1. /\ ~Alive(x) => Deserted(x)
        /\ (\E p \in Requests : Deletes(request[p], x)) => Deserted(x)
    BY <1>3, ObserveContested DEF DesertedInv
  <2>2. /\ \A q \in Requests : Assigns(request[q], x)' => Assigns(request[q], x)
        /\ \A q \in Requests : Deletes(request[q], x)' => Deletes(request[q], x)
    BY <1>3 DEF InsertAdmin, SaveAdmin, Assigns, Deletes, Assigning, Deleting,
                Idle, TypeInv
  <2>3. Alive(x)' <=> Alive(x)
    BY <1>3 DEF InsertAdmin, SaveAdmin, Alive
  <2>4. CASE x = request[r].role
    <3>1. Assigns(request[r], x)
      BY <1>3, <2>4 DEF InsertAdmin, SaveAdmin, Assigns, Assigning
    <3> QED
      BY <2>1, <2>2, <2>3, <3>1 DEF Deserted
  <2>5. CASE x # request[r].role
    <3>1. \A a \in Admins : Holds(a, x)' => Holds(a, x)
      BY <1>3, <2>5 DEF InsertAdmin, SaveAdmin, Holds, Active, TypeInv, AdminRow
    <3> QED
      BY <2>1, <2>2, <2>3, <3>1, DesertedKept
  <2> QED
    BY <2>4, <2>5
<1>4. CASE UNCHANGED vars
  BY <1>4 DEF vars, DesertedInv, Deserted, Alive, Holds, Active, Assigns, Deletes
<1> QED
  BY <1>1, <1>2, <1>3, <1>4 DEF Next, Step, Quiet

\* A role that is deleted while nobody is being given it has no active admin
\* afterwards, whatever profile updates and re-saves of removed admins follow.
THEOREM DeletedRolesAreDeserted == Spec => []UncontestedRolesAlive
<1>1. Init => DesertedInv
  <2> SUFFICES ASSUME Init PROVE DesertedInv
    OBVIOUS
  <2>1. \A x \in RoleIds, a \in Admins : Holds(a, x) => Alive(x)
    BY DEF Init, Holds
  <2>2. \A x \in RoleIds, r \in Requests :
          ~Assigns(request[r], x) /\ ~Deletes(request[r], x)
    BY DEF Init, Assigns, Deletes, Assigning, Deleting, Idle
  <2> QED
    BY <2>1, <2>2 DEF DesertedInv, Deserted
<1>2. DesertedInv => UncontestedRolesAlive
  BY DEF DesertedInv, Deserted, UncontestedRolesAlive
<1>3. TypeInv /\ DesertedInv /\ [Next]_vars => DesertedInv'
  BY DesertedNext
<1> QED
  BY <1>1, <1>2, <1>3, TypeAlways, PTL DEF Spec

-----------------------------------------------------------------------------
(* Audit entries of updates. *)

Updating(q) == q.pc \in InTransaction /\ ~q.creates

\* The role of an update is there, or was deleted before the update held its row;
\* and what the final read did not find had been deleted.
AuditInv ==
    /\ \A r \in Requests :
         /\ Updating(request[r]) => Alive(request[r].role) \/ request[r].role \in overtaken
         /\ request[r].pc = "commit" /\ ~request[r].seen => request[r].role \in overtaken
    /\ unaudited \subseteq overtaken

\* What an update's step makes of its own record.
Reads(r) ==
    /\ Updating(request'[r]) =>
         \/ Updating(request[r]) /\ request'[r].role = request[r].role
         \/ Alive(request'[r].role)
    /\ request'[r].pc = "commit" /\ ~request'[r].seen =>
         Updating(request[r]) /\ request'[r].role = request[r].role /\ ~Alive(request[r].role)

LEMMA CallReads ==
    ASSUME TypeInv, NEW r \in Requests, Call(r)
    PROVE  Reads(r)
<1> USE DEF Begin, Idle, Reads, Updating, InTransaction
<1>0. r \in DOMAIN request
  BY DEF TypeInv
<1>1. ASSUME NEW x \in RoleIds, NEW asked \in SUBSET Permissions,
             CreateRole(r, x, asked)
      PROVE  Reads(r)
  BY <1>0, <1>1 DEF CreateRole
<1>2. ASSUME NEW x \in RoleIds, NEW asked \in {None} \cup SUBSET Permissions,
             NEW renames \in BOOLEAN, UpdateRole(r, x, asked, renames)
      PROVE  Reads(r)
  BY <1>0, <1>2 DEF UpdateRole
<1>3. ASSUME NEW x \in RoleIds, DeleteRole(r, x) PROVE Reads(r)
  BY <1>0, <1>3 DEF DeleteRole
<1>4. ASSUME NEW x \in RoleIds, NEW a \in Admins, CreateAdmin(r, a, x)
      PROVE  Reads(r)
  BY <1>0, <1>4 DEF CreateAdmin
<1>5. ASSUME NEW a \in Admins, NEW x \in RoleIds \cup {None}, UpdateAdmin(r, a, x)
      PROVE  Reads(r)
  BY <1>0, <1>5 DEF UpdateAdmin
<1>6. ASSUME NEW a \in Admins, SavePassword(r, a) PROVE Reads(r)
  BY <1>0, <1>6 DEF SavePassword
<1>7. ASSUME NEW a \in Admins, RemoveAdmin(r, a) PROVE Reads(r)
  BY <1>0, <1>7 DEF RemoveAdmin
<1> QED
  BY <1>1, <1>2, <1>3, <1>4, <1>5, <1>6, <1>7 DEF Call

LEMMA QuietReads ==
    ASSUME TypeInv, NEW r \in Requests, Quiet(r)
    PROVE  Reads(r)
<1> USE DEF Goto, Idle, Reads, Updating, InTransaction
<1>0. r \in DOMAIN request /\ request[r] \in RequestRow
  BY DEF TypeInv
<1>1. CASE LockRow(r)
  BY <1>0, <1>1 DEF LockRow, AfterLock, RequestRow
<1>2. CASE ClearPermissions(r)
  BY <1>0, <1>2 DEF ClearPermissions, RequestRow
<1>3. CASE PermissionsCleared(r)
  BY <1>0, <1>3 DEF PermissionsCleared, RequestRow
<1>4. CASE AssignPermissions(r)
  BY <1>0, <1>4 DEF AssignPermissions, RequestRow
<1>5. CASE InsertPermissions(r)
  BY <1>0, <1>5 DEF InsertPermissions, RequestRow
<1>6. CASE ReadRole(r)
  BY <1>0, <1>6 DEF ReadRole, RequestRow
<1>7. CASE FindRole(r)
  BY <1>0, <1>7 DEF FindRole, RequestRow
<1>8. CASE CheckRole(r)
  BY <1>0, <1>8 DEF CheckRole, RequestRow
<1>9. CASE PreloadAdmin(r)
  BY <1>0, <1>9 DEF PreloadAdmin, RequestRow
<1>10. CASE Fail(r)
  BY <1>0, <1>10 DEF Fail, RequestRow
<1> QED
  BY <1>1, <1>2, <1>3, <1>4, <1>5, <1>6, <1>7, <1>8, <1>9, <1>10 DEF Quiet

\* A step that deletes no role under an update, and starts none.
LEMMA AuditKept ==
    ASSUME TypeInv, AuditInv, Observe,
           \A p \in Requests : Updating(request'[p]) =>
               /\ Updating(request[p]) /\ request'[p].role = request[p].role
               /\ request'[p].pc = request[p].pc /\ request'[p].seen = request[p].seen,
           \A p \in Requests : request'[p].pc = "commit" =>
               /\ request[p].pc = "commit" /\ request'[p].role = request[p].role
               /\ request'[p].seen = request[p].seen,
           \A p \in Requests : Updating(request[p]) /\ Alive(request[p].role)
               => role'[request[p].role] = "alive" \/ request[p].role \in overtaken',
           unaudited' \subseteq overtaken
    PROVE  AuditInv'
<1>1. overtaken \subseteq overtaken'
  BY DEF Observe
<1>2. ASSUME NEW p \in Requests, Updating(request'[p])
      PROVE  Alive(request[p].role)' \/ request'[p].role \in overtaken'
  BY <1>1, <1>2 DEF AuditInv, Alive
<1>3. ASSUME NEW p \in Requests, request'[p].pc = "commit", ~request'[p].seen
      PROVE  request'[p].role \in overtaken'
  BY <1>1, <1>3 DEF AuditInv
<1> QED
  BY <1>1, <1>2, <1>3 DEF AuditInv, Updating

LEMMA AuditMove ==
    ASSUME TypeInv, AuditInv, NEW r \in Requests, Call(r) \/ Quiet(r),
           UNCHANGED unaudited, Observe
    PROVE  AuditInv'
<1>1. PICK q : Moves(r, q)
  BY CallMoves, QuietMoves
<1>2. /\ \A p \in Requests \ {r} : request'[p] = request[p]
      /\ UNCHANGED role
  BY <1>1 DEF Moves, TypeInv
<1>3. Reads(r)
  BY CallReads, QuietReads
<1>4. overtaken \subseteq overtaken'
  BY DEF Observe
<1>5. ASSUME NEW p \in Requests, Updating(request'[p])
      PROVE  Alive(request[p].role)' \/ request'[p].role \in overtaken'
  <2>1. CASE p = r
    BY <1>2, <1>3, <1>4, <1>5, <2>1 DEF AuditInv, Alive, Reads
  <2>2. CASE p # r
    BY <1>2, <1>4, <1>5, <2>2 DEF AuditInv, Alive
  <2> QED
    BY <2>1, <2>2
<1>6. ASSUME NEW p \in Requests, request'[p].pc = "commit", ~request'[p].seen
      PROVE  request'[p].role \in overtaken'
  <2>1. CASE p = r
    BY <1>3, <1>4, <1>6, <2>1 DEF AuditInv, Reads
  <2>2. CASE p # r
    BY <1>2, <1>4, <1>6, <2>2 DEF AuditInv
  <2> QED
    BY <2>1, <2>2
<1> QED
  BY <1>4, <1>5, <1>6 DEF AuditInv, Updating

\* A commit leaves the other updates where they are; its own role is there or
\* was recorded.
LEMMA AuditCommit ==
    ASSUME TypeInv, AuditInv, NEW r \in Requests, Commit(r), Observe
    PROVE  AuditInv'
<1>1. /\ request[r].role \in RoleIds
      /\ request[r].pc = "commit"
      /\ request'[r] = Idle
  BY DEF Commit, TypeInv, RequestRow, Shaped, InTransaction
<1>2. ASSUME NEW p \in Requests \ {r}
      PROVE  /\ request'[p].pc = request[p].pc /\ request'[p].role = request[p].role
             /\ request'[p].creates = request[p].creates
             /\ request'[p].seen = request[p].seen
  <2>1. request[p] \in RequestRow
    BY DEF TypeInv
  <2>2. request'[p] \in {request[p],
                        [request[p] EXCEPT !.cleared = @ \ request[r].cleared]}
    BY DEF Commit
  <2> QED
    BY <2>1, <2>2 DEF RequestRow
<1>3. \A x \in RoleIds : Alive(x) => role'[x] = "alive"
  BY <1>1 DEF Commit, Alive, TypeInv
<1>4. ASSUME NEW p \in Requests, Updating(request[p])
      PROVE  request[p].role \in RoleIds
  BY <1>4 DEF Updating, TypeInv, RequestRow, Shaped
<1>5. unaudited' \subseteq overtaken
  BY <1>1 DEF Commit, AuditInv
<1>6. ASSUME NEW p \in Requests, Updating(request'[p]) \/ request'[p].pc = "commit"
      PROVE  p # r
  BY <1>1, <1>6 DEF Updating, Idle, InTransaction
<1> QED
  BY <1>2, <1>3, <1>4, <1>5, <1>6, AuditKept DEF Updating

\* Who deletes the row waits for every update that holds it, so an update it
\* catches did not.
LEMMA AuditSoftDelete ==
    ASSUME TypeInv, AuditInv, NEW r \in Requests, SoftDelete(r),
           UNCHANGED unaudited, Observe
    PROVE  AuditInv'
<1> DEFINE x == request[r].role
<1>1. /\ x \in RoleIds
      /\ request'[r] = Idle
      /\ \A p \in Requests \ {r} : request'[p] = request[p]
      /\ role' = [role EXCEPT ![x] = "deleted"]
      /\ ~RowLocked(x)
  BY DEF SoftDelete, TypeInv, RequestRow, Shaped, Deleting
<1>2. ASSUME NEW p \in Requests, Updating(request[p]), Alive(request[p].role)
      PROVE  role'[request[p].role] = "alive" \/ request[p].role \in overtaken'
  <2>1. request[p].role \in RoleIds
    BY <1>2 DEF Updating, TypeInv, RequestRow, Shaped
  <2>2. CASE request[p].role = x
    <3>1. Overtaken(x)
      BY <1>1, <1>2, <2>2 DEF Overtaken, Updating, RowLocked
    <3> QED
      BY <1>1, <1>2, <2>2, <3>1 DEF Observe, TypeInv
  <2>3. CASE request[p].role # x
    BY <1>1, <1>2, <2>1, <2>3 DEF Alive, TypeInv
  <2> QED
    BY <2>2, <2>3
<1>3. ~Updating(Idle) /\ Idle.pc # "commit"
  BY DEF Updating, Idle, InTransaction
<1>4. unaudited' \subseteq overtaken
  BY DEF AuditInv
<1> QED
  BY <1>1, <1>2, <1>3, <1>4, AuditKept

LEMMA AuditAdmin ==
    ASSUME TypeInv, AuditInv, NEW r \in Requests,
           InsertAdmin(r) \/ SaveAdmin(r) \/ SoftRemove(r),
           UNCHANGED unaudited, Observe
    PROVE  AuditInv'
<1>1. /\ request'[r] = Idle
      /\ \A p \in Requests \ {r} : request'[p] = request[p]
      /\ UNCHANGED role
  BY DEF InsertAdmin, SaveAdmin, SoftRemove, TypeInv
<1>2. ~Updating(Idle) /\ Idle.pc # "commit"
  BY DEF Updating, Idle, InTransaction
<1>3. unaudited' \subseteq overtaken
  BY DEF AuditInv
<1> QED
  BY <1>1, <1>2, <1>3, AuditKept DEF Alive

LEMMA AuditNext == TypeInv /\ AuditInv /\ [Next]_vars => AuditInv'
<1>1. CASE UNCHANGED vars
  BY <1>1 DEF vars, AuditInv, Updating, Alive
<1> QED
  BY <1>1, AuditMove, AuditCommit, AuditSoftDelete, AuditAdmin DEF Next, Step, Quiet

\* An update that commits asks for its audit entry, unless its role was deleted
\* before the update held the row: in every interleaving of any number of
\* updates, replacements and deletions, with any of them failing.
THEOREM MissingEntriesWereOvertaken == Spec => []UnauditedWereOvertaken
<1>1. Init => AuditInv
  BY DEF Init, AuditInv, Updating, Idle, InTransaction
<1>2. AuditInv => UnauditedWereOvertaken
  BY DEF AuditInv, UnauditedWereOvertaken
<1>3. TypeInv /\ AuditInv /\ [Next]_vars => AuditInv'
  BY AuditNext
<1> QED
  BY <1>1, <1>2, <1>3, TypeAlways, PTL DEF Spec

-----------------------------------------------------------------------------
(* Replacements of permissions. *)

\* What a handler knows of its role by itself.
Known(q) ==
    /\ q.pc \in InTransaction \cup Deleting /\ ~q.creates => role[q.role] # "unused"
    /\ q.creates => role[q.role] = "unused"
    /\ IF q.asked = None THEN q.cleared = {} /\ q.inserted = {}
                         ELSE q.inserted \in SUBSET q.asked

\* A replacement without a rival has found all there is, and will leave what
\* was sent.
Faithful(q) ==
    q.asked # None /\ q.pc \in Replacing /\ q.role \notin blurred =>
        /\ q.cleared = permissions[q.role]
        /\ q.pc \in {"insert", "read", "commit"} => q.inserted = q.asked

KnownInv    == \A r \in Requests : Known(request[r])
FaithfulInv == \A r \in Requests : Faithful(request[r])
BareInv     == \A x \in RoleIds : role[x] = "unused" => permissions[x] = {}

\* One handler holds the row; one creates the role, and nobody else writes it.
LockInv ==
    \A q, r \in Requests :
        request[q].locked /\ request[r].locked /\ request[q].role = request[r].role
            => q = r
CreatorInv ==
    \A q, r \in Requests :
        /\ request[r].creates
        /\ request[q].pc \in InTransaction
        /\ request[q].role = request[r].role
        => q = r

\* Rivals without a common lock have been recorded.
RivalInv ==
    \A x \in RoleIds \ blurred, q, r \in Requests :
        Replaces(request[q], x) /\ Replaces(request[r], x) /\ q # r
            => request[q].locked /\ request[r].locked

GrantInv == KnownInv /\ FaithfulInv /\ BareInv /\ LockInv /\ CreatorInv /\ RivalInv

LEMMA NoRival ==
    ASSUME LockInv, RivalInv, NEW x \in RoleIds \ blurred,
           NEW q \in Requests, Replaces(request[q], x),
           NEW r \in Requests, Replaces(request[r], x)
    PROVE  q = r
  BY DEF LockInv, RivalInv, Replaces

\* What a move of r makes of its own record.
Advances(r) ==
    /\ Known(request'[r])
    /\ Faithful(request'[r])
    /\ request'[r].locked => \/ request[r].locked /\ request'[r].role = request[r].role
                             \/ ~RowLocked(request'[r].role)
    /\ request'[r].creates => \/ request[r].creates /\ request'[r].role = request[r].role
                              \/ \A p \in Requests : request[p].role # request'[r].role
    /\ request'[r].pc \in InTransaction =>
           \/ /\ request[r].pc \in InTransaction
              /\ request'[r].role = request[r].role
              /\ request'[r].creates = request[r].creates
           \/ request'[r].creates
           \/ role[request'[r].role] # "unused"
    /\ request[r].asked # None /\ request'[r].asked # None =>
           request'[r].asked = request[r].asked /\ request'[r].role = request[r].role

LEMMA CallAdvances ==
    ASSUME TypeInv, BareInv, NEW r \in Requests, Call(r)
    PROVE  Advances(r)
<1> USE NoneIsNothing DEF Begin, Idle, Advances, Known, Faithful, InTransaction, Deleting, Replacing
<1>0. r \in DOMAIN request /\ (request[r].pc = "idle" => request[r].asked = None)
  BY DEF TypeInv, Shaped
<1>1. ASSUME NEW x \in RoleIds, NEW asked \in SUBSET Permissions,
             CreateRole(r, x, asked)
      PROVE  Advances(r)
  BY <1>0, <1>1 DEF CreateRole, BareInv
<1>2. ASSUME NEW x \in RoleIds, NEW asked \in {None} \cup SUBSET Permissions,
             NEW renames \in BOOLEAN, UpdateRole(r, x, asked, renames)
      PROVE  Advances(r)
  BY <1>0, <1>2 DEF UpdateRole, Alive
<1>3. ASSUME NEW x \in RoleIds, DeleteRole(r, x) PROVE Advances(r)
  BY <1>0, <1>3 DEF DeleteRole
<1>4. ASSUME NEW x \in RoleIds, NEW a \in Admins, CreateAdmin(r, a, x)
      PROVE  Advances(r)
  BY <1>0, <1>4 DEF CreateAdmin
<1>5. ASSUME NEW a \in Admins, NEW x \in RoleIds \cup {None}, UpdateAdmin(r, a, x)
      PROVE  Advances(r)
  BY <1>0, <1>5 DEF UpdateAdmin
<1>6. ASSUME NEW a \in Admins, SavePassword(r, a) PROVE Advances(r)
  BY <1>0, <1>6 DEF SavePassword
<1>7. ASSUME NEW a \in Admins, RemoveAdmin(r, a) PROVE Advances(r)
  BY <1>0, <1>7 DEF RemoveAdmin
<1> QED
  BY <1>1, <1>2, <1>3, <1>4, <1>5, <1>6, <1>7 DEF Call

LEMMA QuietAdvances ==
    ASSUME TypeInv, NEW r \in Requests, Known(request[r]), Faithful(request[r]), Quiet(r)
    PROVE  Advances(r)
<1> USE NoneIsNothing DEF Goto, Idle, Advances, Known, Faithful, InTransaction, Deleting, Replacing
<1>0. /\ r \in DOMAIN request
      /\ request[r] \in RequestRow
      /\ Shaped(request[r])
  BY DEF TypeInv
<1>1. CASE LockRow(r)
  BY <1>0, <1>1 DEF LockRow, AfterLock, RequestRow
<1>2. CASE ClearPermissions(r)
  BY <1>0, <1>2 DEF ClearPermissions, RequestRow, Shaped
<1>3. CASE PermissionsCleared(r)
  BY <1>0, <1>3 DEF PermissionsCleared, RequestRow, Shaped
<1>4. CASE AssignPermissions(r)
  BY <1>0, <1>4 DEF AssignPermissions, RequestRow, Shaped
<1>5. CASE InsertPermissions(r)
  BY <1>0, <1>5 DEF InsertPermissions, RequestRow, Shaped
<1>6. CASE FindRole(r)
  BY <1>0, <1>6 DEF FindRole, RequestRow, Alive
<1>7. CASE CheckRole(r)
  BY <1>0, <1>7 DEF CheckRole, RequestRow, Shaped
<1>8. CASE PreloadAdmin(r)
  BY <1>0, <1>8 DEF PreloadAdmin, RequestRow, Shaped
<1>9. CASE Fail(r)
  BY <1>0, <1>9 DEF Fail, RequestRow
<1>10. CASE ReadRole(r)
  BY <1>0, <1>10 DEF ReadRole, RequestRow
<1> QED
  BY <1>1, <1>2, <1>3, <1>4, <1>5, <1>6, <1>7, <1>8, <1>9, <1>10 DEF Quiet

LEMMA ObserveRivals == ASSUME Observe PROVE RivalInv' /\ blurred \subseteq blurred'
  BY DEF Observe, Blurred, RivalInv

\* The other handlers after a move of r, and the tables.
LEMMA MoveKeeps ==
    ASSUME TypeInv, NEW r \in Requests, NEW q, Moves(r, q)
    PROVE  /\ request'[r] = q
           /\ \A p \in Requests \ {r} : request'[p] = request[p]
           /\ UNCHANGED <<role, permissions>>
  BY DEF Moves, TypeInv

LEMMA GrantMove ==
    ASSUME TypeInv, GrantInv, NEW r \in Requests, Call(r) \/ Quiet(r), Observe
    PROVE  GrantInv'
<1>1. PICK new : Moves(r, new)
  BY CallMoves, QuietMoves
<1>2. /\ \A p \in Requests \ {r} : request'[p] = request[p]
      /\ UNCHANGED <<role, permissions>>
  BY <1>1, MoveKeeps
<1>3. Advances(r)
  BY CallAdvances, QuietAdvances DEF GrantInv, KnownInv, FaithfulInv
<1>4. KnownInv'
  BY <1>2, <1>3 DEF GrantInv, KnownInv, Known, Advances
<1>5. FaithfulInv'
  BY <1>2, <1>3, ObserveRivals DEF GrantInv, FaithfulInv, Faithful, Advances
<1>6. BareInv'
  BY <1>2 DEF GrantInv, BareInv
<1>7. LockInv'
  BY <1>2, <1>3 DEF GrantInv, LockInv, RowLocked, Advances
<1>8. CreatorInv'
  <2>1. \A p \in Requests : request[p].creates =>
          request[p].pc \in InTransaction /\ role[request[p].role] = "unused"
    BY DEF TypeInv, Shaped, GrantInv, KnownInv, Known
  <2> QED
    BY <1>2, <1>3, <2>1 DEF GrantInv, CreatorInv, Advances
<1> QED
  BY <1>4, <1>5, <1>6, <1>7, <1>8, ObserveRivals DEF GrantInv

\* What a commit of r leaves in another handler.
LEMMA CommitKeeps ==
    ASSUME TypeInv, NEW r \in Requests, Commit(r), NEW p \in Requests \ {r}
    PROVE  /\ request'[p].pc = request[p].pc
           /\ request'[p].role = request[p].role
           /\ request'[p].asked = request[p].asked
           /\ request'[p].creates = request[p].creates
           /\ request'[p].locked = request[p].locked
           /\ request'[p].inserted = request[p].inserted
           /\ request[p].role # request[r].role \/ request[r].cleared = {}
                => request'[p].cleared = request[p].cleared
           /\ request[p].cleared = {} => request'[p].cleared = {}
<1>1. /\ request[p] \in RequestRow
      /\ request[p].cleared \ {} = request[p].cleared
  BY DEF TypeInv
<1>2. request'[p] = IF request[p].role = request[r].role /\ request[p].pc = "clearing"
                    THEN [request[p] EXCEPT !.cleared = @ \ request[r].cleared]
                    ELSE request[p]
  BY DEF Commit
<1>3. CASE request[r].cleared = {}
  <2>1. request'[p].cleared = request[p].cleared
    BY <1>1, <1>2, <1>3 DEF RequestRow
  <2> QED
    BY <1>1, <1>2, <2>1 DEF RequestRow
<1>4. CASE request[r].cleared # {}
  BY <1>1, <1>2, <1>4 DEF RequestRow
<1> QED
  BY <1>3, <1>4

\* What a commit of r writes.
LEMMA CommitWrites ==
    ASSUME TypeInv, GrantInv, NEW r \in Requests, Commit(r)
    PROVE  /\ request[r].role \in RoleIds
           /\ request'[r] = Idle
           /\ \A x \in RoleIds \ {request[r].role} :
                role'[x] = role[x] /\ permissions'[x] = permissions[x]
           /\ role'[request[r].role] # "unused"
           /\ ~request[r].creates => role' = role
           /\ permissions' = [permissions EXCEPT ![request[r].role] =
                  (permissions[request[r].role] \ request[r].cleared)
                       \cup request[r].inserted]
           /\ request[r].asked = None =>
                request[r].cleared = {} /\ permissions' = permissions
<1>1. /\ request[r].role \in RoleIds
      /\ Known(request[r])
      /\ request[r].pc \in InTransaction
  BY DEF Commit, TypeInv, RequestRow, Shaped, InTransaction, GrantInv, KnownInv
<1> QED
  BY <1>1 DEF Commit, TypeInv, Known

LEMMA GrantCommit ==
    ASSUME TypeInv, GrantInv, NEW r \in Requests, Commit(r), Observe
    PROVE  GrantInv'
<1> DEFINE x == request[r].role
<1>1. \A p \in Requests : request[p].creates => request[p].pc \in InTransaction
  BY DEF TypeInv, Shaped
<1>2. request[r].pc = "commit"
  BY DEF Commit
<1>3. Known(Idle) /\ Faithful(Idle)
  BY DEF Known, Faithful, Idle, InTransaction, Deleting, Replacing
<1>4. KnownInv'
  <2> SUFFICES ASSUME NEW p \in Requests PROVE Known(request[p])'
    BY DEF KnownInv
  <2>1. CASE p = r
    BY <2>1, CommitWrites
       DEF Known, Idle, InTransaction, Deleting
  <2>2. CASE p # r
    <3>1. Known(request[p]) /\ Shaped(request[p]) /\ request[p] \in RequestRow
      BY DEF GrantInv, KnownInv, TypeInv
    <3>2. request[p].creates => role'[request[p].role] = "unused"
      BY <1>1, <2>2, <3>1, CommitWrites
         DEF Known, Shaped, RequestRow, GrantInv, CreatorInv
    <3>3. request[p].pc \in InTransaction \cup Deleting /\ ~request[p].creates
            => role'[request[p].role] # "unused"
      BY <3>1, CommitWrites DEF Known, Shaped, RequestRow
    <3> QED
      BY <2>2, <3>1, <3>2, <3>3, CommitKeeps DEF Known
  <2> QED
    BY <2>1, <2>2
<1>5. FaithfulInv'
  <2> SUFFICES ASSUME NEW p \in Requests, request'[p].asked # None,
                      request'[p].pc \in Replacing, request'[p].role \notin blurred'
               PROVE  /\ request'[p].cleared = permissions'[request'[p].role]
                      /\ request'[p].pc \in {"insert", "read", "commit"}
                           => request'[p].inserted = request'[p].asked
    BY DEF FaithfulInv, Faithful
  <2>1. p # r
    BY CommitWrites DEF Idle
  <2>2. /\ request[p].asked # None
        /\ request[p].pc \in Replacing
        /\ request[p].role \in RoleIds \ blurred
    BY <2>1, CommitKeeps, ObserveRivals
       DEF TypeInv, RequestRow, Shaped, Replacing, InTransaction
  <2>3. /\ request[p].cleared = permissions[request[p].role]
        /\ request[p].pc \in {"insert", "read", "commit"}
             => request[p].inserted = request[p].asked
    BY <2>2 DEF GrantInv, FaithfulInv, Faithful
  <2>4. request[p].role = x => request[r].asked = None
    BY <1>2, <2>1, <2>2, NoRival DEF Replaces, Replacing, GrantInv
  <2>5. /\ request'[p].role = request[p].role
        /\ request'[p].pc = request[p].pc
        /\ request'[p].inserted = request[p].inserted
        /\ request'[p].asked = request[p].asked
    BY <2>1, CommitKeeps
  <2>6. CASE request[p].role = x
    <3>1. request[r].cleared = {} /\ permissions' = permissions
      BY <2>4, <2>6, CommitWrites
    <3>2. request'[p].cleared = request[p].cleared
      BY <2>1, <3>1, CommitKeeps
    <3> QED
      BY <2>3, <2>5, <3>1, <3>2
  <2>7. CASE request[p].role # x
    <3>1. request'[p].cleared = request[p].cleared
      BY <2>1, <2>7, CommitKeeps
    <3>2. permissions'[request[p].role] = permissions[request[p].role]
      BY <2>2, <2>7, CommitWrites
    <3> QED
      BY <2>3, <2>5, <3>1, <3>2
  <2> QED
    BY <2>6, <2>7
<1>6. BareInv'
  BY CommitWrites DEF GrantInv, BareInv
<1>7. LockInv'
  BY CommitKeeps, CommitWrites DEF GrantInv, LockInv, Idle
<1>8. CreatorInv'
  BY CommitKeeps, CommitWrites DEF GrantInv, CreatorInv, Idle, InTransaction
<1> QED
  BY <1>4, <1>5, <1>6, <1>7, <1>8, ObserveRivals DEF GrantInv

\* The writes outside RoleService's transactions.
Writes(r) == SoftDelete(r) \/ InsertAdmin(r) \/ SaveAdmin(r) \/ SoftRemove(r)

LEMMA WriteKeeps ==
    ASSUME TypeInv, GrantInv, NEW r \in Requests, Writes(r)
    PROVE  /\ request'[r] = Idle
           /\ request[r].asked = None
           /\ \A p \in Requests \ {r} : request'[p] = request[p]
           /\ UNCHANGED permissions
           /\ \A x \in RoleIds : role'[x] = "unused" <=> role[x] = "unused"
<1>1. Shaped(request[r]) /\ Known(request[r])
  BY DEF TypeInv, GrantInv, KnownInv
<1> QED
  BY <1>1 DEF Writes, SoftDelete, InsertAdmin, SaveAdmin, SoftRemove, TypeInv,
              Shaped, Known, InTransaction, Deleting

LEMMA GrantWrite ==
    ASSUME TypeInv, GrantInv, NEW r \in Requests, Writes(r), Observe
    PROVE  GrantInv'
<1>1. \A p \in Requests : request[p].pc \in InTransaction \cup Deleting \/ request[p].creates
        => request[p].role \in RoleIds
  BY DEF TypeInv, RequestRow, Shaped
<1>2. KnownInv'
  <2> SUFFICES ASSUME NEW p \in Requests PROVE Known(request[p])'
    BY DEF KnownInv
  <2>1. CASE p = r
    BY <2>1, WriteKeeps DEF Known, Idle, InTransaction, Deleting
  <2>2. CASE p # r
    <3>1. Known(request[p]) /\ request'[p] = request[p]
      BY <2>2, WriteKeeps DEF GrantInv, KnownInv
    <3> QED
      BY <1>1, <3>1, WriteKeeps DEF Known
  <2> QED
    BY <2>1, <2>2
<1>3. FaithfulInv'
  BY WriteKeeps, ObserveRivals DEF GrantInv, FaithfulInv, Faithful, Idle
<1>4. BareInv'
  BY WriteKeeps DEF GrantInv, BareInv
<1>5. LockInv'
  BY WriteKeeps DEF GrantInv, LockInv, Idle
<1>6. CreatorInv'
  BY WriteKeeps DEF GrantInv, CreatorInv, Idle, InTransaction
<1> QED
  BY <1>2, <1>3, <1>4, <1>5, <1>6, ObserveRivals DEF GrantInv

LEMMA GrantNext == TypeInv /\ GrantInv /\ [Next]_vars => GrantInv'
<1>1. CASE UNCHANGED vars
  BY <1>1 DEF vars, GrantInv, KnownInv, Known, FaithfulInv, Faithful, BareInv,
              LockInv, CreatorInv, RivalInv
<1> QED
  BY <1>1, GrantMove, GrantCommit, GrantWrite DEF Next, Step, Quiet, Writes

LEMMA GrantInit == Init => GrantInv
  BY DEF Init, GrantInv, KnownInv, Known, FaithfulInv, Faithful, BareInv, LockInv,
         CreatorInv, RivalInv, Replaces, Idle, InTransaction, Deleting, Replacing

-----------------------------------------------------------------------------
(* The refinement. *)

LEMMA RefineInit == Init => Grants!Init
<1> SUFFICES ASSUME Init PROVE Grants!Init
  OBVIOUS
<1>1. Wanted = [r \in Requests |-> None]
  BY DEF Init, Wanted, Idle
<1>2. RoleIds \ blurred = RoleIds
  BY DEF Init
<1> QED
  BY <1>1, <1>2 DEF Init, Grants!Init

\* A waiting replacement is a replacement.
LEMMA WantedTyped ==
    ASSUME TypeInv, NEW r \in Requests, request[r].asked # None
    PROVE  [role |-> request[r].role, set |-> request[r].asked] # None
<1>1. request[r].role \in RoleIds /\ request[r].asked \in SUBSET Permissions
  BY DEF TypeInv, RequestRow, Shaped, InTransaction
<1> QED
  BY <1>1, NoneIsNothing

LEMMA RefineExact ==
    ASSUME Observe PROVE (RoleIds \ blurred') \in SUBSET (RoleIds \ blurred)
  BY ObserveRivals

\* A move asks for a replacement, gives one up, or is not seen.
LEMMA RefineMove ==
    ASSUME TypeInv, GrantInv, NEW r \in Requests, Call(r) \/ Quiet(r), Observe
    PROVE  Grants!Next
<1>1. PICK new : Moves(r, new)
  BY CallMoves, QuietMoves
<1>2. /\ \A p \in Requests \ {r} : request'[p] = request[p]
      /\ UNCHANGED permissions
      /\ request'[r] \in RequestRow
      /\ Shaped(request'[r])
  BY <1>1, MoveKeeps DEF Moves
<1>3. Advances(r)
  BY CallAdvances, QuietAdvances DEF GrantInv, KnownInv, FaithfulInv
<1>4. Wanted' = [Wanted EXCEPT ![r] =
          IF request'[r].asked = None THEN None
          ELSE [role |-> request'[r].role, set |-> request'[r].asked]]
  BY <1>2 DEF Wanted
<1>5. UNCHANGED Wanted \/ Grants!Ask(r) \/ Grants!GiveUp(r)
  <2>1. CASE request'[r].asked = None /\ request[r].asked = None
    BY <1>4, <2>1 DEF Wanted
  <2>2. CASE request'[r].asked = None /\ request[r].asked # None
    <3>1. Wanted[r] # None
      BY <2>2, WantedTyped DEF Wanted
    <3> QED
      BY <1>2, <1>4, <2>2, <3>1 DEF Grants!GiveUp
  <2>3. CASE request'[r].asked # None /\ request[r].asked = None
    <3>1. [role |-> request'[r].role, set |-> request'[r].asked] \in Grants!Replacement
      BY <1>2, <2>3 DEF Grants!Replacement, RequestRow, Shaped, InTransaction
    <3>2. Wanted[r] = None
      BY <2>3 DEF Wanted
    <3> QED
      BY <1>2, <1>4, <2>3, <3>1, <3>2 DEF Grants!Ask
  <2>4. CASE request'[r].asked # None /\ request[r].asked # None
    BY <1>3, <1>4, <2>4 DEF Wanted, Advances
  <2> QED
    BY <2>1, <2>2, <2>3, <2>4
<1> QED
  BY <1>2, <1>5, RefineExact DEF Grants!Next

\* A commit of a replacement is the abstract replacement.
LEMMA RefineCommit ==
    ASSUME TypeInv, GrantInv, NEW r \in Requests, Commit(r), Observe
    PROVE  Grants!Next
<1> DEFINE x == request[r].role
<1>1. Wanted' = [Wanted EXCEPT ![r] = None]
  <2>1. \A p \in Requests \ {r} : /\ request'[p].asked = request[p].asked
                                  /\ request'[p].role = request[p].role
    BY CommitKeeps
  <2>2. request'[r].asked = None
    BY CommitWrites DEF Idle
  <2> QED
    BY <2>1, <2>2 DEF Wanted
<1>2. CASE request[r].asked = None
  <2>1. UNCHANGED <<permissions, Wanted>>
    BY <1>1, <1>2, CommitWrites DEF Wanted
  <2> QED
    BY <2>1, RefineExact DEF Grants!Next
<1>3. CASE request[r].asked # None
  <2> DEFINE left == (permissions[x] \ request[r].cleared) \cup request[r].inserted
  <2>1. Wanted[r] = [role |-> x, set |-> request[r].asked] /\ Wanted[r] # None
    BY <1>3, WantedTyped DEF Wanted
  <2>2. left \in SUBSET (permissions[x] \cup request[r].asked)
    BY <1>3 DEF GrantInv, KnownInv, Known
  <2>3. x \in RoleIds \ blurred => left = request[r].asked
    <3>1. Faithful(request[r]) /\ request[r].pc = "commit"
      BY DEF GrantInv, FaithfulInv, Commit
    <3> QED
      BY <1>3, <3>1 DEF Faithful, Replacing
  <2>4. permissions' = [permissions EXCEPT ![x] = left]
    BY CommitWrites
  <2> HIDE DEF left
  <2>5. /\ left \in SUBSET (permissions[Wanted[r].role] \cup Wanted[r].set)
        /\ Wanted[r].role \in RoleIds \ blurred => left = Wanted[r].set
        /\ permissions' = [permissions EXCEPT ![Wanted[r].role] = left]
    BY <2>1, <2>2, <2>3, <2>4
  <2>6. Grants!Replace(r)
    BY <1>1, <2>1, <2>5 DEF Grants!Replace
  <2> QED
    BY <2>6, RefineExact DEF Grants!Next
<1> QED
  BY <1>2, <1>3

LEMMA RefineWrite ==
    ASSUME TypeInv, GrantInv, NEW r \in Requests, Writes(r), Observe
    PROVE  Grants!Next
<1>1. UNCHANGED <<permissions, Wanted>>
  BY WriteKeeps DEF Wanted, Idle
<1> QED
  BY <1>1, RefineExact DEF Grants!Next

LEMMA RefineNext ==
    TypeInv /\ GrantInv /\ [Next]_vars => [Grants!Next]_(Grants!vars)
<1>1. CASE UNCHANGED vars
  BY <1>1 DEF vars, Grants!vars, Wanted
<1> QED
  BY <1>1, RefineMove, RefineCommit, RefineWrite DEF Next, Step, Quiet, Writes

\* RoleService's transactions implement RoleGrants: a replacement of a role's
\* permissions is exact until two that do not both hold the row overlap.
THEOREM ReplacementsRefine == Spec => ReplacementsAreExact
<1>1. Spec => []GrantInv
  BY GrantInit, GrantNext, TypeAlways, PTL DEF Spec
<1> QED
  BY <1>1, TypeAlways, RefineInit, RefineNext, PTL
     DEF Spec, ReplacementsAreExact, Grants!Spec

=============================================================================
