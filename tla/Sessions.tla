------------------------------ MODULE Sessions ------------------------------
(***************************************************************************)
(* Accounts and refresh tokens of nest-forge: TokenService, UserAuthService,*)
(* AdminAuthService and the account writes of UserService, AdminService and *)
(* PasswordResetService.                                                   *)
(*                                                                         *)
(* A request is a handler suspended at one of its awaits.  The database    *)
(* executes one statement at a time and nothing is wrapped in a            *)
(* transaction, so handlers interleave between any two statements.         *)
(* repository.save(entity) writes back every loaded column that differs    *)
(* from the row of that moment, the columns the handler never touched      *)
(* included.  A relation loaded with the entity is written back too: the    *)
(* owner of a refresh token, the refresh tokens of a user.                 *)
(*                                                                         *)
(* Left out: columns no handler decides on (names, profile image,          *)
(* lastLoginAt, lastLogoutAt), roles, the logs, and the rejected requests  *)
(* that change nothing.                                                    *)
(***************************************************************************)
EXTENDS Naturals, FiniteSets

CONSTANTS
    Users,      \* ids of rows of table users
    Admins,     \* ids of rows of table admins
    Tokens,     \* ids of rows of table refresh_tokens; bounds the logins
    Requests,   \* concurrent handlers
    Passwords,  \* password hashes
    None        \* null: no value, a column that was not loaded

Subjects == Users \cup Admins

ASSUME SubjectsAreDistinct == Users \cap Admins = {}
ASSUME NoneIsNoValue ==
    None \notin Subjects \cup Tokens \cup Passwords \cup BOOLEAN

VARIABLES
    account,       \* account[s]: the row of user or admin s
    refreshToken,  \* refreshToken[t]: the row of refresh token t
    request,       \* request[r]: what handler r holds across its awaits
    \* History variables: no action of the code reads them.
    ended,         \* tokens a handler revoked or found revoked
    predecessors,  \* predecessors[t]: tokens the account had when the login that
                   \* issued t revoked
    issuedTo,      \* issuedTo[t]: the account that logged in to get t
    removed,       \* accounts that were soft-deleted at some time
    settled        \* settled[s][c]: last decision on column c that overlapped
                   \* no other handler holding that column, else None

history == <<ended, predecessors, issuedTo, removed, settled>>
vars    == <<account, refreshToken, request, history>>

-----------------------------------------------------------------------------
(* Rows and entities. *)

\* deletedAt is a flag, password a hash.  password is `select: false`.
Columns == {"deleted", "isBanned", "password"}
Default == {"deleted", "isBanned"}
Value   == BOOLEAN \cup Passwords \cup {None}

ASSUME NoneIsNoEntity == None \notin [Columns -> Value]

Nothing == [c \in Columns |-> None]

\* What a DTO may set: the fields of CreateUserDto / CreateAdminDto that
\* decide about the account.
Dto(bans, hashes) ==
    {[c \in Columns |-> IF c = "isBanned" THEN b
                        ELSE IF c = "password" THEN h ELSE None] :
        b \in bans \cup {None}, h \in hashes \cup {None}}

NewPassword(h) == [Nothing EXCEPT !["password"] = h]

\* The entity a find returns: the loaded columns of the row as it is now.
Loaded(s, cols) == [c \in Columns |-> IF c \in cols THEN account[s][c] ELSE None]

\* Mutant: save writes the columns that were not loaded as well.
OverlayWhole(under, over) == [c \in Columns |-> over[c]]

\* What save leaves in the row: every loaded column of the entity wins.
Overlay(under, over) ==
    [c \in Columns |-> IF over[c] # None THEN over[c] ELSE under[c]]

Exists(s) == ~account[s]["deleted"]

Row(state, owner) ==
    [state |-> state, owner |-> owner, isRevoked |-> FALSE, age |-> "fresh"]

Stored(t) == refreshToken[t].state = "stored"
TokensOf(s) == {t \in Tokens : Stored(t) /\ refreshToken[t].owner = s}

\* What a handler still has to do decides its kind: the three logins revoke
\* and issue, the password changes of the app zone revoke, an update only
\* saves.
Ops == {"none", "login", "password", "update", "appUpdate", "deleteProfile",
        "remove", "logout", "refresh"}
Pcs == {"idle", "reread", "preload", "save", "revokeAll", "issue",
        "saveToken", "softDelete"}

\* token, owner: a token entity and its user_id or admin_id; joined: the relation
\* user or admin would not write null over it.  collection: the refreshTokens a
\* user was loaded with.
Idle == [op |-> "none", pc |-> "idle", subject |-> None, row |-> None,
         dto |-> Nothing, token |-> None, owner |-> None, joined |-> FALSE,
         collection |-> {}, ended |-> {}]

TypeOK ==
    /\ account \in [Subjects -> [Columns -> Value]]
    /\ \A s \in Subjects : /\ account[s]["deleted"] \in BOOLEAN
                           /\ account[s]["isBanned"] \in BOOLEAN
                           /\ account[s]["password"] \in Passwords
    /\ refreshToken \in
         [Tokens -> [state : {"unused", "stored", "purged"},
                     owner : Subjects \cup {None},
                     isRevoked : BOOLEAN,
                     age : {"fresh", "week", "expired"}]]
    /\ request \in
         [Requests -> [op : Ops, pc : Pcs, subject : Subjects \cup {None},
                       row : [Columns -> Value] \cup {None},
                       dto : [Columns -> Value],
                       token : Tokens \cup {None},
                       owner : Subjects \cup {None},
                       joined : BOOLEAN,
                       collection : SUBSET Tokens,
                       ended : SUBSET Tokens]]
    /\ ended \in SUBSET Tokens
    /\ predecessors \in [Tokens -> SUBSET Tokens]
    /\ issuedTo \in [Tokens -> Subjects \cup {None}]
    /\ removed \in SUBSET Subjects
    /\ settled \in [Subjects -> [Columns -> Value]]

\* An account as registration or an admin left it, alive or soft-deleted.
SeededRow(h, d) == [c \in Columns |-> IF c = "password" THEN h
                                      ELSE IF c = "deleted" THEN d ELSE FALSE]

Init ==
    /\ account \in [Subjects -> {SeededRow(h, d) : h \in Passwords, d \in BOOLEAN}]
    /\ refreshToken = [t \in Tokens |-> Row("unused", None)]
    /\ request = [r \in Requests |-> Idle]
    /\ ended = {}
    /\ predecessors = [t \in Tokens |-> {}]
    /\ issuedTo = [t \in Tokens |-> None]
    /\ removed = {s \in Subjects : ~Exists(s)}
    /\ settled = account

-----------------------------------------------------------------------------
(* The first step of each handler: its first read and the checks on it. *)

Open(r, q) ==
    /\ request[r].pc = "idle"
    /\ request' = [request EXCEPT ![r] = q]
    /\ UNCHANGED <<account, refreshToken, history>>

Begin(r, op, pc, s, row, dto) ==
    Open(r, [Idle EXCEPT !.op = op, !.pc = pc, !.subject = s, !.row = row, !.dto = dto])

\* Bound: a login starts only when a token id is left for it.
LoginBudget ==
    Cardinality({r \in Requests : request[r].op = "login"})
        < Cardinality({t \in Tokens : refreshToken[t].state = "unused"})

\* The caller presents the password of the row that is read; the comparison
\* and the ban check use that same entity.
UserLogin(r, u) ==
    /\ LoginBudget
    /\ Exists(u)
    /\ ~account[u]["isBanned"]
    /\ Begin(r, "login", "save", u, Loaded(u, Columns), Nothing)

\* handleOAuthLogin for an identity that is already linked or whose email is
\* known; the row is read again by preload.
HandleOAuthLogin(r, u) ==
    /\ LoginBudget
    /\ Exists(u)
    /\ Begin(r, "login", "preload", u, None, Nothing)

\* validateAdmin reads the password, adminLogin then reads the role.
AdminLogin(r, a) ==
    /\ LoginBudget
    /\ Exists(a)
    /\ Begin(r, "login", "reread", a, None, Nothing)

\* The loaded entity carries the new password from here on.
ChangePassword(r, s, h) ==
    /\ Exists(s)
    /\ Begin(r, "password", "save", s,
             Overlay(Loaded(s, Columns), NewPassword(h)), NewPassword(h))

UserResetPassword(r, u, h) ==
    /\ Exists(u)
    /\ Begin(r, "password", "save", u,
             Overlay(Loaded(u, Default), NewPassword(h)), NewPassword(h))

\* The admin zone's reset, which serves both tables and revokes nothing.
ResetPassword(r, s, h) ==
    /\ Exists(s)
    /\ Begin(r, "update", "save", s,
             Overlay(Loaded(s, Default), NewPassword(h)), NewPassword(h))

\* UserService.update and AdminService.update called by an admin.
Update(r, s, dto) ==
    /\ Exists(s)
    /\ Begin(r, "update", "preload", s, None, dto)

\* PATCH /api/v1/app/me: UpdateUserProfileDto holds no column modelled here.
AppUpdate(r, u) ==
    /\ Exists(u)
    /\ Begin(r, "appUpdate", "preload", u, None, Nothing)

\* PATCH auth/profile: a user's DTO is a partial CreateUserDto, an admin's
\* handler copies the password only.
UpdateProfile(r, s, dto) ==
    /\ Exists(s)
    /\ s \in Admins => dto["isBanned"] = None
    /\ Begin(r, "update", "preload", s, None, dto)

\* findByIdWithRefreshTokens.
DeleteProfile(r, u) ==
    /\ Exists(u)
    /\ Open(r, [Idle EXCEPT !.op = "deleteProfile", !.pc = "revokeAll", !.subject = u,
                            !.collection = TokensOf(u)])

\* An admin removes a user or another admin: no token is revoked.
Remove(r, s) ==
    /\ Exists(s)
    /\ Begin(r, "remove", "softDelete", s, None, Nothing)

\* revokeToken loads no relation; it ignores a token it does not find.  t is the
\* token in the body, issued to anyone or to nobody.
Logout(r, s, t) ==
    /\ Exists(s)
    /\ \/ /\ Stored(t)
          /\ Open(r, [Idle EXCEPT !.op = "logout", !.pc = "saveToken", !.subject = s,
                       !.token = t, !.owner = refreshToken[t].owner, !.joined = TRUE])
       \/ ~Stored(t) /\ Begin(r, "logout", "revokeAll", s, None, Nothing)

\* The relations user and admin leave a soft-deleted owner out.
OwnerExists(t) == refreshToken[t].owner # None /\ Exists(refreshToken[t].owner)

\* Mutant: the check that the token has an owner is lost.
RefreshableAnyOwner(t) ==
    /\ Stored(t)
    /\ ~refreshToken[t].isRevoked
    /\ refreshToken[t].age # "expired"
    /\ refreshToken[t].owner # None

\* What refreshAccessToken answers with a new access token; the answer
\* changes no row.
Refreshable(t) ==
    /\ Stored(t)
    /\ ~refreshToken[t].isRevoked
    /\ refreshToken[t].age # "expired"
    /\ OwnerExists(t)

\* The path of refreshAccessToken that writes: an expired token.
RefreshExpired(r, t) ==
    /\ Stored(t)
    /\ ~refreshToken[t].isRevoked
    /\ refreshToken[t].age = "expired"
    /\ Open(r, [Idle EXCEPT !.op = "refresh", !.pc = "saveToken", !.token = t,
                 !.owner = refreshToken[t].owner, !.joined = OwnerExists(t)])

-----------------------------------------------------------------------------
(* The later steps of the handlers. *)

Continue(r, pc) ==
    request' = [request EXCEPT ![r] =
        IF pc = "idle" THEN Idle
        ELSE [@ EXCEPT !.pc = pc, !.row = None, !.dto = Nothing, !.token = None,
                       !.owner = None, !.joined = FALSE]]

\* findByIdWithRoleRelations of adminLogin.
Reread(r) ==
    /\ request[r].pc = "reread"
    /\ Continue(r, IF Exists(request[r].subject) THEN "revokeAll" ELSE "idle")
    /\ UNCHANGED <<account, refreshToken, history>>

\* Mutant: create(dto) instead of preload, which fills in the defaults.
CreateEntity(r) ==
    LET s == request[r].subject
    IN  /\ request[r].pc = "preload"
        /\ Exists(s)
        /\ request' = [request EXCEPT ![r].pc = "save",
               ![r].row = Overlay([Nothing EXCEPT !["isBanned"] = FALSE],
                                  request[r].dto)]
        /\ UNCHANGED <<account, refreshToken, history>>

\* repository.preload: a fresh read without the password, under the DTO.  A
\* row deleted meanwhile is a 404, except for an OAuth login, which goes on
\* with the entity it found first.
PreloadEntity(r) ==
    LET s == request[r].subject
    IN  /\ request[r].pc = "preload"
        /\ IF Exists(s)
           THEN request' = [request EXCEPT ![r].pc = "save",
                    ![r].row = Overlay(Loaded(s, Default), request[r].dto)]
           ELSE Continue(r, IF request[r].op = "login" THEN "revokeAll"
                            ELSE "idle")
        /\ UNCHANGED <<account, refreshToken, history>>

\* q may still write column c of s from an entity it loaded earlier.
Holds(q, s, c) ==
    /\ request[q].subject = s
    /\ request[q].row # None
    /\ request[q].row[c] # None

\* A column r decides on is settled when no other handler holds it.
Settle(r, s, decision) ==
    settled' = [settled EXCEPT ![s] = [c \in Columns |->
        IF decision[c] = None THEN settled[s][c]
        ELSE IF \E q \in Requests \ {r} : Holds(q, s, c) THEN None
        ELSE decision[c]]]

AfterSave(op) ==
    IF op \in {"login", "password"} THEN "revokeAll" ELSE "idle"

SaveEntity(r) ==
    LET s == request[r].subject
    IN  /\ request[r].pc = "save"
        /\ account' = [account EXCEPT ![s] = Overlay(account[s], request[r].row)]
        /\ Settle(r, s, request[r].dto)
        /\ Continue(r, AfterSave(request[r].op))
        /\ UNCHANGED <<refreshToken, ended, predecessors, issuedTo, removed>>

AfterRevokeAll(op) ==
    IF op = "login" THEN "issue"
    ELSE IF op = "deleteProfile" THEN "softDelete" ELSE "idle"

\* Mutant: the UPDATE also asks for a token older than a week.
RevokeAllAged(r, toks) ==
    /\ refreshToken' = [t \in Tokens |->
           IF t \in toks /\ refreshToken[t].age # "fresh"
           THEN [refreshToken[t] EXCEPT !.isRevoked = TRUE] ELSE refreshToken[t]]
    /\ ended' = ended \cup toks
    /\ request' = [request EXCEPT ![r] =
           IF AfterRevokeAll(request[r].op) = "idle" THEN Idle
           ELSE [@ EXCEPT !.pc = AfterRevokeAll(request[r].op),
                          !.ended = TokensOf(request[r].subject)]]
    /\ UNCHANGED <<account, predecessors, issuedTo, removed, settled>>

RevokeAll(r, toks) ==
    /\ refreshToken' = [t \in Tokens |-> IF t \in toks
           THEN [refreshToken[t] EXCEPT !.isRevoked = TRUE] ELSE refreshToken[t]]
    /\ ended' = ended \cup toks
    /\ LET pc == AfterRevokeAll(request[r].op)
       IN  request' = [request EXCEPT ![r] = IF pc = "idle" THEN Idle
               ELSE [@ EXCEPT !.pc = pc,
                              !.ended = IF pc = "issue" THEN TokensOf(request[r].subject)
                                        ELSE {}]]
    /\ UNCHANGED <<account, predecessors, issuedTo, removed, settled>>

\* UPDATE ... WHERE user_id = :id; logout calls it with an admin's id too,
\* which no row matches.
RevokeAllUserTokens(r) ==
    /\ request[r].pc = "revokeAll"
    /\ request[r].subject \in Users \/ request[r].op = "logout"
    /\ RevokeAll(r, IF request[r].subject \in Users
                    THEN TokensOf(request[r].subject) ELSE {})

RevokeAllAdminTokens(r) ==
    /\ request[r].pc = "revokeAll"
    /\ request[r].subject \in Admins
    /\ request[r].op # "logout"
    /\ RevokeAll(r, TokensOf(request[r].subject))

GenerateRefreshToken(r, t) ==
    /\ request[r].pc = "issue"
    /\ refreshToken[t].state = "unused"
    /\ refreshToken' = [refreshToken EXCEPT ![t] =
                            Row("stored", request[r].subject)]
    /\ predecessors' = [predecessors EXCEPT ![t] = request[r].ended]
    /\ issuedTo' = [issuedTo EXCEPT ![t] = request[r].subject]
    /\ Continue(r, "idle")
    /\ UNCHANGED <<account, ended, removed, settled>>

\* Mutant: an expired refresh extends the token it loaded instead of revoking.
SaveRenewed(r) ==
    LET t == request[r].token
    IN  /\ request[r].pc = "saveToken"
        /\ Stored(t)
        /\ refreshToken' = [refreshToken EXCEPT
               ![t] = Row("stored", refreshToken[t].owner)]
        /\ Continue(r, "idle")
        /\ UNCHANGED <<account, history>>

\* Mutant: logout revokes the token it was sent, and no other.
SaveRevokedOnly(r) ==
    LET t == request[r].token
    IN  /\ request[r].pc = "saveToken"
        /\ IF Stored(t)
           THEN /\ refreshToken' = [refreshToken EXCEPT ![t].isRevoked = TRUE]
                /\ ended' = ended \cup {t}
           ELSE UNCHANGED <<refreshToken, ended>>
        /\ Continue(r, "idle")
        /\ UNCHANGED <<account, predecessors, issuedTo, removed, settled>>

\* Mutant: logout saves an entity without its owner.
SavedOwnerOfRefresh(r) ==
    LET q == request[r]
    IN  IF q.op = "refresh" /\ q.joined THEN q.owner ELSE None

\* The user_id or admin_id the entity leaves in its row: a relation that was loaded
\* as null is written over an owner; otherwise the column is, as it was loaded.
SavedOwner(r) ==
    LET q == request[r]
    IN  IF q.joined \/ refreshToken[q.token].owner = None THEN q.owner ELSE None

\* save of a token entity whose row the cron deleted becomes an INSERT
\* without token_hash, which fails: the handler ends there.
SaveRevoked(r) ==
    LET t == request[r].token
    IN  /\ request[r].pc = "saveToken"
        /\ IF Stored(t)
           THEN /\ refreshToken' = [refreshToken EXCEPT ![t].isRevoked = TRUE,
                                                        ![t].owner = SavedOwner(r)]
                /\ ended' = ended \cup {t}
                /\ Continue(r, IF request[r].op = "logout" THEN "revokeAll"
                               ELSE "idle")
           ELSE Continue(r, "idle") /\ UNCHANGED <<refreshToken, ended>>
        /\ UNCHANGED <<account, predecessors, issuedTo, removed, settled>>

\* softRemove leaves a user the tokens he was loaded with: user_id becomes null
\* in those issued since, and is set again in a loaded one that lost it.
SyncedOwner(r, t) ==
    LET s == request[r].subject
    IN  IF request[r].op # "deleteProfile" THEN refreshToken[t].owner
        ELSE IF t \in request[r].collection THEN s
        ELSE IF refreshToken[t].owner = s THEN None ELSE refreshToken[t].owner

\* remove loads its entity without relations.
SoftDeleteEntity(r) ==
    LET s == request[r].subject
    IN  /\ request[r].pc = "softDelete"
        /\ account' = [account EXCEPT ![s]["deleted"] = TRUE]
        /\ refreshToken' = [t \in Tokens |->
               IF Stored(t) THEN [refreshToken[t] EXCEPT !.owner = SyncedOwner(r, t)]
               ELSE refreshToken[t]]
        /\ removed' = removed \cup {s}
        /\ Settle(r, s, [Nothing EXCEPT !["deleted"] = TRUE])
        /\ Continue(r, "idle")
        /\ UNCHANGED <<ended, predecessors, issuedTo>>

-----------------------------------------------------------------------------
(* Time and the nightly cron. *)

\* A stored token becomes a week old, then reaches expiresAt (30 days); no
\* reader tells an expired token from an unexpired one once it is revoked.
GrowOld(t) ==
    /\ Stored(t)
    /\ \/ refreshToken[t].age = "fresh"
       \/ refreshToken[t].age = "week" /\ ~refreshToken[t].isRevoked
    /\ refreshToken' = [refreshToken EXCEPT ![t].age =
                            IF @ = "fresh" THEN "week" ELSE "expired"]
    /\ UNCHANGED <<account, request, history>>

\* Mutant: the second condition of the DELETE is lost.
PurgeableByAge(t) == Stored(t) /\ refreshToken[t].age # "fresh"

Purgeable(t) ==
    /\ Stored(t)
    /\ refreshToken[t].age # "fresh"
    /\ refreshToken[t].isRevoked \/ refreshToken[t].age = "expired"

CleanupExpiredRefreshTokens ==
    /\ \E t \in Tokens : Purgeable(t)
    /\ refreshToken' = [t \in Tokens |-> IF Purgeable(t)
                                      THEN Row("purged", None)
                                      ELSE refreshToken[t]]
    /\ UNCHANGED <<account, request, history>>

Step(r) ==
    \/ Reread(r)
    \/ PreloadEntity(r)
    \/ SaveEntity(r)
    \/ RevokeAllUserTokens(r)
    \/ RevokeAllAdminTokens(r)
    \/ \E t \in Tokens : GenerateRefreshToken(r, t)
    \/ SaveRevoked(r)
    \/ SoftDeleteEntity(r)

Call(r) ==
    \/ \E u \in Users :
         \/ UserLogin(r, u)
         \/ HandleOAuthLogin(r, u)
         \/ AppUpdate(r, u)
         \/ DeleteProfile(r, u)
         \/ \E h \in Passwords : UserResetPassword(r, u, h)
    \/ \E a \in Admins : AdminLogin(r, a)
    \/ \E s \in Subjects :
         \/ \E h \in Passwords : ChangePassword(r, s, h) \/ ResetPassword(r, s, h)
         \/ \E dto \in Dto(BOOLEAN, Passwords) :
              Update(r, s, dto) \/ UpdateProfile(r, s, dto)
         \/ Remove(r, s)
         \/ \E t \in Tokens : Logout(r, s, t)
    \/ \E t \in Tokens : RefreshExpired(r, t)

Next ==
    \/ \E r \in Requests : Call(r) \/ Step(r)
    \/ \E t \in Tokens : GrowOld(t)
    \/ CleanupExpiredRefreshTokens

Spec == Init /\ [][Next]_vars

-----------------------------------------------------------------------------
(* Properties. *)

\* Logout, a password change, a reset and every login promise that the
\* refresh tokens of that moment are dead.  No later write of a handler that
\* loaded a token row earlier, and no cleanup, makes one of them refreshable
\* again (revokeAllUserTokens, revokeAllAdminTokens, revokeToken,
\* refreshAccessToken).
EndedStaysEnded == \A t \in ended : ~Refreshable(t)

\* completeUserLogin and completeAdminLogin revoke before they issue, which
\* is meant to leave one session per account.  Two live tokens of one
\* account are possible only when their logins overlapped: neither was in the
\* account's tokens when the other login revoked them.
SessionsOverlap ==
    \A t1, t2 \in Tokens :
        /\ Refreshable(t1)
        /\ Refreshable(t2)
        /\ refreshToken[t1].owner = refreshToken[t2].owner
        => t1 \notin predecessors[t2]

\* A ban, its lifting, a password change, a reset or a deletion that overlapped
\* no other handler holding the same column of the row stays in effect until
\* the next decision on that column, however many logins and profile updates
\* write the whole row back.
SettledWritesHold ==
    \A s \in Subjects, c \in Columns :
        settled[s][c] # None => account[s][c] = settled[s][c]

\* A refreshable token stops being one when it expires, or by a handler that was
\* called for the account it belongs to or with that token: no logout, login or
\* deletion of another account and no nightly cleanup signs anybody out
\* (revokeAllUserTokens, cleanupExpiredRefreshTokens, softDeleteEntity).
SessionsEndForAReason ==
    [][\A t \in Tokens : Refreshable(t) /\ ~Refreshable(t)' =>
         \/ refreshToken'[t].age = "expired"
         \/ \E r \in Requests :
              /\ request'[r] # request[r]
              /\ \/ request[r].subject = refreshToken[t].owner
                 \/ request[r].token = t]_vars

\* A row of refresh_tokens belongs to the account that logged in, or to nobody
\* once that account was deleted: an expired refresh then writes the relation it
\* could not load, a deletion the collection it loaded too early.  No save, of
\* whatever age, gives a token to another account, and none takes a token from an
\* account that was never deleted (refreshAccessToken, revokeToken, softDeleteEntity).
TokensKeepOwners ==
    \A t \in Tokens : Stored(t) =>
        \/ refreshToken[t].owner = issuedTo[t]
        \/ refreshToken[t].owner = None /\ issuedTo[t] \in removed

\* A login in flight may issue a token after the account was deleted, since no
\* deletion revokes what comes next and remove revokes nothing.  Nobody is
\* refreshed with it, nor with an older one, as long as no handler that read the
\* account before the deletion may still write it back.
DeletedAreSignedOut ==
    \A t \in Tokens : Refreshable(t) => settled[refreshToken[t].owner]["deleted"] # TRUE

\* UpdateUserProfileDto's comment: a user can never "mutate account-control
\* state through /api/v1/app/me".  The save at the end of that handler leaves
\* the ban and the password of the account alone.
AppUpdateSparesControlState ==
    [][\A r \in Requests, s \in Subjects, c \in {"isBanned", "password"} :
         request[r].op = "appUpdate" /\ request[r].pc = "save" /\ request'[r] = Idle
           => account'[s][c] = account[s][c]]_vars

=============================================================================
