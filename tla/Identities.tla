----------------------------- MODULE Identities -----------------------------
(***************************************************************************)
(* Who an account belongs to: phone, e-mail and the Google and Apple ids   *)
(* of table users, as UserAuthService.handleOAuthLogin finds, creates and  *)
(* links accounts by them while the other handlers of users create, change *)
(* and remove rows.                                                        *)
(*                                                                         *)
(* A handler is suspended at its awaits and no transaction spans two of    *)
(* them.  repository.save(entity) writes back every column that it loaded  *)
(* and that differs from the row, nulls and deleted_at included: the row   *)
(* becomes what the handler once read, alive.  The unique indexes of users *)
(* compare rows that are alive.                                            *)
(*                                                                         *)
(* Left out: the columns of Sessions and ProfileImages, the registration   *)
(* session (Registration), and what a login does once it has its account.  *)
(***************************************************************************)
CONSTANTS
    Accounts,              \* ids of rows of table users; bounds the inserts
    Emails, PhoneNumbers, GoogleIds, AppleIds,
    Handlers,              \* concurrent handlers
    Payloads,              \* what an OAuth login may present
    NewUsers,              \* what CreateUserDto, or a registration, may hold
    Changes,               \* what UpdateUserDto or UpdateProfileDto may set
    Null                   \* null, undefined

Columns       == {"email", "phone", "googleId", "appleId"}
UniqueColumns == {"phone", "googleId", "appleId"}

Entity == [email    : Emails \cup {Null},    phone   : PhoneNumbers \cup {Null},
           googleId : GoogleIds \cup {Null}, appleId : AppleIds \cup {Null}]

Nothing == [email |-> Null, phone |-> Null, googleId |-> Null, appleId |-> Null]

Ids == GoogleIds \cup AppleIds

ASSUME NullIsNothing ==
    Null \notin Accounts \cup Emails \cup PhoneNumbers \cup Ids \cup Entity

ASSUME ProvidersAreApart == GoogleIds \cap AppleIds = {}

\* A payload names one provider; that of an SMS payload has no column.
ASSUME PayloadsAreTyped ==
    /\ Payloads \subseteq Entity
    /\ \A p \in Payloads : p.googleId = Null \/ p.appleId = Null

\* No DTO has a field for an id of a provider.
ASSUME DtosAreTyped ==
    /\ NewUsers \cup Changes \subseteq Entity
    /\ \A d \in NewUsers \cup Changes : d.googleId = Null /\ d.appleId = Null

VARIABLES
    row,      \* row[a]: the row of user a, Null as long as there is none
    alive,    \* the rows whose deleted_at is null
    handler,  \* handler[r]: what handler r holds across its awaits
    \* History variables: no action of the code reads them.
    home,     \* home[i]: the account that the last login of identity i left
              \* linked, unless another handler was about to overwrite it
    written   \* written[r]: rows written since login r looked for its e-mail

identityVars == <<row, alive, handler, home, written>>

Ops == {"none", "oauth", "create", "update", "remove"}
Awaits == {"idle", "findByEmail", "insert", "checkPhone", "preload", "save", "softRemove"}

HandlerRow == [op : Ops, pc : Awaits, account : Accounts \cup {Null},
               dto : Entity, entity : Entity \cup {Null}, identity : Ids \cup {Null}]

AtRest == [op |-> "none", pc |-> "idle", account |-> Null,
           dto |-> Nothing, entity |-> Null, identity |-> Null]

\* The columns and the handlers are well typed; a row that is alive was
\* inserted and, as the column phone is NOT NULL, has a phone.
IdentityTypeOK ==
    /\ row \in [Accounts -> Entity \cup {Null}]
    /\ alive \in SUBSET Accounts
    /\ \A a \in alive : row[a] # Null /\ row[a].phone # Null
    /\ handler \in [Handlers -> HandlerRow]
    /\ home \in [Ids -> Accounts \cup {Null}]
    /\ written \in [Handlers -> SUBSET Accounts]

IdentityInit ==
    /\ row = [a \in Accounts |-> Null]
    /\ alive = {}
    /\ handler = [r \in Handlers |-> AtRest]
    /\ home = [i \in Ids |-> Null]
    /\ written = [r \in Handlers |-> {}]

-----------------------------------------------------------------------------
(* The table. *)

Having(c, v) == {a \in alive : v # Null /\ row[a][c] = v}

\* Mutant: phone is nullable.
PermittedNullable(a, e) ==
    \A c \in UniqueColumns : Having(c, e[c]) \subseteq {a}

\* Mutant: the phone has no index.
PermittedSharedPhone(a, e) ==
    /\ e.phone # Null
    /\ \A c \in UniqueColumns \ {"phone"} : Having(c, e[c]) \subseteq {a}

\* What the unique indexes let row a hold; phone is NOT NULL.
Permitted(a, e) ==
    /\ e.phone # Null
    /\ \A c \in UniqueColumns : Having(c, e[c]) \subseteq {a}

Overlay(under, over) ==
    [c \in Columns |-> IF over[c] # Null THEN over[c] ELSE under[c]]

Column(i) == IF i \in GoogleIds THEN "googleId" ELSE "appleId"

\* The provider's id in a payload.
IdentityOf(p) == IF p.googleId # Null THEN p.googleId ELSE p.appleId

\* Handler q will write another id, or none, where row a has identity i.
Opposes(q, a, i) ==
    /\ handler[q].account = a
    /\ \/ handler[q].pc = "save" /\ handler[q].entity[Column(i)] # i
       \/ handler[q].pc = "preload" /\ handler[q].dto[Column(i)] \notin {Null, i}

\* Handler r has left entity e in row a.
Home(r, a, e) ==
    home' = [i \in Ids |->
        IF i = handler[r].identity /\ e[Column(i)] = i
        THEN IF \E q \in Handlers \ {r} : Opposes(q, a, i) THEN Null ELSE a
        ELSE home[i]]

\* The logins that have looked for their e-mail have not seen rows as.
Written(as) ==
    written' = [q \in Handlers |->
        IF handler'[q].op = "oauth" /\ handler'[q].pc = "insert"
        THEN written[q] \cup as ELSE {}]

\* INSERT or UPDATE, if the table permits it: a refusal ends the handler with
\* an error.
WriteRow(r, a, e) ==
    /\ handler' = [handler EXCEPT ![r] = AtRest]
    /\ IF Permitted(a, e)
       THEN /\ row' = [row EXCEPT ![a] = e]
            /\ alive' = alive \cup {a}
            /\ Home(r, a, e)
            /\ Written({a})
       ELSE /\ Written({})
            /\ UNCHANGED <<row, alive, home>>

Continue(r, q) ==
    /\ handler' = [handler EXCEPT ![r] = q]
    /\ UNCHANGED <<row, alive, home, written>>

BeginHandler(r, q) == handler[r].pc = "idle" /\ Continue(r, q)

-----------------------------------------------------------------------------
(* handleOAuthLogin. *)

\* The account was found: link the provider unless it has an id already.
Link(a, p) ==
    [Nothing EXCEPT
        !.googleId = IF row[a].googleId = Null THEN p.googleId ELSE Null,
        !.appleId  = IF row[a].appleId = Null THEN p.appleId ELSE Null]

FoundUser(a, p) ==
    [op |-> "oauth", pc |-> "preload", account |-> a, dto |-> Link(a, p),
     entity |-> Null, identity |-> IdentityOf(p)]

NoUserFound(pc, p) ==
    [op |-> "oauth", pc |-> pc, account |-> Null, dto |-> p,
     entity |-> Null, identity |-> IdentityOf(p)]

\* findByGoogleId or findByAppleId.
HandleOAuthLogin(r, p) ==
    LET found == Having("googleId", p.googleId) \cup Having("appleId", p.appleId)
    IN  \/ \E a \in found : BeginHandler(r, FoundUser(a, p))
        \/ /\ found = {}
           /\ BeginHandler(r, NoUserFound(
                    IF p.email = Null THEN "insert" ELSE "findByEmail", p))

\* Mutant: the e-mail is not looked up.
SkipEmail(r) ==
    /\ handler[r].pc = "findByEmail"
    /\ Continue(r, NoUserFound("insert", handler[r].dto))

\* No index makes the e-mail unique: any of its accounts may be found.
FindByEmail(r) ==
    LET p == handler[r].dto
    IN  /\ handler[r].pc = "findByEmail"
        /\ \/ \E a \in Having("email", p.email) : Continue(r, FoundUser(a, p))
           \/ Having("email", p.email) = {} /\ Continue(r, NoUserFound("insert", p))

-----------------------------------------------------------------------------
(* The other handlers of users: their first read and what follows from it. *)

\* UserService.create asks for the phone first ...
Create(r, d) ==
    /\ Having("phone", d.phone) = {}
    /\ BeginHandler(r, [AtRest EXCEPT !.op = "create", !.pc = "insert", !.dto = d])

\* ... and userRegisterPasswordSetup whether the phone's row logs in, for
\* which it loads no password.
Register(r, d) ==
    /\ \A a \in Having("phone", d.phone) : row[a].googleId = Null /\ row[a].appleId = Null
    /\ BeginHandler(r, [AtRest EXCEPT !.op = "create", !.pc = "insert",
                                      !.dto = [Nothing EXCEPT !.phone = d.phone]])

\* UserService.update looks for another account of a new phone,
\* UserAuthService.updateProfile does not.
Update(r, a, d) ==
    /\ a \in alive
    /\ \E pc \in {"checkPhone", "preload"} :
         /\ pc = "checkPhone" => d.phone \notin {Null, row[a].phone}
         /\ BeginHandler(r, [AtRest EXCEPT !.op = "update", !.pc = pc,
                                           !.account = a, !.dto = d])

CheckPhone(r) ==
    /\ handler[r].pc = "checkPhone"
    /\ Continue(r, IF Having("phone", handler[r].dto.phone) = {}
                   THEN [handler[r] EXCEPT !.pc = "preload"] ELSE AtRest)

\* The handlers that load the entity and save it with another change: the
\* password login and the password changes.
Rewrite(r, a) ==
    /\ a \in alive
    /\ BeginHandler(r, [AtRest EXCEPT !.op = "update", !.pc = "save",
                                      !.account = a, !.entity = row[a]])

\* UserService.remove and deleteProfile.
Remove(r, a) ==
    /\ a \in alive
    /\ BeginHandler(r, [AtRest EXCEPT !.op = "remove", !.pc = "softRemove",
                                      !.account = a])

-----------------------------------------------------------------------------
(* The writes. *)

InsertUser(r, a) ==
    /\ handler[r].pc = "insert"
    /\ row[a] = Null
    /\ WriteRow(r, a, handler[r].dto)

\* Mutant: create(dto) instead of preload.
PreloadCreated(r) ==
    LET a == handler[r].account
    IN  /\ handler[r].pc = "preload"
        /\ Continue(r, IF a \in alive
                       THEN [handler[r] EXCEPT
                                !.pc = "save",
                                !.entity = [handler[r].dto EXCEPT !.phone = row[a].phone]]
                       ELSE AtRest)

\* A row deleted meanwhile is a 404, or an OAuth login that goes on without
\* linking.
Preload(r) ==
    LET a == handler[r].account
    IN  /\ handler[r].pc = "preload"
        /\ Continue(r, IF a \in alive
                       THEN [handler[r] EXCEPT
                                !.pc = "save",
                                !.entity = Overlay(row[a], handler[r].dto)]
                       ELSE AtRest)

\* save writes to the row that has the entity's id, alive or not: a user
\* removed meanwhile is back, if the indexes permit it.
Save(r) ==
    /\ handler[r].pc = "save"
    /\ WriteRow(r, handler[r].account, handler[r].entity)

SoftRemove(r) ==
    LET a == handler[r].account
    IN  /\ handler[r].pc = "softRemove"
        /\ handler' = [handler EXCEPT ![r] = AtRest]
        /\ alive' = alive \ {a}
        /\ home' = [i \in Ids |-> IF home[i] = a THEN Null ELSE home[i]]
        /\ UNCHANGED <<row, written>>

-----------------------------------------------------------------------------
UserCall(r) ==
    \/ \E p \in Payloads : HandleOAuthLogin(r, p)
    \/ \E d \in NewUsers : Create(r, d) \/ Register(r, d)
    \/ \E a \in Accounts :
        \/ \E d \in Changes : Update(r, a, d)
        \/ Rewrite(r, a)
        \/ Remove(r, a)

UserStep(r) ==
    \/ FindByEmail(r)
    \/ CheckPhone(r)
    \/ \E a \in Accounts : InsertUser(r, a)
    \/ Preload(r)
    \/ Save(r)
    \/ SoftRemove(r)

IdentityNext == \E r \in Handlers : UserCall(r) \/ UserStep(r)

IdentitySpec == IdentityInit /\ [][IdentityNext]_identityVars

-----------------------------------------------------------------------------
(* Properties. *)

\* An identity that a login linked is found in that account and in no other,
\* whatever handlers write the row back, link another provider, or insert
\* rows meanwhile, until the account is removed; a login that overlapped a
\* handler about to overwrite its link is excepted (handleOAuthLogin's two
\* lookups, its link and its insert, and the partial unique indexes).
LinkedIsFound ==
    \A i \in Ids : home[i] # Null => Having(Column(i), i) = {home[i]}

\* A login is about to create an account although another has its e-mail
\* only if that row was written after the login had looked (handleOAuthLogin).
EmailWasFree ==
    \A r \in Handlers :
        handler[r].op = "oauth" /\ handler[r].pc = "insert"
            => Having("email", handler[r].dto.email) \subseteq written[r]

\* Every write of users is to whoever knows an account by its phone one that
\* appears, goes, or becomes another one, none of them over a phone in use:
\* what Registration takes the rest of the application to do, removed rows that
\* a stale save brings back and late links and unlinks included.
LoginKind(e) == IF e.googleId = Null /\ e.appleId = Null THEN "sms" ELSE "oauth"

PhoneUser == [p \in PhoneNumbers |->
    LET found == Having("phone", p)
    IN  IF found = {} THEN "none"
        ELSE IF \E a \in found : LoginKind(row[a]) = "oauth" THEN "oauth"
        ELSE "sms"]

Book == INSTANCE PhoneBook WITH Phones <- PhoneNumbers, user <- PhoneUser

WritesFollowPhoneBook == Book!Spec

=============================================================================
