# nest-forge: TLA+ models and proofs

nest-forge is a NestJS application: a REST API over PostgreSQL (TypeORM), with
Redis as a cache and as BullMQ's store, S3 for images and an SMS provider. The
state the modules below describe lives in the database and in handlers that are
suspended at an `await`. Apart from `RoleService.create` and `RoleService.update`
no handler opens a transaction, so two requests interleave between any two SQL
statements, and TypeORM's `save(entity)` writes every loaded column that differs
from the row of that moment, whether the handler meant to change it or not; a relation that was loaded is written
back with its entity. The
repository has no unit tests of the services, one health e2e test only.

Paths below are relative to the repository root.

## The system and its parts

| Part | State | Operations | What is hard | What makes it correct |
|---|---|---|---|---|
| Sessions (`src/modules/auth/services/token.service.ts`, `user-auth`, `admin-auth`) | `refresh_tokens` | login, OAuth login, refresh, logout, revoke all, nightly cleanup | revoke and issue are two statements, entities saved after a row or its owner was deleted, relations written back | an ended token stays ended; two sessions only when logins overlap; nobody is signed out by another account, none stays signed in after a deletion |
| Account writes (`user.service`, `admin.service`, `password-reset.service`) | `users`, `admins` | update, profile update, ban, password change, reset, soft delete | stale columns written back by `save` | a decision nobody overlapped stays |
| One-time codes (`otp.service`) | `otp_records` | create, verify, verify through the SMS provider, nightly cleanup | read-decide-save without a lock, the provider call in between, an upsert after a delete | no guess is lost, one answer per record, closed records leave the table |
| Roles (`role.service`, `role-deletion.service`) | `roles`, `role_permissions`, `admins.role_id` | create, update in a transaction, delete guarded by a count | count and delete are apart, READ COMMITTED replacement of a set | no active admin holds a deleted role; a replacement leaves the set asked for |
| Registration (`registration-session.service`, `user-auth.service`) | a cached session per phone, `users` | request code, verify code, set password | read-then-write of the session, time to live, the account check reads stale | only a verified phone gets an account, one account per phone |
| OAuth identities (`user-auth.service`, `user.service`) | phone, e-mail and provider ids of `users` | find by id, find by e-mail, create, link | two lookups and a write in three awaits, e-mails not unique, whole rows written back | a linked identity stays with its account; no second account for an e-mail that was seen taken |
| Log queue (`modules/log`) | BullMQ jobs, `activity_logs`, `audit_logs` | enqueue, process, retention | enqueue failures are swallowed, delivery at least once | a delivered job is logged |
| SMTP settings and mail (`setting.service`, `email.service`, `infrastructure/notification`) | eight `settings` rows, a five-minute cache, mail jobs | save, read, send | rows written one by one, cache never invalidated | a mail goes out with one version of the settings |
| Profile images (`file-upload.service`, `s3-client.service`, the account handlers) | S3 objects, `profile_image_key` | upload, replace, remove | object and row change in separate steps, S3 errors are swallowed, a body may hold any key | a row never names a deleted object and no object stays behind but by a failure, an overlap or such a body |
| Guards (`auth/guards`, `role/guards`) | none | decide on a request | rows read after the JWT was signed | the decision follows the row |
| Seeders and CLI (`modules/*/seeders`, `src/seeders`, `cli/commands/seed.ts`) | all tables | seed, clear, reset | rows written one by one, stopped half-way, run again, next to each other and the application | a seeding that succeeded is complete, one that is alone succeeds |
| Migrations | the schema | | | unique indexes and foreign keys, as guards of the writes |
| HTTP layer, configuration, health | none | | | not modelled |

How they meet: a login handler reads and saves an account, then revokes and
issues tokens. Password reset verifies a code, then saves an account and (in the
app zone) revokes its tokens. Every handler that changes something enqueues a log
job and ignores a failure to do so. Role deletion counts admins; admin creation
and update read roles. The mail worker reads the SMTP settings through a cache.
`PROJECT.json` lists for each hazard of this kind its line and the properties
that cover it.

## Modules

| Module | What it is |
|---|---|
| `Sessions` | accounts, refresh tokens and every handler that writes either |
| `TokenTexts` | `Sessions` with the signed texts that the rows hold hashes of, and the clock; extends `Sessions` |
| `MCSessions` | instance of `Sessions` and `TokenTexts` for TLC |
| `SessionsProofs` | theorems about `Sessions` and `TokenTexts` |
| `Otp` | one-time codes and the password-reset handlers that send and verify them |
| `OneTimeCodes` | abstract: what a one-time code promises; `Otp` implements it |
| `MCOtp` | instance of `Otp` for TLC |
| `OtpProofs` | theorems about `Otp`, the refinement of `OneTimeCodes` among them |
| `Roles` | roles, their permissions, the transactions of `RoleService`, role deletion and the admin writes of `role_id` |
| `RoleGrants` | abstract: a replacement of a role's permissions is one step |
| `MCRoles` | instance of `Roles` for TLC |
| `RolesProofs` | theorems about `Roles`, the refinement of `RoleGrants` among them |
| `Registration` | registration by phone: the cached session, the SMS provider, the account |
| `PhoneBook` | table `users` as a registration depends on it; `Registration` takes its steps, `Identities` implements it |
| `MCRegistration` | instance of `Registration` for TLC |
| `RegistrationProofs` | theorems about `Registration` |
| `Identities` | OAuth logins finding, creating and linking users, among the other handlers of `users` |
| `MCIdentities` | instance of `Identities` for TLC |
| `IdentitiesProofs` | theorems about `Identities` |
| `JobQueue` | external: what the code relies on of a BullMQ queue |
| `Logs` | the log queue, its worker and the retention; an instance of `JobQueue` |
| `Mail` | the SMTP settings, their cache and the mail queue, a second instance; extends `Logs` |
| `MCMail` | instance of `Mail` for TLC |
| `MailProofs` | theorems about `Mail` and `Logs` |
| `ProfileImages` | S3 objects against the column that names them |
| `MCProfileImages` | instance of `ProfileImages` for TLC |
| `ProfileImagesProofs` | theorems about `ProfileImages` |
| `Seed` | `db seed`, `db clear` and `db reset`, next to the application |
| `MCSeed` | instance of `Seed` for TLC |
| `SeedProofs` | theorems about `Seed` |
| `MCAccounts` | `MCRegistration`, `MCSeed` and `MCIdentities` in one instance |

### Sessions

`account[s]` is the row of a user or admin, reduced to the three columns the
handlers decide on: `deleted`, `isBanned`, `password`. `refreshToken[t]` is a
token row; its age is `fresh`, `week` (the cron's cutoff) or `expired`
(`expiresAt`). `request[r]` is a handler: which kind it is, the `await` it is at,
and the entity, DTO or token it carries across. A handler starts with its first
read and the checks on it, then takes one action per statement:

    login     UserLogin / HandleOAuthLogin / AdminLogin
              (PreloadEntity) SaveEntity -> RevokeAll... -> GenerateRefreshToken
    password  ChangePassword, UserResetPassword: SaveEntity -> RevokeAll...
    update    Update, UpdateProfile, AppUpdate, ResetPassword: (PreloadEntity) SaveEntity
    delete    DeleteProfile: RevokeAllUserTokens -> SoftDeleteEntity
    remove    Remove: SoftDeleteEntity
    logout    SaveRevoked -> RevokeAllUserTokens
    refresh   RefreshExpired -> SaveRevoked

`Overlay` is TypeORM: `preload` puts a DTO over a fresh row, `save` puts a loaded
entity over the row of that moment. A column that was not loaded (`password` is
`select: false`) is `None` and is not written.

Relations are written back too, in two places. `refreshAccessToken` loads a token with `user` and
`admin`, which are null when the owner is soft-deleted; the save of an expired token then writes null
over `user_id` or `admin_id` (`joined`, `SavedOwner`). A save writes what differs from the row of that
moment, so the column itself, loaded before somebody else detached the row, comes back with it.
`deleteProfile` loads the user with its `refreshTokens` (`collection`) and `softRemove` makes those the
user's tokens: one issued meanwhile loses its owner (`SyncedOwner`). `remove` loads no relation. A
token without owner is refused by `refreshAccessToken`, and no revocation finds it.

Five history variables record what happened for the properties: `ended`, the
tokens something ended; `predecessors[t]`, the tokens the account had when the login
that issued `t` revoked; `issuedTo[t]`, the account of that login; `removed`, the accounts that were
soft-deleted at some time; `settled[s][c]`, the last decision on a column that was made
while no other handler held that column.

`TokensKeepOwners` says that a token is its login's account's, or nobody's once that account was
removed. `DeletedAreSignedOut` says that no token of a removed account is refreshed, those included that
a login in flight issues after the removal; it is about settled removals, since a handler that loaded
the account before may bring it back with a save. `SessionsEndForAReason` bounds what ends a session:
its age, a handler of its account, or one that was sent the token. A session that is ended is gone for
whoever held its row: an overlapping login may revoke it and the cron purge the row before a logout or an
expired refresh saves it, and that save then fails.

In `Sessions` a presented token is a row. The signed text holds the owner's id and times in
seconds, so two logins of an account within a second give out one text, in two rows with one
hash, and a lookup finds either. `TokenTexts` adds to each row its text (`tokenText[t]`,
the owner and the second of the clock `now` in which `GenerateRefreshToken`'s handler signed it) and
to each handler the text it is about to save or was sent (`carried[r]`). Every step of it is a step of
`Sessions` or of the clock. `LoggedOutIsDead` says that a text its owner logged out with is dead in
all its rows. For a user that rests on `logout` revoking all of his rows after the one it found. It
passes an admin's id to `revokeAllUserTokens`
(`src/modules/auth/services/user-auth.service.ts:482`), which matches no row, so an admin who logged in
twice within a second may keep a live row. Nor does it match a row that a deletion has detached from
its user, who may be back by a stale save. The property says just that.

### Otp

`otpRecord[o]` is a row of `otp_records`, numbered by `createdAt`; its age is `fresh`,
`expired` (ten minutes) or `week` (the cron's cutoff). A verification reads the
newest pending record, decides, and carries the record it will save in
`request[r]`; for a user the provider is asked in between (`VerifyFn`, which may
accept, reject, fail or time out). `Save` is an upsert, as `repository.save` is: a row
the cron deleted comes back. Whether a guess is right is part of the input, so the
code itself is not modelled.

`contended` marks a record that two handlers held at once; `guesses` and `answered`
count, for the others, the codes compared and the verifications that succeeded.

`OneTimeCodes` is what whoever gets a code relies on: it is compared in time, as the newest
open code of its owner and a limited number of times, closes once and for good, and is
deleted only when it was refused and is late. `CodesAreOneTime` maps a record to a code by its
status. An older code that is still open is the newest again when the later one closes, which
the code allows and `OneTimeCodes` too; of a contended record it promises nothing
(`Drift`), as `otp_single_use` shows that it must.

### Roles and RoleGrants

`role[x]` is unused, alive or (soft-)deleted; `permissions[x]` are the committed rows of
`role_permissions`; `admin[a]` is the row's state and `role_id`. `request[r]` is a
handler with what it carries:

    create   CreateRole -> AssignPermissions -> InsertPermissions -> ReadRole -> Commit
    update   UpdateRole -> LockRow -> ClearPermissions -> PermissionsCleared
                        -> AssignPermissions -> InsertPermissions -> ReadRole -> Commit
    delete   DeleteRole (count) -> FindRole -> SoftDelete
    admins   CreateAdmin -> InsertAdmin;   RemoveAdmin -> SoftRemove
             UpdateAdmin -> CheckRole -> PreloadAdmin -> SaveAdmin;  SavePassword -> SaveAdmin

An update that changes a name, description or rank issues `UPDATE roles` first and so
holds the row (`locked`); one that has only `permissionIds` does not. PostgreSQL is
modelled as it behaves at READ COMMITTED, TypeORM's default: `cleared` is what the
DELETE found committed, it ends when no open transaction holds one of those rows
(`Wrote`), and a transaction that deleted one of them and commits takes it out of the
waiting DELETE's set; `inserted` is what `save` did not find; a row committed by
somebody else since then is a duplicate key, and the transaction rolls back. `Fail`
is every other error: a transaction rolls back, another handler just stops.

`RoleGrants` is what the sender of a replacement expects: one step that sets the
permissions to what was sent, or nothing. `Roles` implements it with
`wanted` taken from the open transactions and `exact` the roles that are not `blurred`:
once two replacements of a role were open together without both holding its row, the
last one may leave a part of what it found and of what was sent.

`ReadRole` is the read at the end of the transaction. It finds no role (`seen`) when somebody
deleted it meanwhile; the transaction still commits, and `update` answers 404 and asks for no
audit entry.

Four history variables, updated in every step: `contested` collects the roles that one handler
was about to assign, or to save with an admin, while another was between counting its admins
and deleting it; `blurred` is described above; `overtaken` collects the roles deleted during an
update that did not hold their row, and `unaudited` those of which an update committed without
asking for its entry. A deletion waits for an update that holds the row, so only an overtaken
role can be unaudited.

### Registration

`user[p]` says how the active row of phone `p` logs in (the unique index allows one);
`session[p]` is the cached `RegistrationSession`; `sent` and `accepted` are what the
provider knows of its codes. The three requests of a client:

    request code   RegisterOtpRequest -> SendOtp -> CreateSession
    verify code    RegisterOtpVerify -> GetSession -> VerifyOtp -> MarkVerified -> WriteVerified
    set password   RegisterPasswordSetup -> GetVerifiedSession -> CreateEntity -> DeleteSession

`markVerified` is two actions, since it reads the session and writes it back. `Expire`
is the time to live, at any moment; a provider that refuses or fails is `Fail`.

`PhoneBook` is the table `users` as a registration depends on it. The other writers of
`users` take its steps (`WriteUser`): an account appears on a free phone (`AddUser`), goes
(`RemoveUser`), or moves to a free phone, gains a provider or loses it, or all at once
(`ChangeUser`). That they do no more is not assumed: `Identities`, where these handlers are
modelled await by await, implements `PhoneBook` (`WritesFollowPhoneBook`).

`registered` collects the codes whose session became an account. `disturbed` collects the
phones on which a verification met another one, a redemption or a new session, a
redemption met another, or a handler stopped between the account and the deletion of the
session.

### Identities

`row[a]` has the four columns by which a user is found: `phone`, `email`, `googleId`,
`appleId`; `alive` is the set of rows whose `deleted_at` is null. `handleOAuthLogin` is five
actions: `HandleOAuthLogin` looks for the provider's id, `FindByEmail` for the e-mail,
`InsertUser` creates the account, or `Preload` and `Save` link it. `Create`, `Register`, `Update`
with `CheckPhone`, `Rewrite` (password login and changes) and `Remove` are the other handlers
that insert, rewrite or delete rows. `Save` writes the entity as it was loaded, nulls
included, and makes the row alive; it and `InsertUser` do what `Permitted`, the partial unique
indexes and NOT NULL, lets them do. So a handler that loaded a user before it was removed brings
it back, or fails if an active row has taken its phone, although
`docs/adr/0007-partial-unique-indexes-for-soft-delete.md:43` knows of no restore path. `Link` is
decided on the row that was found and `Preload` reads it again, as in the code.

`LinkedIsFound`: `home[i]` remembers the account in which the last login of identity `i` left
its link, unless another handler was about to overwrite it (`Opposes`); as long as that account is
not removed, the provider's id is found in it and in no other. `EmailWasFree`: a login
about to insert saw no account of its e-mail; `written` remembers the rows written since.
`WritesFollowPhoneBook`: `PhoneUser`, what the rows that are alive say of each phone, behaves as
`PhoneBook`, which is what lets `Registration` be checked and proved without these handlers.

### JobQueue, Logs and Mail

`JobQueue` is the library: a job is waiting, active under the lock of a worker, delayed,
completed or failed. A failed attempt is retried until the attempts are used up, a lock
that expires puts the job back once, and an answer without the lock changes nothing.
`Logs` and `Mail` each take one step per action of it.

In `Logs` a job is named by the entry it carries. The worker goes

    TakeLog -> Process (INSERT) -> EndLog (acknowledge or retry)

and an INSERT whose connection breaks may have happened or not. The entries in
`UnknownUsers` are failed logins of a phone nobody has: they carry the user id
'unknown', which the column refuses. `unsure` collects the jobs that stalled or lost an
answer. `WorkIsBounded` holds of them too: a stall gives a job one more run, and only
one, so a row or a mail is repeated once per attempt and once more at most. Every fault, whether it hits a statement, a call, a process or a lock, is counted
by `faults`.

`Mail` writes the eight rows of the settings as `createSMTPSettings` and `SettingSeeder` do,
one find and one save each, and sends mails with them:

    save    CreateSMTPSettings -> (FindSetting -> SaveSetting)* -> ReadResult
    seeder  Seed -> (FindSetting -> SaveSetting)*
    mail    TakeMail -> GetSMTPSettings (-> SelectSettings -> FillCache), twice
                     -> SendMail -> EndMail

A row holds the version that wrote it. `Crash` kills the workers of a process and
empties its cache, `Tick` ages cache, readings and settings up to the time to live. `alone`
are the writers that overlapped no other, `before[s]` what request `s` found, `settled` the
version an undisturbed writer left and for how long. The mock mode (`EMAIL_MOCK_ENABLED`)
sends nothing and is left out; `invalidateSmtpCache` has no caller.

### ProfileImages

`row[a]` is an account row of either table with its `profile_image_key`, `object[k]` the S3
object with key `k`; a key is fresh because it has a UUID. The handlers:

    create   Create -> Upload or ResolveText -> Save
    update   Update -> Upload or ResolveText -> Preload -> Save -> Replace
    remove   Remove -> RemoveObject -> SoftRemove
    rewrite  Rewrite -> Save    (a login or another handler that saves the whole row)

`S3ClientService` catches every error, so a call has either worked, failed, or worked and
looks failed; its answer to a deletion is not read. `Fail` ends a handler at any await.
`profileImageUrl` of a body is stored as it came, since the DTOs check with `@IsString` only, although
`docs/security-standards.md:49` says that keys are stored and presigned URLs never (`Texts`): empty, a text that is no key (`Url`), or
the key of an object of any account, stored or gone. The next change of a row deletes the object it
named, whomever it was uploaded for (`DeleteObject`). History: `pasted` are the keys that a body put
where the row had another value, on which `NamedObjectsAreStored` and `ObjectsAreNotShared` promise nothing;
`contested` accounts had two handlers at once, one of them an image handler;
`halfRemoved` accounts lost their object but not their row; `dropped` are objects a failed
call or handler of their account left. A `db clear` empties the tables and leaves every object in S3; the two
are not composed.

### Seed

`entry[i]` says for each row the seeders write (modules, permissions, the role, its
permissions, the admin, the user, the settings) whether it is absent, there with other values,
or as seeded. A command `p` runs one child or, for a reset, two:

    seed   (Find -> Write)* -> EndSeed         one row after the other
    clear  Truncate* -> EndClear               one table after the other
    reset  clear, then seed

`Find` reads by the natural key of the row; `Write` is TypeORM's save with the ids the
process holds, refused by the unique indexes and foreign keys. `lost` are the rows a
process has dealt with that a clearing took away since: the process still holds their ids.
`Stop` is every failure with a status, `Kill` a child that a signal ends: its
status is null and `status ?? 0` makes it a success. The application changes values, removes
rows, takes the phone of the seeded user and adds rows of its own (`Edit`). `touched` are the
commands since whose start the tables were changed by the application or by another
command's clearing, `raced` those that overlapped another command.

`configured` says whether the process finds the `seed.*` values. `SeederModule` does
not load the factory that provides them, so it takes environment variables with those very
names; the properties are checked and proved for both cases.

Left out: that an administrator renames or deletes the role 'Super Admin', the columns of the
rows, and the confirmation of `--prod` (which `db seed --prod` does not ask for, although
`docs/database-standards.md:345` says that seed commands do).

## Runs

| Run | Shows | Instance |
|---|---|---|
| `sessions` | `TypeOK`, `EndedStaysEnded`, `SessionsOverlap`, `SettledWritesHold`, `LoggedOutIsDead`, `TokensKeepOwners`, `DeletedAreSignedOut`, `SessionsEndForAReason` hold | one user, one admin, two handlers, two tokens, two hashes; two seconds |
| `sessions_app_update` | violated: a PATCH of `/api/v1/app/me` writes back `isBanned` | one user, two handlers |
| `otp` | `TypeOK`, `GuessesCounted`, `AnsweredOnce` hold, `CodesAreOneTime`: `Otp` implements `OneTimeCodes`, and `ExpiredIsDeleted` under fairness | one user, one admin, two handlers, two records, two attempts |
| `otp_single_use` | violated: a stale save makes a verified record pending again | one user, two handlers, one record |
| `roles` | `TypeOK`, `UncontestedRolesAlive`, `UnauditedWereOvertaken` hold; `ReplacementsAreExact`: `Roles` implements `RoleGrants` | two roles, one admin, two handlers; or one role, two permissions and two handlers, three if they only replace permissions |
| `roles_deletion` | violated: an active admin holds a deleted role | as `roles` |
| `registration_seed` | `TypeOK`, `PhoneProven`, `CodeProven`, `OneAccountPerCode` hold of the registration, `SeedTypeOK`, `CompletedIsComplete`, `ResetIsExact`, `LoneSeederSucceeds` of the seeders, `IdentityTypeOK`, `LinkedIsFound`, `EmailWasFree` of the identities, and `WritesFollowPhoneBook`: `Identities` implements `PhoneBook` | two phones, two codes, two handlers; two commands, two starts, one edit, a row of each table; two accounts, two phones, one e-mail, two Google ids, an Apple id, two handlers |
| `registration_guard` | violated: a registration starts for a registered phone | one phone, one code, one handler |
| `mail` | `TypeOK`, `AcknowledgedIsDone`, `OnceUnlessUnsure`, `WorkIsBounded`, `AuditTellsTheChange`, `MailsFollowSettings` hold, and `AcceptedJobsEnd` under fairness | two saves, one seeder, two rows, one login failure, one mail, two processes, two attempts, three faults |
| `mail_failed_login` | violated: the entry of a failed login of an unknown phone is dropped | one login failure |
| `images` | `TypeOK`, `NamedObjectsAreStored`, `NoOrphans`, `ObjectsAreNotShared` hold | two accounts, two objects, two handlers |
| `seed_everything` | violated: a seeding alone on an empty database fails | a module with a child, one command |

Bounds. Two handlers are the smallest number that interleave, and every hazard
listed is one of two actors; a third adds no new pair of statements. Two tokens let a
login revoke a predecessor and two logins overlap; the number of tokens bounds the
logins (`LoginBudget`). Two hashes tell an old password from a new one. `MCInit`
keeps one account alive at a time, since no statement touches two accounts and a
deleted one comes back by a stale save. `OneDecision` lets a DTO decide on one
column. A behaviour of `sessions` takes the steps of `Sessions` with one token issued at most
(`OneToken`), or those of `TokenTexts` with both tokens and every handler but the updates (`part`, `NoUpdate`), which
touch no token: a column held or settled meets tokens by the deletion of its account only, and that is in both
parts. Two tokens are two rows of a text, and two seconds
(`TwoSeconds`) let a row of a past one grow old. Two records give a newer code to reorder with an older one, and two attempts
(three in the code) are a first guess and a last one; `otp_single_use` has three.

`roles` runs in two slices (`MCRoles!Slices`, a state constraint). In the first the second
role is one an admin can be moved to or from. In the second three replacements let a
DELETE wait for one transaction while another one commits; two of any kind, with two
permissions, tell a part of a set from the whole; a deletion or a creation meets one other
transaction there, since a deletion waits for those that hold the row and overtakes the others
one by one, and a new role's rows are nobody else's. The theorems hold for any number of handlers of any
kind.

In `registration_seed` a second phone is one whose code could be
presented for the first, and a second code is one that replaces a session. `Registration`,
`Seed` and `Identities` share a run because none of them needs the others' steps: a behaviour
takes those of one of them, which `part` says from the start, and what `Identities` is to
`Registration` is in the latter's `WriteUser`. Two commands
overlap or follow each other, which is what a repeated seeding needs; one edit lies between
any two steps of them. One module, one action and one setting give each seeder one row; that
a module comes after its parent needs `seed_everything`'s two.

In its identities part two people share an e-mail, so that two Google ids compete for one
link, and an Apple id is a second link of one row. The payloads, the new users and the changes
are few: an Apple login without e-mail or phone, as Apple gives them once, a new user with the
other phone, a change of e-mail and phone together. Two accounts are enough for a deleted row
and the row that took its phone. `Accounts` has the names of `Phones`, and `Handlers` and
`Requests` those of `Commands`, so that one symmetry serves the parts.

`mail` runs in four slices (`MCMail!Slices`): log entries run by two processes, one of
them from a save; two writers and what they enqueue; the mails of one process with a save or a
seeder; and the entry of a save that is over. Writers and mails meet through the settings only, and log entries and mails through
nothing. Two rows are the last one, `smtp_enabled`, and one before it, which is
kept out of the audit; two attempts give a retry and a last failure; two faults are a stall and a
lost answer of one job, and a third one, in the last slice only, would let it stall again; a time to live of two ticks, a cache in the middle of its life.

In `images` two accounts could share an object, and two objects are an old one and a new one.
Objects that are gone are not uploaded again, so two of them bound an account to one
replacement. Bodies name no keys beside accounts whose handlers overlapped on one row
(`NamedOrContested`, a state constraint); handlers of different accounts overlap all the same, and the
theorems know no such bound.

`images` and `registration_seed` count states as one that differ only in what no action and no property
reads (`MCView`, TLC's VIEW): the columns of a removed user, the request an entity about to be saved was
made from, the uploader of a removed object. The behaviours left are the same but for those values.

Ids of handlers, tokens, hashes, roles, permissions, phones, codes, accounts, objects and
commands are symmetric; no run that checks liveness uses symmetry. No run checks deadlock: an
instance with all tokens, records, objects or starts used up has nothing left to do.

Fairness. `otp` assumes weak fairness of the clock, of the nightly cron (`@Cron`), and of the
continuation of a handler whose await ended, which the runtime schedules. `mail` assumes it of
each worker, of the end of a backoff, and of the stalled-job check for a job whose
worker died, all of which BullMQ schedules; faults are bounded and never have to happen. No
fairness is assumed of a caller or of an administrator.

## Disagreements between documents and code

`UpdateUserProfileDto` says (`src/modules/user/dto/update-user-profile.dto.ts:7-8`)
that a user can never change account-control state through `/api/v1/app/me`. The DTO
has no such column, but `UserService.update` preloads and saves the whole row, so a
ban set in between is lifted (`sessions_app_update`).

`docs/security-standards.md:94-95` says that OTP flows enforce single-use transitions.
A verification that fails saves the record as it read it and undoes the
transition of one that succeeded meanwhile (`otp_single_use`).

`RoleDeletionService` (`src/modules/admin/services/role-deletion.service.ts:31`) answers
'Cannot delete role that has admins assigned to it'. It counts the admins in one statement
and deletes the role in a later one; an admin created with the role in between holds a
deleted role, which the foreign key accepts (`roles_deletion`).

`CONTEXT.md:32` says that a registered user exists for the registration guards, which answer
'Phone number is already registered.' (`src/modules/auth/services/user-auth.service.ts:219`).
`isPhoneRegistered` looks for a password in a row that was loaded without one (`select: false`),
so it is true of OAuth accounts only; the insert at the end of the registration fails on
the unique index (`registration_guard`).

`docs/security-standards.md:108-109` says that login failures are logged. The entry of a login
with an unknown phone is enqueued with the user id 'unknown'
(`src/modules/auth/services/user-auth.service.ts:104`), which is no uuid: every attempt of
the job is refused and the entry is dropped (`mail_failed_login`).

`README.md:124` says that `npx forge db seed` seeds roles, admin, user and settings.
`SeederModule` (`src/seeders/seeder.module.ts:20`) loads no configuration factory, so
`getOrThrow('seed.superAdmin.email')` throws: the command writes the roles and exits with 1
(`seed_everything`).

## Theorems

The theorems hold for every set of users, admins, tokens, hashes, roles, permissions,
phones, e-mails, provider ids, codes, jobs, processes, faults, accounts, objects, commands and handlers, from the assumptions named in the modules: the id sets are
disjoint, `None` is none of their members, and bounds are naturals.

`SessionsProofs`: `TypeCorrect`, then the inductive invariants of the properties.
*Ended tokens*: every token in `ended` is stored and revoked, or purged; no action
clears `isRevoked` or reuses a token id, and a save that loaded the row only sets the
flag and the owner. *Sessions*: what a login revoked (`request[r].ended`) is in `ended`, and so is
`predecessors[t]`; two live tokens therefore cannot have been each other's
predecessors. *Settled decisions*: a handler that holds a column of a row holds the
settled value or its own decision; a save of it therefore changes a settled column only
by a decision, which settles it anew. The invariant must speak of every suspended
handler, since the property alone is broken by a handler that holds an older value.
*Owners*: `OwnersAreKept` goes through `OwnersInv`: the token, the relation and the collection a handler
holds are those of the account that logged in, and an owner that is missing is that of a removed
account; `SessionsEndByTheirOwn` and `DeletedForGood` follow from it and from settled deletions.
*Texts*: `TextsAreSessions` carries all of this over to `TokenTexts`; `LoggedOutForGood` adds
`TextInv`: a row holds a text of its owner, and a logout that has revoked the row it found carries
a text that one ended row has. What it then revokes is all of a user's rows, whatever their text.

`OtpProofs`: `TypeCorrect`, `EveryGuessCounts`, `OneAnswerPerRecord`, `CodesRefine`. For a record that
is not contended at most one handler holds it, and that handler's copy is one
guess ahead of the row; contention is permanent, so the induction never has to come
back from it. The refinement needs in addition why a handler saves what it saves
(`ReasonInv`): it has compared the code, or found it late or used up, which a later
step cannot undo. Time and a save are steps of `OneTimeCodes`, the provider's answer is a
stutter.

`RolesProofs`: `TypeCorrect`, with what each `await` is sure to hold (`Shaped`).
`DeletedRolesAreDeserted` goes through `DesertedInv`: a role that is deleted or about to
be, and not contested, is held by no active admin and by no handler that could write it
into one. `MissingEntriesWereOvertaken` goes through `AuditInv`: the role of an update is
alive, or overtaken, and what its last read did not find is overtaken. `ReplacementsRefine` goes through `GrantInv`: what a replacement of a role that
is not blurred has deleted is all there was (`Known`, `Faithful`), nobody else can be
inserting (`Rival`), and so its commit leaves exactly what was sent. A step of `Roles`
that is not a call, a commit or an end of a handler is a stutter of `RoleGrants`.

`RegistrationProofs`: `TypeCorrect`. `OnlyProvenPhones` holds of every phone: `PhoneInv` says
that a session, and the copy of one in a handler, belongs to the phone its code was sent
to, and that no handler gets past the provider before a code of its phone was confirmed.
`TheCodeIsProven` and `CodesAreSpent` hold of undisturbed phones, through `FreshInv` (a
code just sent is nowhere else) and `CodeInv`: such a phone has one handler at most that
verifies or redeems, that handler's code is the session's, and a session whose code
became an account has a handler that is about to delete it.

`IdentitiesProofs`: `TypeCorrect`; `LinksAreFound` and `EmailsWereFree` share one invariant: rows
that are alive share no unique value (`Unique`), an identity's home has its link
(`HomesHold`), whoever has that account loaded or decided will leave the link there (`Harmless`),
and a login about to insert has looked for its e-mail (`Looked`). `Harmless` is needed because
the link survives a save only if the saved entity has it. `PhoneBookRefined` needs `Unique` of the
phones alone: each phone has one row at most that is alive (`Listed`), so that the write of a row
that is not is `AddUser`, that of one that is `ChangeUser`, and a refused write a stutter.

`MailProofs`, about `Logs` and `Mail` together: `TypeCorrect`. `AcknowledgedJobsAreDone` and
`JobsAreDoneOnce` share `Delivery`: a worker that is about to acknowledge has done the job;
a job that is not in `unsure` has one worker at most, which holds its lock, and is done only
if completed or about to be. `JobsRunBounded` counts: what a job has done and the
workers that have yet to do it are no more than the runs the queue has given out for it
(`BoundInv`), and a lock that is lost gives out one more. It assumes that the processes are
finitely many, so that they can be counted. `AuditIsTrue` needs `AloneInv`: while a writer that is alone runs,
no other runs and the rows before its key have its version; what a request took for the old
rows is what was there or, after a fault, nothing; a settled version is in every row.
`MailsFollow` needs `FollowInv`: a cache younger than the settled version, and a reading asked
for later than that version was left, hold its rows. The ages are compared all along and
not only at the time to live, since a cache may be filled from a reading that started before
the save ended.

`ProfileImagesProofs`: `TypeCorrect`. `KeysAreSharedByBodies` needs `Ownership`: an object in a row or in
a handler was uploaded for that account, or a body named its key. `NamedAreStored` and `NothingIsOrphaned` need
`SettledInv` of accounts that are not contested: two handlers of one account are rewrites, the
row holds what its handler read until that handler saved, what it is about to save is
stored, and what a removal was to delete is gone unless the call failed. `NothingIsOrphaned` asks of the object's own
account and not of any, which is what the induction needs once bodies may name any key.

`SeedProofs`: `SeedTypeCorrect`. `SuccessIsComplete` goes through `CompleteInv`: the rows a seeder has
dealt with are as seeded, as long as nobody touched the tables; another seeder may run, since
it leaves them so or fails. `ResetsAreExact` goes through `ExactInv`: the tables truncated so far
have no rows of others, and the catalogue lists them all. `LoneSeedersSucceed` goes
through `UndisturbedInv`: a seeder that is alone holds no dead id and inserts only
what is absent, and the admin's turn comes after the role's.

Liveness (`ExpiredIsDeleted`, `AcceptedJobsEnd`) is out of the prover's reach and stays with
TLC; so do the six disagreements, which are counterexamples.

## Not modelled

- Guards (`jwt-auth`, `subject`, `roles`, `permissions`, `resource-ownership`): each decides once, on
  rows read in one step before the handler, and changes nothing. A property of one of them
  would restate its condition.
- HTTP layer, configuration, health, start-up: no state that a handler decides on. A
  configuration that is not loaded shows in `Seed`.
- Migrations: declarations. The unique indexes and foreign keys are guards in the modules that
  rely on them.
- Read endpoints, columns nobody decides on, the texts of mails and messages, the mock modes.
- The commands of the CLI that touch no rows (builds, generators, migrations).
- `OtpService.markUsed`, `expireAll`, `validateLoginCode`, `findOneByStatus`,
  `S3ClientService.updateFile` and `EmailService.invalidateSmtpCache` have no caller.

## Plan

Done, with every safety property proved: `Sessions` with `TokenTexts`, `Otp`, `Roles` with `RoleGrants`,
`Registration`, `Identities`, `JobQueue` with `Logs` and `Mail`, `ProfileImages`, `Seed`. Left:

1. The composition of `Otp` and `Sessions` for a password reset.
2. `Seed` with an administrator who renames or deletes the role the seeders look for.
