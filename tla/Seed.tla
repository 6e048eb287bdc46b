-------------------------------- MODULE Seed --------------------------------
(***************************************************************************)
(* The commands forge db seed, db clear and db reset of nest-forge:        *)
(* RoleSeeder, AdminSeeder, UserSeeder, SettingSeeder and clear.ts.        *)
(*                                                                         *)
(* A seeder finds each of its rows by a natural key and inserts or updates *)
(* it, statement by statement and in no transaction, with the ids of the   *)
(* rows it found or wrote before.  It may stop anywhere, be run again, and *)
(* overlap other commands and the application.                             *)
(*                                                                         *)
(* Left out: the columns, but for whether a row has the values of the      *)
(* seeder; the order of the rows of one table, but for a module after its  *)
(* parent; the prompt of --prod.                                           *)
(***************************************************************************)
EXTENDS Naturals, Sequences

CONSTANTS
    Modules,   \* codes of PermissionModule
    ParentOf,  \* the tree of modulesToSeed: a module, or NoParent
    Actions,   \* ActionType
    Settings,  \* keys of smtpSettings
    AppTables, \* tables the application adds rows to
    Catalogue, \* the tables in the order information_schema lists them
    Commands,  \* processes of the command line
    MaxStarts, \* bound on the commands started
    MaxEdits,  \* bound on the writes of the application
    NoParent

ASSUME NoParentIsNoModule == NoParent \notin Modules
ASSUME TreeOfModules == ParentOf \in [Modules -> Modules \cup {NoParent}]
ASSUME BoundsAreNatural == MaxStarts \in Nat /\ MaxEdits \in Nat

-----------------------------------------------------------------------------
(* The rows of the seeders and the schema they are written to. *)

Row(table, key) == [table |-> table, key |-> key]

ModuleRows     == {Row("modules", <<m>>) : m \in Modules}
PermissionRows == {Row("permissions", <<m, a>>) : m \in Modules, a \in Actions}
RoleRow        == Row("roles", <<>>)
GrantRows      == {Row("role_permissions", <<m, a>>) : m \in Modules, a \in Actions}
AdminRow       == Row("admins", <<>>)
UserRow        == Row("users", <<>>)
SettingRows    == {Row("settings", <<k>>) : k \in Settings}

Rows == ModuleRows \cup PermissionRows \cup {RoleRow} \cup GrantRows
        \cup {AdminRow, UserRow} \cup SettingRows

\* Rows that are updated when they have other values.
Upserted == ModuleRows \cup {RoleRow} \cup SettingRows

\* "records": refresh_tokens, otp_records and the logs, taken as one table.  Clearing
\* the admins or the users thus empties the logs of both; the command clears all.
Tables == {"modules", "permissions", "roles", "role_permissions", "admins",
           "users", "settings", "records"}

ASSUME ApplicationTables == AppTables \subseteq Tables
ASSUME CatalogueListsTables ==
    Catalogue \in Seq(Tables) /\ \A t \in Tables : \E n \in DOMAIN Catalogue : Catalogue[n] = t

\* The rows whose ids row i holds.
Needs(i) ==
    CASE i.table = "modules"          -> {Row("modules", <<ParentOf[i.key[1]]>>)} \cap Rows
      [] i.table = "permissions"      -> {Row("modules", <<i.key[1]>>)}
      [] i.table = "role_permissions" -> {RoleRow, Row("permissions", i.key)}
      [] i.table = "admins"           -> {RoleRow}
      [] OTHER                        -> {}

\* The tables TRUNCATE t CASCADE empties.
Cascade(t) ==
    CASE t = "modules"     -> {"modules", "permissions", "role_permissions"}
      [] t = "permissions" -> {"permissions", "role_permissions"}
      [] t = "roles"       -> {"roles", "role_permissions", "admins", "records"}
      [] t \in {"admins", "users"} -> {t, "records"}
      [] OTHER             -> {t}

\* Mutant: the admin is seeded before its role.
OrderAdminFirst(table) ==
    CASE table = "admins" -> 1 [] table = "modules" -> 2 [] table = "permissions" -> 3
      [] table = "roles" -> 4 [] table = "role_permissions" -> 5 [] table = "users" -> 6
      [] table = "settings" -> 7

\* The order of runSeeders and of RoleSeeder.seed.
Order(table) ==
    CASE table = "modules" -> 1 [] table = "permissions" -> 2 [] table = "roles" -> 3
      [] table = "role_permissions" -> 4 [] table = "admins" -> 5 [] table = "users" -> 6
      [] table = "settings" -> 7

VARIABLES
    entry,       \* entry[i]: absent, there with other values, or as seeded
    other,       \* tables with rows that no seeder wrote
    phoneTaken,  \* a user with another email has the phone of the seeded user
    configured,  \* the seeders find the seed.* values in the configuration
    command,     \* command[p]: what process p runs, and how far it is
    starts, edits, \* counters, for the bounds
    \* History variables: no action of the code reads them.
    touched,     \* commands since whose start the application, or the clearing
                 \* of another command, changed the tables
    raced        \* commands that overlapped another one

seedVars == <<entry, other, phoneTaken, configured, command, starts, edits, touched, raced>>

Kinds  == {"none", "seed", "clear", "reset"}
Stages == {"idle", "clear", "find", "write", "done", "failed", "dead"}

\* cleared: how much of ToClear is truncated; done: rows dealt with, whose ids
\* the seeder holds; lost: those of them that were truncated since; item, found:
\* the row being written, and as it was found; killed: a child died of a signal.
Processes == [kind : Kinds, pc : Stages, cleared : 0 .. Len(Catalogue), done : SUBSET Rows,
              lost : SUBSET Rows, item : Rows, found : {"absent", "stale"},
              killed : BOOLEAN]

\* A process at pc that holds nothing.
Process(kind, pc, killed) ==
    [kind |-> kind, pc |-> pc, cleared |-> 0, done |-> {}, lost |-> {},
     item |-> RoleRow, found |-> "absent", killed |-> killed]

SeedTypeOK ==
    /\ entry \in [Rows -> {"absent", "stale", "seeded"}]
    /\ \A i \in Rows \ Upserted : entry[i] # "stale"
    /\ other \in SUBSET Tables
    /\ phoneTaken \in BOOLEAN /\ configured \in BOOLEAN
    /\ command \in [Commands -> Processes]
    /\ starts \in 0 .. MaxStarts /\ edits \in 0 .. MaxEdits
    /\ touched \in SUBSET Commands /\ raced \in SUBSET Commands

\* An empty database, or the rows of an older version of the seeders.
\* SeederModule loads no configuration factory: configured takes environment
\* variables with the names seed.*, which .env.example lacks.
SeedInit ==
    /\ \/ entry = [i \in Rows |-> "absent"]
       \/ entry = [i \in Rows |-> IF i \in Upserted THEN "stale" ELSE "seeded"]
    /\ other = {} /\ phoneTaken = FALSE
    /\ configured \in BOOLEAN
    /\ command = [p \in Commands |-> Process("none", "idle", FALSE)]
    /\ starts = 0 /\ edits = 0 /\ touched = {} /\ raced = {}

Running(p) == command[p].pc \in {"clear", "find", "write"}

-----------------------------------------------------------------------------
(* The command line. *)

Start(p, kind) ==
    /\ ~Running(p) /\ starts < MaxStarts
    /\ starts' = starts + 1
    /\ command' = [command EXCEPT
           ![p] = Process(kind, IF kind = "seed" THEN "find" ELSE "clear", FALSE)]
    /\ touched' = touched \ {p}
    /\ raced' = LET others == {q \in Commands \ {p} : Running(q)}
                IN  IF others = {} THEN raced \ {p} ELSE raced \cup others \cup {p}
    /\ UNCHANGED <<entry, other, phoneTaken, configured, edits>>

\* The child of p ends and holds nothing any more.
End(p, pc, killed) ==
    command' = [command EXCEPT ![p] = Process(command[p].kind, pc, killed)]

\* What a child that succeeded is followed by.
After(p) ==
    IF command[p].kind = "reset" /\ command[p].pc = "clear" THEN "find" ELSE "done"

\* Mutant: reset does not look at the status of the clearing.
AfterFailureGoesOn(p) == IF After(p) = "find" THEN "find" ELSE "dead"

\* A status that is not 0 ends the command.
AfterFailure(p) == "dead"

\* A broken connection, a deadlock the database breaks, or a crash the shell
\* reports.
Stop(p) ==
    /\ Running(p)
    /\ End(p, AfterFailure(p), command[p].killed)
    /\ UNCHANGED <<entry, other, phoneTaken, configured, starts, edits, touched, raced>>

\* A child that a signal ends has no status, and `status ?? 0` is success.
Kill(p) ==
    /\ Running(p)
    /\ End(p, After(p), TRUE)
    /\ UNCHANGED <<entry, other, phoneTaken, configured, starts, edits, touched, raced>>

-----------------------------------------------------------------------------
(* clear.ts: one TRUNCATE per table of the catalogue. *)

\* Mutant: the list of tables does not leave out migrations.
ToClearAll == Catalogue \o <<"migrations">>

\* The tables of information_schema.
ToClear == Catalogue

Truncate(p) ==
    LET n    == command[p].cleared + 1
        gone == {i \in Rows : i.table \in Cascade(ToClear[n])}
    IN  /\ command[p].pc = "clear" /\ n <= Len(ToClear)
        /\ entry' = [i \in Rows |-> IF i \in gone THEN "absent" ELSE entry[i]]
        /\ other' = other \ Cascade(ToClear[n])
        /\ phoneTaken' = (phoneTaken /\ ToClear[n] # "users")
        /\ command' = [q \in Commands |->
               IF q = p THEN [command[p] EXCEPT !.cleared = n]
               ELSE [command[q] EXCEPT !.lost = @ \cup
                         (gone \cap (command[q].done \cup {command[q].item}))]]
        /\ touched' = touched \cup (Commands \ {p})
        /\ UNCHANGED <<configured, starts, edits, raced>>

EndClear(p) ==
    /\ command[p].pc = "clear" /\ command[p].cleared = Len(ToClear)
    /\ End(p, After(p), command[p].killed)
    /\ UNCHANGED <<entry, other, phoneTaken, configured, starts, edits, touched, raced>>

-----------------------------------------------------------------------------
(* The seeders: findOne, then save. *)

Todo(p) == Rows \ command[p].done

Turn(p, i) ==
    /\ command[p].pc = "find" /\ i \in Todo(p)
    /\ \A j \in Todo(p) : Order(i.table) <= Order(j.table)
    /\ i.table = "modules" => Needs(i) \subseteq command[p].done

\* The rows a find reads anew; AdminSeeder finds the role again by its name.
Reads(i) == IF i = AdminRow THEN {i, RoleRow} ELSE {i}

\* A row that holds ids is looked for by them: with a dead id it is not found.
Found(p, i) ==
    IF Needs(i) \cap (command[p].lost \ Reads(i)) # {} THEN "absent" ELSE entry[i]

\* AdminSeeder throws without the role; getOrThrow throws without the value.
Throws(i) ==
    \/ i = AdminRow /\ entry[RoleRow] = "absent"
    \/ i.table \in {"admins", "settings"} /\ ~configured

\* Mutant: the seeders only create rows, as those of admins and users do.
FitsIfThere(found) == found # "absent"

\* Whether a row is left as it was found: values equal to the seeder's.
Fits(found) == found = "seeded"

GoOn(p, pc, done, lost, item, found) ==
    command' = [command EXCEPT
        ![p] = [kind |-> command[p].kind, pc |-> pc, cleared |-> 0, done |-> done,
                lost |-> lost, item |-> item, found |-> found,
                killed |-> command[p].killed]]

\* A row that is not upserted has no other values.
Find(p, i) ==
    /\ Turn(p, i)
    /\ IF Throws(i) THEN End(p, "failed", command[p].killed)
       ELSE LET found == Found(p, i)
                rest  == command[p].lost \ Reads(i)
            IN  IF Fits(found)
                THEN GoOn(p, "find", command[p].done \cup {i}, rest, RoleRow, "absent")
                ELSE GoOn(p, "write", command[p].done, rest, i, found)
    /\ UNCHANGED <<entry, other, phoneTaken, configured, starts, edits, touched, raced>>

Wrote(p, i) ==
    GoOn(p, "find", command[p].done \cup {i}, command[p].lost \ {i}, RoleRow, "absent")

\* save inserts what its own SELECT by id does not find.
Inserts(p) == command[p].found = "absent" \/ command[p].item \in command[p].lost

\* The foreign keys and the unique indexes.
Refused(p, i) ==
    \/ Needs(i) \cap command[p].lost # {}
    \/ entry[i] # "absent"
    \/ i = UserRow /\ phoneTaken

Write(p) ==
    LET i == command[p].item
    IN  /\ command[p].pc = "write"
        /\ IF Inserts(p) /\ Refused(p, i)
           THEN /\ UNCHANGED entry
                /\ \/ End(p, "failed", command[p].killed)
                   \* The id of a role_permission is its key: save finds it.
                   \/ /\ i \in GrantRows /\ Needs(i) \cap command[p].lost = {}
                      /\ Wrote(p, i)
           ELSE entry' = [entry EXCEPT ![i] = "seeded"] /\ Wrote(p, i)
        /\ UNCHANGED <<other, phoneTaken, configured, starts, edits, touched, raced>>

EndSeed(p) ==
    /\ command[p].pc = "find" /\ Todo(p) = {}
    /\ End(p, "done", command[p].killed)
    /\ UNCHANGED <<entry, other, phoneTaken, configured, starts, edits, touched, raced>>

-----------------------------------------------------------------------------
(* The application, next to the commands and between them. *)

Edit ==
    /\ edits < MaxEdits
    /\ edits' = edits + 1
    /\ touched' = Commands
    /\ UNCHANGED <<configured, command, starts, raced>>

\* RoleService.update, createSMTPSettings: other values.
ChangeValues(i) ==
    /\ Edit /\ i \in {RoleRow} \cup SettingRows /\ entry[i] # "absent"
    /\ entry' = [entry EXCEPT ![i] = "stale"]
    /\ UNCHANGED <<other, phoneTaken>>

\* RoleService.update with other permissions; the admin or the user is
\* deleted, or gets another email.  A user with another email keeps the phone.
RemoveRow(i, keepsPhone) ==
    /\ Edit /\ i \in GrantRows \cup {AdminRow, UserRow} /\ entry[i] # "absent"
    /\ entry' = [entry EXCEPT ![i] = "absent"]
    /\ phoneTaken' = (phoneTaken \/ (i = UserRow /\ keepsPhone))
    /\ UNCHANGED other

\* A user leaves the phone, or is deleted.
FreePhone == /\ Edit /\ phoneTaken
             /\ phoneTaken' = FALSE
             /\ UNCHANGED <<entry, other>>

\* The application creates rows of its own.
AddRows(t) ==
    /\ Edit /\ t \in AppTables
    /\ other' = other \cup {t}
    /\ UNCHANGED <<entry, phoneTaken>>

SeedStep(p) ==
    \/ Truncate(p) \/ EndClear(p)
    \/ \E i \in Rows : Find(p, i)
    \/ Write(p) \/ EndSeed(p)
    \/ Stop(p) \/ Kill(p)

SeedNext ==
    \/ \E p \in Commands : SeedStep(p) \/ \E kind \in Kinds \ {"none"} : Start(p, kind)
    \/ \E i \in Rows : \/ ChangeValues(i)
                       \/ \E keepsPhone \in BOOLEAN : RemoveRow(i, keepsPhone)
    \/ FreePhone
    \/ \E t \in Tables : AddRows(t)

SeedSpec == SeedInit /\ [][SeedNext]_seedVars

-----------------------------------------------------------------------------
(* Properties. *)

Succeeded(p, kinds) ==
    command[p].pc = "done" /\ command[p].kind \in kinds /\ ~command[p].killed

\* A seed that succeeded leaves every row with the values of the seeders, also
\* on top of what a stopped one left and next to another one, until the
\* application or a clearing changes the tables.
CompletedIsComplete ==
    \A p \in Commands \ touched :
        Succeeded(p, {"seed", "reset"}) => \A i \in Rows : entry[i] = "seeded"

\* A reset that succeeded leaves nothing but those rows.
ResetIsExact ==
    \A p \in Commands \ touched : Succeeded(p, {"reset"}) => other = {}

\* A seeder that is alone never fails by itself, whatever earlier commands and
\* the application left, but for a user who has the phone of the seeded one,
\* and the missing configuration.
LoneSeederSucceeds ==
    \A p \in Commands \ (touched \cup raced) :
        command[p].pc = "failed" => phoneTaken \/ ~configured

\* "npx forge db seed  # seed roles, admin, user, settings": on a database
\* nobody else uses, the seeders do not fail.
SeedSeedsEverything ==
    \A p \in Commands \ (touched \cup raced) : command[p].pc = "failed" => phoneTaken
=============================================================================
