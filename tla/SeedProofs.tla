----------------------------- MODULE SeedProofs -----------------------------
(***************************************************************************)
(* Theorems about Seed: its types, and the three safety properties, each   *)
(* from an inductive invariant of its own.                                 *)
(***************************************************************************)
EXTENDS Seed, TLAPS

-----------------------------------------------------------------------------
(* Types. *)

LEMMA RoleIsARow == RoleRow \in Rows /\ AdminRow \in Rows /\ RoleRow \in Upserted
  BY DEF Rows, Upserted

LEMMA LenIsNatural == Len(Catalogue) \in Nat
  BY CatalogueListsTables

LEMMA ProcessType ==
  ASSUME NEW kind \in Kinds, NEW pc \in Stages, NEW killed \in BOOLEAN
  PROVE  Process(kind, pc, killed) \in Processes
<1>1. Len(Catalogue) \in Nat
  BY CatalogueListsTables
<1>2. 0 \in 0 .. Len(Catalogue)
  BY <1>1
<1> QED
  BY <1>2, RoleIsARow DEF Process, Processes

LEMMA EndType ==
  ASSUME SeedTypeOK, NEW p \in Commands, NEW pc \in Stages, NEW killed \in BOOLEAN,
         End(p, pc, killed)
  PROVE  command' \in [Commands -> Processes]
<1>1. command[p].kind \in Kinds
  BY DEF SeedTypeOK, Processes
<1>2. Process(command[p].kind, pc, killed) \in Processes
  BY <1>1, ProcessType
<1> QED
  BY <1>2 DEF End, SeedTypeOK

LEMMA Fields ==
  ASSUME SeedTypeOK, NEW p \in Commands
  PROVE  /\ command[p] \in Processes
         /\ command[p].kind \in Kinds /\ command[p].pc \in Stages
         /\ command[p].cleared \in 0 .. Len(Catalogue) /\ command[p].cleared \in Nat
         /\ command[p].done \in SUBSET Rows /\ command[p].lost \in SUBSET Rows
         /\ command[p].item \in Rows /\ command[p].found \in {"absent", "stale"}
         /\ command[p].killed \in BOOLEAN
         /\ After(p) \in Stages /\ AfterFailure(p) \in Stages
<1>1. command[p] \in Processes
  BY DEF SeedTypeOK
<1>2. Len(Catalogue) \in Nat
  BY CatalogueListsTables
<1> QED
  BY <1>1, <1>2 DEF Processes, After, AfterFailure, Stages

LEMMA TypeInit == SeedInit => SeedTypeOK
<1> SUFFICES ASSUME SeedInit PROVE SeedTypeOK
  OBVIOUS
<1>1. Process("none", "idle", FALSE) \in Processes
  BY ProcessType DEF Kinds, Stages
<1>2. command \in [Commands -> Processes]
  BY <1>1 DEF SeedInit
<1>3. entry \in [Rows -> {"absent", "stale", "seeded"}] /\ \A i \in Rows \ Upserted : entry[i] # "stale"
  BY DEF SeedInit
<1>4. starts \in 0 .. MaxStarts /\ edits \in 0 .. MaxEdits
  BY BoundsAreNatural DEF SeedInit
<1> QED
  BY <1>2, <1>3, <1>4 DEF SeedInit, SeedTypeOK

LEMMA TypeStart ==
  ASSUME SeedTypeOK, NEW p \in Commands, NEW kind \in Kinds, Start(p, kind)
  PROVE  SeedTypeOK'
<1>1. Process(kind, IF kind = "seed" THEN "find" ELSE "clear", FALSE) \in Processes
  BY ProcessType DEF Stages
<1>2. command' \in [Commands -> Processes]
  BY <1>1 DEF Start, SeedTypeOK
<1>3. starts' \in 0 .. MaxStarts
  BY BoundsAreNatural DEF Start, SeedTypeOK
<1>4. touched' \in SUBSET Commands /\ raced' \in SUBSET Commands
  BY DEF Start, SeedTypeOK
<1> QED
  BY <1>2, <1>3, <1>4 DEF Start, SeedTypeOK

LEMMA TypeEnds ==
  ASSUME SeedTypeOK, NEW p \in Commands, Stop(p) \/ Kill(p) \/ EndClear(p) \/ EndSeed(p)
  PROVE  SeedTypeOK'
<1>1. command' \in [Commands -> Processes]
  <2>1. CASE Stop(p)     BY <2>1, Fields, EndType DEF Stop
  <2>2. CASE Kill(p)     BY <2>2, Fields, EndType DEF Kill
  <2>3. CASE EndClear(p) BY <2>3, Fields, EndType DEF EndClear
  <2>4. CASE EndSeed(p)
    <3>1. "done" \in Stages
      BY DEF Stages
    <3> QED BY <2>4, <3>1, Fields, EndType DEF EndSeed
  <2> QED BY <2>1, <2>2, <2>3, <2>4
<1>2. UNCHANGED <<entry, other, phoneTaken, configured, starts, edits, touched, raced>>
  BY DEF Stop, Kill, EndClear, EndSeed
<1> QED
  BY <1>1, <1>2 DEF SeedTypeOK

LEMMA TypeTruncate ==
  ASSUME SeedTypeOK, NEW p \in Commands, Truncate(p)
  PROVE  SeedTypeOK'
<1> DEFINE n    == command[p].cleared + 1
           gone == {i \in Rows : i.table \in Cascade(ToClear[n])}
<1>1. n \in 0 .. Len(Catalogue)
  BY Fields, CatalogueListsTables DEF Truncate, ToClear
<1>2. [command[p] EXCEPT !.cleared = n] \in Processes
  BY <1>1, Fields DEF Processes
<1>3. ASSUME NEW q \in Commands
      PROVE  [command[q] EXCEPT !.lost = @ \cup (gone \cap (command[q].done \cup {command[q].item}))]
                 \in Processes
  <2>1. command[q].lost \cup (gone \cap (command[q].done \cup {command[q].item})) \in SUBSET Rows
    BY Fields
  <2> QED
    BY <2>1, Fields DEF Processes
<1>4. command' = [q \in Commands |->
          IF q = p THEN [command[p] EXCEPT !.cleared = n]
          ELSE [command[q] EXCEPT !.lost = @ \cup
                    (gone \cap (command[q].done \cup {command[q].item}))]]
  BY DEF Truncate
<1>5. command' \in [Commands -> Processes]
  <2> HIDE DEF n, gone
  <2> QED BY <1>2, <1>3, <1>4
<1>6. entry' = [i \in Rows |-> IF i \in gone THEN "absent" ELSE entry[i]]
  BY DEF Truncate
<1>7. entry' \in [Rows -> {"absent", "stale", "seeded"}] /\ \A i \in Rows \ Upserted : entry'[i] # "stale"
  <2> HIDE DEF gone
  <2> QED BY <1>6 DEF SeedTypeOK
<1>8. other' \in SUBSET Tables /\ touched' \in SUBSET Commands /\ phoneTaken' \in BOOLEAN
  BY DEF Truncate, SeedTypeOK
<1> QED
  BY <1>5, <1>7, <1>8 DEF Truncate, SeedTypeOK

LEMMA FoundType ==
  ASSUME SeedTypeOK, NEW p \in Commands, NEW i \in Rows
  PROVE  Found(p, i) \in {"absent", "stale", "seeded"}
  BY DEF Found, SeedTypeOK

LEMMA GoOnType ==
  ASSUME SeedTypeOK, NEW p \in Commands, NEW pc \in Stages, NEW done \in SUBSET Rows,
         NEW lost \in SUBSET Rows, NEW item \in Rows, NEW found \in {"absent", "stale"},
         GoOn(p, pc, done, lost, item, found)
  PROVE  command' \in [Commands -> Processes]
<1> DEFINE c == [kind |-> command[p].kind, pc |-> pc, cleared |-> 0, done |-> done,
                 lost |-> lost, item |-> item, found |-> found,
                 killed |-> command[p].killed]
<1>1. 0 \in 0 .. Len(Catalogue)
  BY LenIsNatural
<1>2. c \in Processes
  BY <1>1, Fields DEF Processes
<1>3. command' = [command EXCEPT ![p] = c]
  BY DEF GoOn
<1> HIDE DEF c
<1> QED
  BY <1>2, <1>3 DEF SeedTypeOK

LEMMA TypeFind ==
  ASSUME SeedTypeOK, NEW p \in Commands, NEW i \in Rows, Find(p, i)
  PROVE  SeedTypeOK'
<1>1. {"find", "write", "failed"} \subseteq Stages
  BY DEF Stages
<1>2. command[p].lost \ Reads(i) \in SUBSET Rows /\ command[p].done \cup {i} \in SUBSET Rows
  BY Fields
<1>3. command' \in [Commands -> Processes]
  <2>1. CASE Throws(i)
    BY <1>1, <2>1, Fields, EndType DEF Find
  <2>2. CASE ~Throws(i) /\ Fits(Found(p, i))
    BY <1>1, <1>2, <2>2, RoleIsARow, GoOnType DEF Find
  <2>3. CASE ~Throws(i) /\ ~Fits(Found(p, i))
    <3>1. Found(p, i) \in {"absent", "stale"}
      BY <2>3, FoundType DEF Fits
    <3>2. GoOn(p, "write", command[p].done, command[p].lost \ Reads(i), i, Found(p, i))
      BY <2>3 DEF Find
    <3>3. command[p].done \in SUBSET Rows
      BY Fields
    <3> QED BY <1>1, <1>2, <3>1, <3>2, <3>3, GoOnType
  <2> QED BY <2>1, <2>2, <2>3
<1> QED
  BY <1>3 DEF Find, SeedTypeOK

LEMMA WroteType ==
  ASSUME SeedTypeOK, NEW p \in Commands, NEW i \in Rows, Wrote(p, i)
  PROVE  command' \in [Commands -> Processes]
<1>1. command[p].lost \ {i} \in SUBSET Rows /\ command[p].done \cup {i} \in SUBSET Rows
      /\ "find" \in Stages
  BY Fields DEF Stages
<1> QED
  BY <1>1, RoleIsARow, GoOnType DEF Wrote

\* The three outcomes of a save.
LEMMA WriteCases ==
  ASSUME SeedTypeOK, NEW p \in Commands, Write(p)
  PROVE  /\ command[p].pc = "write" /\ command[p].item \in Rows
         /\ UNCHANGED <<other, phoneTaken, configured, starts, edits, touched, raced>>
         /\ \/ /\ End(p, "failed", command[p].killed) /\ UNCHANGED entry
               /\ Inserts(p) /\ Refused(p, command[p].item)
            \/ /\ Wrote(p, command[p].item) /\ UNCHANGED entry
               /\ Inserts(p) /\ Refused(p, command[p].item)
               /\ Needs(command[p].item) \cap command[p].lost = {}
               /\ command[p].item \in GrantRows
            \/ /\ Wrote(p, command[p].item)
               /\ entry' = [entry EXCEPT ![command[p].item] = "seeded"]
<1>1. command[p].item \in Rows
  BY Fields
<1> QED
  BY <1>1 DEF Write

LEMMA TypeWrite ==
  ASSUME SeedTypeOK, NEW p \in Commands, Write(p)
  PROVE  SeedTypeOK'
<1>1. command' \in [Commands -> Processes]
  <2>1. "failed" \in Stages
    BY DEF Stages
  <2> QED BY <2>1, WriteCases, EndType, WroteType, Fields
<1>2. entry' \in [Rows -> {"absent", "stale", "seeded"}] /\ \A i \in Rows \ Upserted : entry'[i] # "stale"
  BY WriteCases DEF SeedTypeOK
<1> QED
  BY <1>1, <1>2, WriteCases DEF SeedTypeOK

\* A write of the application.
AppStep ==
    \/ \E i \in Rows : ChangeValues(i) \/ \E keepsPhone \in BOOLEAN : RemoveRow(i, keepsPhone)
    \/ FreePhone
    \/ \E t \in Tables : AddRows(t)

LEMMA AppFacts ==
  ASSUME AppStep
  PROVE  Edit
  BY DEF AppStep, ChangeValues, RemoveRow, FreePhone, AddRows

LEMMA TypeApp ==
  ASSUME SeedTypeOK, AppStep
  PROVE  SeedTypeOK'
<1>1. edits' \in 0 .. MaxEdits /\ touched' \in SUBSET Commands
      /\ UNCHANGED <<configured, command, starts, raced>>
  BY AppFacts, BoundsAreNatural DEF Edit, SeedTypeOK
<1>2. entry' \in [Rows -> {"absent", "stale", "seeded"}] /\ \A i \in Rows \ Upserted : entry'[i] # "stale"
  <2>1. CASE \E i \in Rows : ChangeValues(i)
    BY <2>1 DEF ChangeValues, SeedTypeOK, Upserted
  <2>2. CASE \E i \in Rows, keepsPhone \in BOOLEAN : RemoveRow(i, keepsPhone)
    BY <2>2 DEF RemoveRow, SeedTypeOK
  <2>3. CASE FreePhone \/ \E t \in Tables : AddRows(t)
    BY <2>3 DEF FreePhone, AddRows, SeedTypeOK
  <2> QED BY <2>1, <2>2, <2>3 DEF AppStep
<1>3. other' \in SUBSET Tables
  BY DEF AppStep, ChangeValues, RemoveRow, FreePhone, AddRows, SeedTypeOK
<1>4. phoneTaken' \in BOOLEAN
  BY DEF AppStep, ChangeValues, RemoveRow, FreePhone, AddRows, SeedTypeOK
<1> QED
  BY <1>1, <1>2, <1>3, <1>4 DEF SeedTypeOK

\* The steps of SeedNext, one at a time.
LEMMA Cases ==
  ASSUME [SeedNext]_seedVars
  PROVE  \/ \E p \in Commands :
               \/ \E kind \in Kinds \ {"none"} : Start(p, kind)
               \/ Stop(p) \/ Kill(p) \/ EndClear(p) \/ EndSeed(p)
               \/ Truncate(p)
               \/ \E i \in Rows : Find(p, i)
               \/ Write(p)
         \/ AppStep
         \/ UNCHANGED seedVars
  BY DEF SeedNext, SeedStep, AppStep

LEMMA TypeNext == SeedTypeOK /\ [SeedNext]_seedVars => SeedTypeOK'
<1> SUFFICES ASSUME SeedTypeOK, [SeedNext]_seedVars PROVE SeedTypeOK'
  OBVIOUS
<1>1. CASE UNCHANGED seedVars
  BY <1>1 DEF SeedTypeOK, seedVars
<1> QED
  BY <1>1, Cases, TypeStart, TypeEnds, TypeTruncate, TypeFind, TypeWrite, TypeApp

\* The state always has the types of its tables and processes; in particular
\* no clearing runs past the tables of the catalogue.
THEOREM SeedTypeCorrect == SeedSpec => []SeedTypeOK
<1> QED
  BY TypeInit, TypeNext, PTL DEF SeedSpec

-----------------------------------------------------------------------------
(* What a step does to the processes and to the history. *)

\* A command keeps its kind until it starts again, the bystanders of a step
\* change nothing but lost, and `configured` never changes.
LEMMA OthersStay ==
  ASSUME SeedTypeOK, NEW p \in Commands, NEW q \in Commands \ {p},
         \/ \E kind \in Kinds : Start(p, kind)
         \/ Stop(p) \/ Kill(p) \/ EndClear(p) \/ EndSeed(p)
         \/ \E i \in Rows : Find(p, i)
         \/ Write(p)
  PROVE  command'[q] = command[q]
<1>1. CASE \E kind \in Kinds : Start(p, kind)
  BY <1>1 DEF Start, SeedTypeOK
<1>2. CASE Stop(p) \/ Kill(p) \/ EndClear(p) \/ EndSeed(p)
  BY <1>2 DEF Stop, Kill, EndClear, EndSeed, End, SeedTypeOK
<1>3. CASE \E i \in Rows : Find(p, i)
  BY <1>3 DEF Find, End, GoOn, SeedTypeOK
<1>4. CASE Write(p)
  BY <1>4, WriteCases DEF End, Wrote, GoOn, SeedTypeOK
<1> QED
  BY <1>1, <1>2, <1>3, <1>4

LEMMA StartFacts ==
  ASSUME SeedTypeOK, NEW p \in Commands, NEW kind \in Kinds, Start(p, kind)
  PROVE  /\ command'[p].kind = kind /\ command'[p].killed = FALSE
         /\ command'[p].cleared = 0 /\ command'[p].done = {} /\ command'[p].lost = {}
         /\ command'[p].pc = (IF kind = "seed" THEN "find" ELSE "clear")
         /\ UNCHANGED <<entry, other, phoneTaken, configured>>
  BY DEF Start, Process, SeedTypeOK

LEMMA EndFacts ==
  ASSUME SeedTypeOK, NEW p \in Commands, NEW pc, NEW killed, End(p, pc, killed)
  PROVE  /\ command'[p].kind = command[p].kind /\ command'[p].pc = pc
         /\ command'[p].killed = killed
         /\ command'[p].done = {} /\ command'[p].lost = {}
  BY DEF End, Process, SeedTypeOK

LEMMA GoOnFacts ==
  ASSUME SeedTypeOK, NEW p \in Commands, NEW pc, NEW done, NEW lost, NEW item, NEW found,
         GoOn(p, pc, done, lost, item, found)
  PROVE  /\ command'[p].kind = command[p].kind /\ command'[p].killed = command[p].killed
         /\ command'[p].pc = pc /\ command'[p].done = done /\ command'[p].lost = lost
         /\ command'[p].item = item /\ command'[p].found = found
  BY DEF GoOn, SeedTypeOK

LEMMA TruncateFacts ==
  ASSUME SeedTypeOK, NEW p \in Commands, Truncate(p)
  PROVE  /\ command[p].pc = "clear" /\ command'[p].pc = "clear"
         /\ command'[p].kind = command[p].kind /\ command'[p].killed = command[p].killed
         /\ command'[p].cleared = command[p].cleared + 1
         /\ command[p].cleared + 1 \in 1 .. Len(Catalogue)
         /\ other' = other \ Cascade(Catalogue[command[p].cleared + 1])
         /\ \A q \in Commands \ {p} : q \in touched'
         /\ \A q \in Commands : command'[q].pc = command[q].pc
         /\ touched \subseteq touched' /\ UNCHANGED <<configured, raced>>
<1> DEFINE n    == command[p].cleared + 1
           gone == {i \in Rows : i.table \in Cascade(ToClear[n])}
<1>1. command' = [q \in Commands |->
          IF q = p THEN [command[p] EXCEPT !.cleared = n]
          ELSE [command[q] EXCEPT !.lost = @ \cup
                    (gone \cap (command[q].done \cup {command[q].item}))]]
  BY DEF Truncate
<1>2. command[p] \in Processes
  BY Fields
<1>3. command'[p] = [command[p] EXCEPT !.cleared = n]
  <2> HIDE DEF gone, n
  <2> QED BY <1>1
<1>4. /\ command'[p].pc = command[p].pc /\ command'[p].kind = command[p].kind
      /\ command'[p].killed = command[p].killed /\ command'[p].cleared = n
  BY <1>2, <1>3 DEF Processes
<1>5. ASSUME NEW q \in Commands \ {p}
      PROVE  command'[q].pc = command[q].pc
  <2>1. command'[q] = [command[q] EXCEPT !.lost = @ \cup
                    (gone \cap (command[q].done \cup {command[q].item}))]
    <3> HIDE DEF gone, n
    <3> QED BY <1>1
  <2>2. command[q] \in Processes
    BY Fields
  <2> HIDE DEF gone, n
  <2> QED BY <2>1, <2>2 DEF Processes
<1>6. n \in 1 .. Len(Catalogue)
  BY Fields, LenIsNatural DEF Truncate, ToClear
<1> QED
  BY <1>4, <1>5, <1>6 DEF Truncate, ToClear

-----------------------------------------------------------------------------
(* A seed that succeeded is complete. *)

\* The rows an untouched seeder has dealt with are as seeded.
Complete(p) ==
    /\ command[p].kind = "seed" => command[p].pc # "clear"
    /\ command[p].pc \in {"find", "write"} => \A i \in command[p].done : entry[i] = "seeded"
    /\ Succeeded(p, {"seed", "reset"}) => \A i \in Rows : entry[i] = "seeded"

CompleteInv == \A p \in Commands \ touched : Complete(p)

LEMMA GrantsAreNotStale ==
  ASSUME SeedTypeOK, NEW i \in GrantRows, i \in Rows, entry[i] # "absent"
  PROVE  entry[i] = "seeded"
<1>1. i \notin Upserted
  BY DEF GrantRows, Upserted, ModuleRows, RoleRow, SettingRows, Row
<1> QED
  BY <1>1 DEF SeedTypeOK

\* What p has dealt with after one more row, and what that row is then.
LEMMA CompleteOwn ==
  ASSUME SeedTypeOK, SeedTypeOK', NEW p \in Commands, Complete(p),
         \/ \E kind \in Kinds : Start(p, kind)
         \/ Stop(p) \/ Kill(p) \/ EndClear(p) \/ EndSeed(p) \/ Truncate(p)
         \/ \E i \in Rows : Find(p, i)
         \/ Write(p)
  PROVE  /\ command'[p].kind = "seed" => command'[p].pc # "clear"
         /\ command'[p].pc \in {"find", "write"} =>
                \A i \in command'[p].done : entry'[i] = "seeded"
         /\ command'[p].pc = "done" /\ command'[p].kind \in {"seed", "reset"}
                /\ ~command'[p].killed => \A i \in Rows : entry'[i] = "seeded"
<1>1. CASE \E kind \in Kinds : Start(p, kind)
  BY <1>1, StartFacts
<1>2. CASE Stop(p)
  BY <1>2, EndFacts, Fields DEF Stop, AfterFailure
<1>3. CASE Kill(p)
  <2>1. End(p, After(p), TRUE)
    BY <1>3 DEF Kill
  <2>2. After(p) \in {"find", "done"}
    BY DEF After
  <2>3. command'[p].pc = After(p) /\ command'[p].killed = TRUE /\ command'[p].done = {}
    BY <2>1, EndFacts
  <2> QED BY <2>2, <2>3
<1>4. CASE EndClear(p)
  <2>1. End(p, After(p), command[p].killed) /\ command[p].pc = "clear"
    BY <1>4 DEF EndClear
  <2> QED BY <2>1, EndFacts, Fields DEF After, Complete
<1>5. CASE EndSeed(p)
  <2>1. /\ End(p, "done", command[p].killed) /\ UNCHANGED entry
        /\ command[p].pc = "find" /\ Rows \ command[p].done = {}
    BY <1>5 DEF EndSeed, Todo
  <2> QED BY <2>1, EndFacts, Fields DEF Complete
<1>6. CASE Truncate(p)
  BY <1>6, TruncateFacts DEF Complete
<1>7. CASE \E i \in Rows : Find(p, i)
  <2>1. PICK i \in Rows : Find(p, i)
    BY <1>7
  <2>2. UNCHANGED entry /\ command[p].pc = "find"
    BY <2>1 DEF Find, Turn
  <2>3. CASE Throws(i)
    BY <2>1, <2>2, <2>3, EndFacts DEF Find
  <2>4. CASE ~Throws(i) /\ Fits(Found(p, i))
    <3>1. entry[i] = "seeded"
      BY <2>4 DEF Fits, Found
    <3>2. command'[p].pc = "find" /\ command'[p].done = command[p].done \cup {i}
      BY <2>1, <2>4, GoOnFacts DEF Find
    <3> QED BY <2>2, <3>1, <3>2 DEF Complete
  <2>5. CASE ~Throws(i) /\ ~Fits(Found(p, i))
    <3>1. command'[p].pc = "write" /\ command'[p].done = command[p].done
      BY <2>1, <2>5, GoOnFacts DEF Find
    <3> QED BY <2>2, <3>1 DEF Complete
  <2> QED BY <2>3, <2>4, <2>5
<1>8. CASE Write(p)
  <2> DEFINE i == command[p].item
  <2>1. command[p].pc = "write" /\ i \in Rows
    BY <1>8, WriteCases
  <2>2. CASE End(p, "failed", command[p].killed)
    BY <2>2, EndFacts
  <2>3. CASE Wrote(p, i)
    <3>1. command'[p].pc = "find" /\ command'[p].done = command[p].done \cup {i}
      BY <2>3, GoOnFacts DEF Wrote
    <3>2. \A j \in Rows : j = i \/ entry[j] = "seeded" => entry'[j] = "seeded"
      <4>1. CASE entry' = [entry EXCEPT ![i] = "seeded"]
        BY <4>1, <2>1 DEF SeedTypeOK
      <4>2. CASE UNCHANGED entry /\ Inserts(p) /\ Refused(p, i) /\ i \in GrantRows
                   /\ Needs(i) \cap command[p].lost = {}
        <5>1. i # UserRow
          BY <4>2 DEF GrantRows, UserRow, Row
        <5>2. entry[i] # "absent"
          BY <4>2, <5>1 DEF Refused
        <5>3. entry[i] = "seeded"
          BY <2>1, <4>2, <5>2, GrantsAreNotStale
        <5> QED BY <4>2, <5>3
      <4>3. "failed" # "find"
        OBVIOUS
      <4>4. ~End(p, "failed", command[p].killed)
        BY <3>1, <4>3, EndFacts
      <4> QED BY <1>8, <4>1, <4>2, <4>4, WriteCases
    <3>3. command[p].done \subseteq Rows
      BY Fields
    <3> QED BY <2>1, <3>1, <3>2, <3>3 DEF Complete
  <2> QED BY <1>8, <2>2, <2>3, WriteCases
<1> QED
  BY <1>1, <1>2, <1>3, <1>4, <1>5, <1>6, <1>7, <1>8

\* A bystander that no step touches keeps what it holds, and its rows.
LEMMA Bystander ==
  ASSUME SeedTypeOK, [SeedNext]_seedVars, NEW p \in Commands, p \notin touched',
         ~ \/ \E kind \in Kinds : Start(p, kind)
           \/ Stop(p) \/ Kill(p) \/ EndClear(p) \/ EndSeed(p) \/ Truncate(p)
           \/ \E i \in Rows : Find(p, i)
           \/ Write(p)
  PROVE  /\ p \notin touched /\ command'[p] = command[p]
         /\ UNCHANGED <<other, phoneTaken, configured>>
         /\ \A i \in Rows : entry[i] = "seeded" => entry'[i] = "seeded"
<1>1. CASE UNCHANGED seedVars
  BY <1>1 DEF seedVars
<1>2. CASE AppStep
  BY <1>2, AppFacts DEF Edit
<1>3. ASSUME NEW q \in Commands \ {p},
             \/ \E kind \in Kinds : Start(q, kind)
             \/ Stop(q) \/ Kill(q) \/ EndClear(q) \/ EndSeed(q)
             \/ \E i \in Rows : Find(q, i)
             \/ Write(q)
      PROVE  /\ p \notin touched /\ command'[p] = command[p]
             /\ UNCHANGED <<other, phoneTaken, configured>>
             /\ \A i \in Rows : entry[i] = "seeded" => entry'[i] = "seeded"
  <2>1. command'[p] = command[p]
    BY <1>3, OthersStay
  <2>2. UNCHANGED <<other, phoneTaken, configured>> /\ p \notin touched
    BY <1>3, WriteCases DEF Start, Stop, Kill, EndClear, EndSeed, Find
  <2>3. CASE Write(q)
    BY <2>1, <2>2, <2>3, WriteCases DEF SeedTypeOK
  <2>4. CASE ~Write(q)
    BY <1>3, <2>1, <2>2, <2>4 DEF Start, Stop, Kill, EndClear, EndSeed, Find
  <2> QED BY <2>3, <2>4
<1>4. ASSUME NEW q \in Commands \ {p}, Truncate(q)
      PROVE  FALSE
  BY <1>4, TruncateFacts
<1> QED
  BY <1>1, <1>2, <1>3, <1>4, Cases

LEMMA CompleteNext == SeedTypeOK /\ SeedTypeOK' /\ CompleteInv /\ [SeedNext]_seedVars => CompleteInv'
<1> SUFFICES ASSUME SeedTypeOK, SeedTypeOK', CompleteInv, [SeedNext]_seedVars,
                    NEW p \in Commands, p \notin touched'
             PROVE  Complete(p)'
  BY DEF CompleteInv
<1>1. CASE \/ \E kind \in Kinds : Start(p, kind)
           \/ Stop(p) \/ Kill(p) \/ EndClear(p) \/ EndSeed(p) \/ Truncate(p)
           \/ \E i \in Rows : Find(p, i)
           \/ Write(p)
  <2>1. CASE Complete(p)
    BY <1>1, <2>1, CompleteOwn DEF Complete, Succeeded
  <2>2. CASE \E kind \in Kinds : Start(p, kind)
    BY <2>2, StartFacts DEF Complete, Succeeded
  <2>3. CASE ~\E kind \in Kinds : Start(p, kind)
    <3>1. p \notin touched
      BY <1>1, <2>3, WriteCases DEF Stop, Kill, EndClear, EndSeed, Find, Truncate
    <3> QED BY <2>1, <3>1 DEF CompleteInv
  <2> QED BY <2>2, <2>3
<1>2. CASE ~ \/ \E kind \in Kinds : Start(p, kind)
             \/ Stop(p) \/ Kill(p) \/ EndClear(p) \/ EndSeed(p) \/ Truncate(p)
             \/ \E i \in Rows : Find(p, i)
             \/ Write(p)
  <2>1. /\ p \notin touched /\ command'[p] = command[p]
        /\ \A i \in Rows : entry[i] = "seeded" => entry'[i] = "seeded"
    BY <1>2, Bystander
  <2>2. Complete(p) /\ command[p].done \subseteq Rows
    BY <2>1, Fields DEF CompleteInv
  <2> QED BY <2>1, <2>2 DEF Complete, Succeeded
<1> QED
  BY <1>1, <1>2

LEMMA CompleteInit == SeedInit => CompleteInv
  BY DEF SeedInit, Process, CompleteInv, Complete, Succeeded

\* A seed or reset that succeeded left every row as the seeders have it, also
\* on top of a stopped seed and next to another one.
THEOREM SuccessIsComplete == SeedSpec => []CompletedIsComplete
<1>1. CompleteInv => CompletedIsComplete
  BY DEF CompleteInv, Complete, CompletedIsComplete
<1> QED
  BY <1>1, TypeInit, TypeNext, CompleteInit, CompleteNext, PTL DEF SeedSpec

-----------------------------------------------------------------------------
(* A reset that succeeded is exact. *)

\* The tables an untouched reset has truncated are empty.
Exact(p) ==
    command[p].kind = "reset" /\ ~command[p].killed =>
        /\ command[p].pc = "clear" =>
               \A n \in 1 .. command[p].cleared : Catalogue[n] \notin other
        /\ command[p].pc \in {"find", "write", "done"} => other = {}

ExactInv == \A p \in Commands \ touched : Exact(p)

LEMMA CascadeIsReflexive == ASSUME NEW t \in Tables PROVE t \in Cascade(t)
  BY DEF Tables, Cascade

LEMMA CatalogueIsFull ==
  ASSUME SeedTypeOK, \A n \in 1 .. Len(Catalogue) : Catalogue[n] \notin other
  PROVE  other = {}
<1>1. DOMAIN Catalogue = 1 .. Len(Catalogue)
  BY CatalogueListsTables
<1> QED
  BY <1>1, CatalogueListsTables DEF SeedTypeOK

LEMMA ExactOwn ==
  ASSUME SeedTypeOK, NEW p \in Commands, Exact(p),
         \/ Stop(p) \/ Kill(p) \/ EndClear(p) \/ EndSeed(p) \/ Truncate(p)
         \/ \E i \in Rows : Find(p, i)
         \/ Write(p)
  PROVE  command'[p].kind = "reset" /\ ~command'[p].killed =>
             /\ command'[p].pc = "clear" =>
                    \A n \in 1 .. command'[p].cleared : Catalogue[n] \notin other'
             /\ command'[p].pc \in {"find", "write", "done"} => other' = {}
<1>1. CASE Stop(p)
  BY <1>1, EndFacts DEF Stop, AfterFailure
<1>2. CASE Kill(p)
  BY <1>2, EndFacts DEF Kill
<1>3. CASE EndClear(p)
  <2>1. /\ End(p, After(p), command[p].killed) /\ UNCHANGED other
        /\ command[p].pc = "clear" /\ command[p].cleared = Len(Catalogue)
    BY <1>3 DEF EndClear, ToClear
  <2>2. command'[p].pc = After(p) /\ command'[p].kind = command[p].kind
        /\ command'[p].killed = command[p].killed /\ After(p) # "clear"
    BY <2>1, EndFacts DEF After
  <2>3. CASE command[p].kind = "reset" /\ ~command[p].killed
    <3>1. other = {}
      BY <2>1, <2>3, CatalogueIsFull DEF Exact
    <3> QED BY <2>1, <2>2, <3>1
  <2> QED BY <2>2, <2>3
<1>4. CASE EndSeed(p)
  BY <1>4, EndFacts DEF EndSeed, Exact
<1>5. CASE Truncate(p)
  <2> DEFINE n == command[p].cleared + 1
  <2>1. /\ command[p].pc = "clear" /\ command'[p].pc = "clear"
        /\ command'[p].kind = command[p].kind /\ command'[p].killed = command[p].killed
        /\ command'[p].cleared = n /\ n \in 1 .. Len(Catalogue)
        /\ other' = other \ Cascade(Catalogue[n])
    BY <1>5, TruncateFacts
  <2>2. Catalogue[n] \in Tables
    BY <2>1, CatalogueListsTables
  <2>3. Catalogue[n] \notin other'
    BY <2>1, <2>2, CascadeIsReflexive
  <2>4. command[p].cleared \in Nat
    BY Fields
  <2>5. ASSUME command[p].kind = "reset", ~command[p].killed, NEW m \in 1 .. n
        PROVE  Catalogue[m] \notin other'
    <3>1. m = n \/ m \in 1 .. command[p].cleared
      BY <2>4
    <3> QED BY <2>1, <2>3, <2>5, <3>1 DEF Exact
  <2> QED BY <2>1, <2>5
<1>6. CASE \E i \in Rows : Find(p, i)
  <2>1. PICK i \in Rows : Find(p, i)
    BY <1>6
  <2>2. UNCHANGED other /\ command[p].pc = "find"
    BY <2>1 DEF Find, Turn
  <2>3. /\ command'[p].kind = command[p].kind /\ command'[p].killed = command[p].killed
        /\ command'[p].pc \in {"failed", "find", "write"}
    BY <2>1, EndFacts, GoOnFacts DEF Find
  <2> QED BY <2>2, <2>3 DEF Exact
<1>7. CASE Write(p)
  <2>1. /\ command[p].pc = "write" /\ UNCHANGED other
        /\ End(p, "failed", command[p].killed) \/ Wrote(p, command[p].item)
    BY <1>7, WriteCases
  <2>2. /\ command'[p].kind = command[p].kind /\ command'[p].killed = command[p].killed
        /\ command'[p].pc \in {"failed", "find"}
    BY <2>1, EndFacts, GoOnFacts DEF Wrote
  <2> QED BY <2>1, <2>2 DEF Exact
<1> QED
  BY <1>1, <1>2, <1>3, <1>4, <1>5, <1>6, <1>7

LEMMA ExactNext == SeedTypeOK /\ ExactInv /\ [SeedNext]_seedVars => ExactInv'
<1> SUFFICES ASSUME SeedTypeOK, ExactInv, [SeedNext]_seedVars,
                    NEW p \in Commands, p \notin touched'
             PROVE  Exact(p)'
  BY DEF ExactInv
<1>1. CASE \E kind \in Kinds : Start(p, kind)
  <2>1. command'[p].kind = "reset" => command'[p].pc = "clear"
    BY <1>1, StartFacts
  <2>2. command'[p].cleared = 0
    BY <1>1, StartFacts
  <2>3. ASSUME NEW n \in 1 .. command'[p].cleared PROVE FALSE
    BY <2>2
  <2> QED BY <2>1, <2>2, <2>3 DEF Exact
<1>2. CASE /\ \/ Stop(p) \/ Kill(p) \/ EndClear(p) \/ EndSeed(p) \/ Truncate(p)
              \/ \E i \in Rows : Find(p, i)
              \/ Write(p)
           /\ ~\E kind \in Kinds : Start(p, kind)
  <2>1. p \notin touched
    BY <1>2, WriteCases DEF Stop, Kill, EndClear, EndSeed, Find, Truncate
  <2>2. Exact(p)
    BY <2>1 DEF ExactInv
  <2> QED BY <1>2, <2>2, ExactOwn DEF Exact
<1>3. CASE ~ \/ \E kind \in Kinds : Start(p, kind)
             \/ Stop(p) \/ Kill(p) \/ EndClear(p) \/ EndSeed(p) \/ Truncate(p)
             \/ \E i \in Rows : Find(p, i)
             \/ Write(p)
  <2>1. p \notin touched /\ command'[p] = command[p] /\ UNCHANGED other
    BY <1>3, Bystander
  <2> QED BY <2>1 DEF ExactInv, Exact
<1> QED
  BY <1>1, <1>2, <1>3

LEMMA ExactInit == SeedInit => ExactInv
  BY DEF SeedInit, Process, ExactInv, Exact

\* A reset that succeeded left no row but the seeders', whatever the order of
\* the tables in the catalogue.
THEOREM ResetsAreExact == SeedSpec => []ResetIsExact
<1>1. ExactInv => ResetIsExact
  BY DEF ExactInv, Exact, ResetIsExact, Succeeded
<1> QED
  BY <1>1, TypeInit, TypeNext, ExactInit, ExactNext, PTL DEF SeedSpec

-----------------------------------------------------------------------------
(* A lone seeder succeeds. *)

\* A configured seeder that is alone holds no dead id, and a row it did not find
\* is still not there.
Undisturbed(p) ==
    /\ Running(p) => \A q \in Commands \ {p} : ~Running(q)
    /\ configured =>
           /\ command[p].pc = "failed" => phoneTaken
           /\ command[p].pc \in {"find", "write"} =>
                  /\ command[p].lost = {}
                  /\ \A i \in command[p].done : entry[i] = "seeded"
           /\ command[p].pc = "write" /\ command[p].found = "absent" =>
                  entry[command[p].item] = "absent"

UndisturbedInv == \A p \in Commands \ (touched \cup raced) : Undisturbed(p)

\* The admin's turn comes after the role was dealt with.
LEMMA RoleBeforeAdmin ==
  ASSUME SeedTypeOK, NEW p \in Commands, Turn(p, AdminRow)
  PROVE  RoleRow \in command[p].done
<1>1. RoleRow \in Todo(p) => Order(AdminRow.table) <= Order(RoleRow.table)
  BY DEF Turn
<1>2. AdminRow.table = "admins" /\ RoleRow.table = "roles"
  BY DEF AdminRow, RoleRow, Row
<1>3. Order("admins") = 5 /\ Order("roles") = 3
  BY DEF Order
<1>4. RoleRow \notin Todo(p)
  BY <1>1, <1>2, <1>3
<1> QED
  BY <1>4, RoleIsARow DEF Todo

LEMMA UndisturbedFind ==
  ASSUME SeedTypeOK, NEW p \in Commands, Undisturbed(p), configured, NEW i \in Rows, Find(p, i)
  PROVE  /\ command'[p].pc \in {"find", "write"} /\ command'[p].lost = {}
         /\ \A j \in command'[p].done : entry'[j] = "seeded"
         /\ command'[p].pc = "write" /\ command'[p].found = "absent" =>
                entry'[command'[p].item] = "absent"
<1>1. UNCHANGED entry /\ command[p].pc = "find" /\ Turn(p, i)
  BY DEF Find, Turn
<1>2. command[p].lost = {} /\ \A j \in command[p].done : entry[j] = "seeded"
  BY <1>1 DEF Undisturbed
<1>3. ~Throws(i)
  <2>1. i = AdminRow => entry[RoleRow] = "seeded"
    BY <1>1, <1>2, RoleBeforeAdmin
  <2> QED BY <2>1 DEF Throws
<1>4. Found(p, i) = entry[i] /\ command[p].lost \ Reads(i) = {}
  BY <1>2 DEF Found
<1>5. CASE Fits(Found(p, i))
  <2>1. GoOn(p, "find", command[p].done \cup {i}, command[p].lost \ Reads(i), RoleRow, "absent")
    BY <1>3, <1>5 DEF Find
  <2>2. command'[p].pc = "find" /\ command'[p].done = command[p].done \cup {i}
        /\ command'[p].lost = {}
    BY <1>4, <2>1, GoOnFacts
  <2>3. entry[i] = "seeded"
    BY <1>4, <1>5 DEF Fits
  <2> QED BY <1>1, <1>2, <2>2, <2>3
<1>6. CASE ~Fits(Found(p, i))
  <2>1. GoOn(p, "write", command[p].done, command[p].lost \ Reads(i), i, Found(p, i))
    BY <1>3, <1>6 DEF Find
  <2>2. command'[p].pc = "write" /\ command'[p].done = command[p].done
        /\ command'[p].lost = {} /\ command'[p].item = i /\ command'[p].found = entry[i]
    BY <1>4, <2>1, GoOnFacts
  <2> QED BY <1>1, <1>2, <2>2
<1> QED
  BY <1>5, <1>6

LEMMA UndisturbedWrite ==
  ASSUME SeedTypeOK, NEW p \in Commands, Undisturbed(p), configured, Write(p)
  PROVE  /\ command'[p].pc \in {"find", "failed"}
         /\ command'[p].pc = "failed" => phoneTaken'
         /\ command'[p].pc = "find" => command'[p].lost = {}
                                       /\ \A j \in command'[p].done : entry'[j] = "seeded"
<1> DEFINE i == command[p].item
<1>1. command[p].pc = "write" /\ i \in Rows /\ UNCHANGED phoneTaken
  BY WriteCases
<1>2. command[p].lost = {} /\ \A j \in command[p].done : entry[j] = "seeded"
  BY <1>1 DEF Undisturbed
<1>3. ASSUME Inserts(p), Refused(p, i) PROVE phoneTaken
  <2>1. command[p].found = "absent"
    BY <1>2, <1>3 DEF Inserts
  <2>2. entry[i] = "absent"
    BY <1>1, <2>1 DEF Undisturbed
  <2> QED BY <1>2, <1>3, <2>2 DEF Refused
<1>4. CASE End(p, "failed", command[p].killed) /\ Inserts(p) /\ Refused(p, i)
  BY <1>1, <1>3, <1>4, EndFacts
<1>5. CASE Wrote(p, i) /\ entry' = [entry EXCEPT ![i] = "seeded"]
  <2>1. command'[p].pc = "find" /\ command'[p].done = command[p].done \cup {i}
        /\ command'[p].lost = command[p].lost \ {i}
    BY <1>5, GoOnFacts DEF Wrote
  <2>2. command[p].done \subseteq Rows
    BY Fields
  <2>3. \A j \in command[p].done \cup {i} : entry'[j] = "seeded"
    BY <1>1, <1>2, <1>5, <2>2 DEF SeedTypeOK
  <2> QED BY <1>2, <2>1, <2>3
<1>6. CASE Inserts(p) /\ Refused(p, i) /\ i \in GrantRows
  <2>1. i # UserRow
    BY <1>6 DEF GrantRows, UserRow, Row
  <2>2. entry[i] # "absent"
    BY <1>2, <1>6, <2>1 DEF Refused
  <2>3. entry[i] = "absent"
    BY <1>1, <1>2, <1>6 DEF Inserts, Undisturbed
  <2> QED BY <2>2, <2>3
<1> QED
  BY <1>4, <1>5, <1>6, WriteCases

\* p acts, and is alone when it ends up untouched and not raced.
LEMMA UndisturbedOwn ==
  ASSUME SeedTypeOK, NEW p \in Commands, Undisturbed(p),
         \/ Stop(p) \/ Kill(p) \/ EndClear(p) \/ EndSeed(p) \/ Truncate(p)
         \/ \E i \in Rows : Find(p, i)
         \/ Write(p)
  PROVE  Undisturbed(p)'
<1>1. Running(p) /\ configured' = configured
  BY WriteCases DEF Stop, Kill, EndClear, EndSeed, Truncate, Find, Turn, Running
<1>2. \A q \in Commands \ {p} : command'[q].pc = command[q].pc
  BY OthersStay, TruncateFacts
<1>3. \A q \in Commands \ {p} : command'[q].pc \notin {"clear", "find", "write"}
  BY <1>1, <1>2 DEF Undisturbed, Running
<1>4. ASSUME configured
      PROVE  /\ command'[p].pc = "failed" => phoneTaken'
             /\ command'[p].pc \in {"find", "write"} =>
                    /\ command'[p].lost = {}
                    /\ \A i \in command'[p].done : entry'[i] = "seeded"
             /\ command'[p].pc = "write" /\ command'[p].found = "absent" =>
                    entry'[command'[p].item] = "absent"
  <2>1. CASE Stop(p)
    BY <2>1, EndFacts DEF Stop, AfterFailure
  <2>2. CASE Kill(p) \/ EndClear(p)
    <3>1. \E killed : End(p, After(p), killed)
      BY <2>2 DEF Kill, EndClear
    <3>2. command'[p].pc = After(p) /\ command'[p].lost = {} /\ command'[p].done = {}
      BY <3>1, EndFacts
    <3>3. After(p) \in {"find", "done"}
      BY DEF After
    <3> QED BY <3>2, <3>3
  <2>3. CASE EndSeed(p)
    BY <2>3, EndFacts DEF EndSeed
  <2>4. CASE Truncate(p)
    BY <2>4, TruncateFacts
  <2>5. CASE \E i \in Rows : Find(p, i)
    BY <1>4, <2>5, UndisturbedFind
  <2>6. CASE Write(p)
    BY <1>4, <2>6, UndisturbedWrite
  <2> QED BY <2>1, <2>2, <2>3, <2>4, <2>5, <2>6
<1> QED
  BY <1>1, <1>3, <1>4 DEF Undisturbed, Running

LEMMA UndisturbedStart ==
  ASSUME SeedTypeOK, NEW p \in Commands, NEW kind \in Kinds, Start(p, kind), p \notin raced'
  PROVE  Undisturbed(p)'
<1>1. \A q \in Commands \ {p} : ~Running(q)
  BY DEF Start
<1>2. \A q \in Commands \ {p} : command'[q] = command[q]
  BY OthersStay
<1>3. /\ command'[p].pc \in {"find", "clear"}
      /\ command'[p].done = {} /\ command'[p].lost = {}
  BY StartFacts
<1> QED
  BY <1>1, <1>2, <1>3 DEF Undisturbed, Running

LEMMA UndisturbedBystander ==
  ASSUME SeedTypeOK, [SeedNext]_seedVars, NEW p \in Commands, p \notin touched', p \notin raced',
         Undisturbed(p),
         ~ \/ \E kind \in Kinds : Start(p, kind)
           \/ Stop(p) \/ Kill(p) \/ EndClear(p) \/ EndSeed(p) \/ Truncate(p)
           \/ \E i \in Rows : Find(p, i)
           \/ Write(p)
  PROVE  Undisturbed(p)'
<1>1. /\ command'[p] = command[p] /\ UNCHANGED <<phoneTaken, configured>>
      /\ \A i \in Rows : entry[i] = "seeded" => entry'[i] = "seeded"
  BY Bystander
<1>2. CASE UNCHANGED seedVars
  BY <1>2 DEF seedVars, Undisturbed, Running
<1>3. CASE AppStep
  BY <1>3, AppFacts DEF Edit
<1>4. CASE ~Running(p)
  BY <1>1, <1>4 DEF Undisturbed, Running
<1>5. ASSUME NEW q \in Commands \ {p}, NEW kind \in Kinds, Start(q, kind), Running(p)
      PROVE  FALSE
  BY <1>5 DEF Start
<1>6. ASSUME NEW q \in Commands \ {p}, Running(p),
             \/ Stop(q) \/ Kill(q) \/ EndClear(q) \/ EndSeed(q) \/ Truncate(q)
             \/ \E i \in Rows : Find(q, i)
             \/ Write(q)
      PROVE  FALSE
  <2>1. Running(q)
    BY <1>6, WriteCases DEF Stop, Kill, EndClear, EndSeed, Truncate, Find, Turn, Running
  <2> QED BY <1>6, <2>1 DEF Undisturbed
<1> QED
  BY <1>2, <1>3, <1>4, <1>5, <1>6, Cases

LEMMA UndisturbedNext == SeedTypeOK /\ UndisturbedInv /\ [SeedNext]_seedVars => UndisturbedInv'
<1> SUFFICES ASSUME SeedTypeOK, UndisturbedInv, [SeedNext]_seedVars,
                    NEW p \in Commands, p \notin touched', p \notin raced'
             PROVE  Undisturbed(p)'
  BY DEF UndisturbedInv
<1>1. CASE \E kind \in Kinds : Start(p, kind)
  BY <1>1, UndisturbedStart
<1>2. ASSUME ~\E kind \in Kinds : Start(p, kind)
      PROVE  p \notin touched /\ p \notin raced
  <2>1. CASE UNCHANGED seedVars
    BY <2>1 DEF seedVars
  <2>2. CASE AppStep
    BY <2>2, AppFacts DEF Edit
  <2>3. ASSUME NEW q \in Commands, \E kind \in Kinds : Start(q, kind)
        PROVE  p \notin touched /\ p \notin raced
    BY <1>2, <2>3 DEF Start
  <2>4. ASSUME NEW q \in Commands,
               \/ Stop(q) \/ Kill(q) \/ EndClear(q) \/ EndSeed(q) \/ Truncate(q)
               \/ \E i \in Rows : Find(q, i)
               \/ Write(q)
        PROVE  p \notin touched /\ p \notin raced
    BY <2>4, WriteCases, TruncateFacts DEF Stop, Kill, EndClear, EndSeed, Find
  <2> QED BY <2>1, <2>2, <2>3, <2>4, Cases
<1>3. CASE ~\E kind \in Kinds : Start(p, kind)
  <2>1. Undisturbed(p)
    BY <1>2, <1>3 DEF UndisturbedInv
  <2> QED BY <1>3, <2>1, UndisturbedOwn, UndisturbedBystander
<1> QED
  BY <1>1, <1>3

LEMMA UndisturbedInit == SeedInit => UndisturbedInv
  BY DEF SeedInit, Process, UndisturbedInv, Undisturbed, Running

\* A configured seeder that is alone never fails by itself, whatever earlier
\* commands and the application left, but for the phone of another user.
THEOREM LoneSeedersSucceed == SeedSpec => []LoneSeederSucceeds
<1>1. UndisturbedInv => LoneSeederSucceeds
  BY DEF UndisturbedInv, Undisturbed, LoneSeederSucceeds
<1> QED
  BY <1>1, TypeInit, TypeNext, UndisturbedInit, UndisturbedNext, PTL DEF SeedSpec
=============================================================================
